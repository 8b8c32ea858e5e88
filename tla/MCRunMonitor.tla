--------------------------- MODULE MCRunMonitor ---------------------------
(* An instance of RunMonitor for TLC.                                      *)
EXTENDS RunMonitor

CONSTANTS r1, r2, c1, c2
=============================================================================
