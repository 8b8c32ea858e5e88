---------------------- MODULE MCOperationScheduler ----------------------
(* Instances of OperationScheduler for TLC.                                *)
EXTENDS OperationScheduler

CONSTANTS t1, t2, c1, c2

(* The tasks compete for one provider.                                     *)
OneProvider == [t \in Task |-> "provider"]
=============================================================================
