--------------------------- MODULE ServedView ---------------------------
(***************************************************************************)
(* What materialization promises to the readers of a vault, without pages, *)
(* fingerprints, index directories, staging, crashes or retries.           *)
(*                                                                         *)
(* Every commit asks for a view of the facts it leaves.  What readers are  *)
(* served changes only to a view of the facts asked for last, never to an  *)
(* older one, and an epoch is confirmed only while that view is served.    *)
(***************************************************************************)
EXTENDS Naturals

CONSTANTS Facts,     \* the values the active facts take
          NoFacts    \* nothing was served yet

VARIABLES
    wanted,      \* the facts asked for last
    epoch,       \* how often a view was asked for
    served,      \* the facts readers see, or NoFacts
    confirmed    \* the last epoch known to be served

vars == <<wanted, epoch, served, confirmed>>

Init ==
    /\ wanted \in Facts
    /\ epoch = 1
    /\ served = NoFacts
    /\ confirmed = 0

Ask ==
    /\ wanted' \in Facts
    /\ epoch' = epoch + 1
    /\ UNCHANGED <<served, confirmed>>

Serve ==
    /\ served' = wanted
    /\ UNCHANGED <<wanted, epoch, confirmed>>

Confirm ==
    /\ served = wanted
    /\ confirmed' = epoch
    /\ UNCHANGED <<wanted, epoch, served>>

Next == Ask \/ Serve \/ Confirm

Spec == Init /\ [][Next]_vars
=============================================================================
