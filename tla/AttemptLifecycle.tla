------------------------ MODULE AttemptLifecycle ------------------------
(***************************************************************************)
(* What the parts of KnoArbor that handle ingest tasks agree on about a    *)
(* task and its attempts, without leases, epochs, admission, cancellations *)
(* or the ways an attempt can end.                                         *)
(*                                                                         *)
(* A task has one attempt at a time.  An attempt is open until it is       *)
(* claimed or withdrawn, claimed once, and over once; work on the task is  *)
(* taken up again only as a new attempt.  Who claimed an attempt works on  *)
(* it until it leaves, whatever became of the attempt meanwhile, and what  *)
(* it leaves behind is recorded only while the attempt is still current    *)
(* and running.                                                            *)
(***************************************************************************)
EXTENDS Naturals

CONSTANTS Task, Executor

VARIABLES
    state,     \* of the current attempt: "none" yet, "queued", "running" or "over"
    attempt,   \* the number of the current attempt
    working    \* who works on which attempt: [by, task, attempt]

vars == <<state, attempt, working>>

(* At first a task has no attempt, or a first one.                         *)
Init ==
    /\ state \in [Task -> {"none", "queued"}]
    /\ attempt = [t \in Task |-> IF state[t] = "none" THEN 0 ELSE 1]
    /\ working = {}

Become(t, st) == state' = [state EXCEPT ![t] = st]
Current(r) == state[r.task] = "running" /\ attempt[r.task] = r.attempt

Open(t) ==
    /\ state[t] # "queued"
    /\ Become(t, "queued")
    /\ attempt' = [attempt EXCEPT ![t] = attempt[t] + 1]
    /\ UNCHANGED working

Withdraw(t) ==
    /\ state[t] = "queued"
    /\ Become(t, "over")
    /\ UNCHANGED <<attempt, working>>

Claim(e, t) ==
    /\ state[t] = "queued" /\ \A r \in working : r.by # e
    /\ Become(t, "running")
    /\ working' = working \cup {[by |-> e, task |-> t, attempt |-> attempt[t]]}
    /\ UNCHANGED attempt

(* The attempts of several tasks may be given up in one step.              *)
Interrupt(T) ==
    /\ \A t \in T : state[t] = "running"
    /\ state' = [t \in Task |-> IF t \in T THEN "over" ELSE state[t]]
    /\ UNCHANGED <<attempt, working>>

Settle(r) ==
    /\ Current(r)
    /\ Become(r.task, "over")
    /\ working' = working \ {r}
    /\ UNCHANGED attempt

Abandon(r) ==
    /\ working' = working \ {r}
    /\ UNCHANGED <<state, attempt>>

Next ==
    \/ \E t \in Task : Open(t) \/ Withdraw(t) \/ \E e \in Executor : Claim(e, t)
    \/ \E T \in SUBSET Task : Interrupt(T)
    \/ \E r \in working : Settle(r) \/ Abandon(r)

Spec == Init /\ [][Next]_vars
=============================================================================
