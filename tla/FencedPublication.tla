------------------------ MODULE FencedPublication ------------------------
(***************************************************************************)
(* What the transactional ingest store promises to the rest of KnoArbor,   *)
(* without attempts, epochs, leases, admission or retries.                 *)
(*                                                                         *)
(* At most one worker at a time may write for a task: it is granted that   *)
(* right, keeps it until it is revoked and never gets it back silently.    *)
(* Only the holder adds an entry to the log of published revisions, each   *)
(* entry is built on the revision that was the latest of its source, and   *)
(* a source can be cleared as a whole.                                     *)
(***************************************************************************)
EXTENDS Naturals

CONSTANTS Task, Worker, Source,
          Nobody,    \* no worker holds the task
          Revision   \* revision ids, positive numbers

VARIABLES
    holder,   \* the worker that may publish for a task, or Nobody
    log,      \* the published revisions: [id, source, on, task]
    latest    \* the newest revision of a source, 0 when it has none

vars == <<holder, log, latest>>

Init ==
    /\ holder = [t \in Task |-> Nobody]
    /\ log = {}
    /\ latest = [s \in Source |-> 0]

Grant(t, w) ==
    /\ holder[t] = Nobody
    /\ holder' = [holder EXCEPT ![t] = w]
    /\ UNCHANGED <<log, latest>>

(* Several tasks may lose their holders in one step.                       *)
Revoke(T) ==
    /\ holder' = [t \in Task |-> IF t \in T THEN Nobody ELSE holder[t]]
    /\ UNCHANGED <<log, latest>>

Commit(t, s, id) ==
    /\ holder[t] # Nobody
    /\ \A e \in log : e.id < id
    /\ log' = log \cup {[id |-> id, source |-> s, on |-> latest[s], task |-> t]}
    /\ latest' = [latest EXCEPT ![s] = id]
    /\ UNCHANGED holder

Clear(s) ==
    /\ latest[s] # 0
    /\ log' = {e \in log : e.source # s}
    /\ latest' = [latest EXCEPT ![s] = 0]
    /\ UNCHANGED holder

Next ==
    \/ \E T \in SUBSET Task : Revoke(T)
    \/ \E t \in Task, w \in Worker : Grant(t, w)
    \/ \E t \in Task, s \in Source, id \in Revision : Commit(t, s, id)
    \/ \E s \in Source : Clear(s)

Spec == Init /\ [][Next]_vars
=============================================================================
