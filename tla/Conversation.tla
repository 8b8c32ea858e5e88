---------------------------- MODULE Conversation ----------------------------
(* What a chat session promises to those who talk in it, whoever else is at   *)
(* work on it: without records, revisions, locks, images or disconnections.   *)
(*                                                                            *)
(* A conversation is a list of turns, one per request.  An answer is thought  *)
(* out on the conversation as it is; it becomes the last turn, or takes the   *)
(* place of the last one, only if nobody has changed the conversation         *)
(* meanwhile.  Every change thus ends all thinking that has begun: of         *)
(* several answers at once one is recorded, and no turn is put behind turns   *)
(* its author has not seen.  What is deleted stays deleted.  Nobody promises  *)
(* anything about a conversation that somebody has overwritten.               *)
EXTENDS Naturals, Sequences, SequencesExt

CONSTANTS Execution,  \* those who answer, once each
          Turn        \* what they answer, with its author in "by", its request in "req"

VARIABLES status,  \* "none" yet, "active", "closed", "deleted" or "lost"
          turns,   \* the turns in their order
          stage    \* whether an execution has yet to begin, thinks, or is through

vars == <<status, turns, stage>>

Init ==
    /\ \/ status = "none" /\ turns = <<>>
       \/ status = "active" /\ turns \in Seq(Turn)
    /\ stage \in [Execution -> {"idle", "over"}]

Asked(q) == \E i \in DOMAIN turns : turns[i].req = q

\* Whatever anybody was thinking about has changed.
Interrupt == stage' = [e \in Execution |-> IF stage[e] = "thinking" THEN "over" ELSE stage[e]]

Begin(e) ==
    /\ stage[e] = "idle" /\ status \in {"none", "active", "closed"}
    /\ stage' = [stage EXCEPT ![e] = "thinking"]
    /\ UNCHANGED <<status, turns>>

GiveUp(e) ==
    /\ stage[e] = "thinking"
    /\ stage' = [stage EXCEPT ![e] = "over"]
    /\ UNCHANGED <<status, turns>>

\* An answer to a request that has none begins, continues or reopens the
\* conversation, or replaces the last turn of an active one.
Answer(e) ==
    /\ stage[e] = "thinking"
    /\ status' = "active"
    /\ Interrupt
    /\ \E t \in Turn :
         /\ t.by = e /\ ~Asked(t.req)
         /\ \/ turns' = Append(turns, t)
            \/ status = "active" /\ turns # <<>> /\ turns' = Append(Front(turns), t)

Retitle ==
    /\ status \in {"active", "closed"}
    /\ Interrupt
    /\ UNCHANGED <<status, turns>>

Close ==
    /\ status \in {"active", "closed"}
    /\ status' = "closed"
    /\ Interrupt
    /\ UNCHANGED turns

TakeBack(i) ==
    /\ status = "active"
    /\ turns' = RemoveAt(turns, i)
    /\ Interrupt
    /\ UNCHANGED status

Delete ==
    /\ status \in {"active", "closed"}
    /\ status' = "deleted" /\ turns' = <<>>
    /\ Interrupt

Lose ==
    /\ status' = "lost" /\ turns' = <<>>
    /\ stage' = [e \in Execution |-> "over"]

Next ==
    \/ \E e \in Execution : Begin(e) \/ GiveUp(e) \/ Answer(e)
    \/ Retitle \/ Close \/ Delete \/ Lose
    \/ \E i \in DOMAIN turns : TakeBack(i)

Spec == Init /\ [][Next]_vars
=============================================================================
