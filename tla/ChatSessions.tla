---------------------------- MODULE ChatSessions ----------------------------
(* One chat session: its record on disk, the images drawn for its turns, and  *)
(* everyone who works on it at once.                                          *)
(*                                                                            *)
(*   executions  one call of ChatAgentService.chat each: load the record,     *)
(*               answer for as long as the model takes, commit the turn       *)
(*   editors     remove a turn, rename, close or delete, under the file lock  *)
(*   marks       mark_ingest_started: a read and a write without the lock     *)
(*                                                                            *)
(* The record is optimistic: whoever changes it names the revision it saw and *)
(* is refused when the record has another one.  Images are not in the record: *)
(* they are files in a directory per request id, and a failing execution      *)
(* removes the whole directory.                                               *)
EXTENDS Naturals, FiniteSets, Sequences, SequencesExt

CONSTANTS Execution,  \* calls of chat()
          Mark,       \* calls of mark_ingest_started
          Request,    \* request ids
          Sent,       \* what the executions may be asked for
          NoFile,     \* the session has no record
          NoTurn,     \* no turn
          Free,       \* the lock is not held
          Done,       \* a mark has been written
          MaxRevision \* bound: revisions a record reaches

Begins == {"past", "create"}
Kinds == Begins \cup {"continue", "retry", "none"}
Turns == [req : Request, by : Execution, image : BOOLEAN]
Contents == [revision : 1 .. MaxRevision, status : {"active", "closed"}, turns : Seq(Turns)]
Edit == [op : {"remove"}, turn : Turns]
          \cup [op : {"rename", "close", "delete"}, turn : {NoTurn}]
Locks == [by : Edit \cup Execution, copy : Contents \cup {NoFile}, wrote : BOOLEAN]

\* A session is created once, and the turns it begins with are of different
\* requests.
ASSUME ShapeAssumption ==
    /\ Sent \subseteq [Execution -> [req : Request, kind : Kinds]]
    /\ \A plan \in Sent : \A e, f \in Execution :
         e # f /\ plan[e].kind \in Begins /\ plan[f].kind \in Begins =>
            plan[e].kind = "past" /\ plan[f].kind = "past" /\ plan[e].req # plan[f].req
    /\ IsFiniteSet(Execution) /\ MaxRevision \in Nat \ {0}

\* What stands for nothing is not something.
ASSUME SpecialAssumption ==
    NoFile \notin Contents /\ NoTurn \notin Turns /\ Free \notin Locks /\ Edit \cap Execution = {}

VARIABLES file,     \* the session's record
          lock,     \* FileLock of the session, what its holder read, has it written
          art,      \* executions whose image is on disk
          sent,     \* the request id and kind of each execution
          pc,       \* where an execution is
          view,     \* the record it answers on
          image,    \* it has drawn an image its turn will show
          answer,   \* the turn its response carries
          copy      \* what a mark has read

\* What the record has been, for the properties.
VARIABLES committed, \* turns ever written by a commit
          gone,      \* turns removed, replaced or deleted on request
          swept,     \* requests whose images went under a turn that has them
          clobbered  \* a mark has overwritten a record newer than its copy

run == <<sent, pc, view, image, answer>>
ghosts == <<committed, gone, swept, clobbered>>
vars == <<file, lock, art, run, copy, ghosts>>

Req(e) == sent[e].req
Kind(e) == sent[e].kind
TurnOf(e) == [req |-> Req(e), by |-> e, image |-> image[e]]
Exists == file # NoFile
RevisionOf(record) == IF record = NoFile THEN 0 ELSE record.revision
Revision == RevisionOf(file)
Active == Exists /\ file.status = "active"
TurnsOf(record) == IF record = NoFile THEN {} ELSE ToSet(record.turns)
Holds(x) == lock # Free /\ lock.by = x

\* delete_chat_request_artifacts
Without(q) == {e \in art : Req(e) # q}

-----------------------------------------------------------------------------
(* An execution: chat_agent.py, chat_session_workflow.py.                     *)

\* A session that an earlier execution has begun, or none yet.
Past == {e \in Execution : Kind(e) = "past"}
PastTurns == {[req |-> Req(e), by |-> e, image |-> TRUE] : e \in Past}

Init ==
    /\ sent \in Sent
    /\ file = IF Past = {} THEN NoFile
              ELSE [revision |-> 1, status |-> "active", turns |-> SetToSeq(PastTurns)]
    /\ lock = Free
    /\ art = Past
    /\ pc = [e \in Execution |-> IF Kind(e) = "past" THEN "done" ELSE "idle"]
    /\ view = [e \in Execution |-> NoFile]
    /\ image = [e \in Execution |-> FALSE]
    /\ answer = [e \in Execution |-> NoTurn]
    /\ copy = [m \in Mark |-> NoFile]
    /\ committed = PastTurns /\ gone = {} /\ swept = {}
    /\ clobbered = FALSE

Goto(e, l) == pc' = [pc EXCEPT ![e] = l] /\ UNCHANGED sent

\* The error path of chat(): the request's images go, whoever drew them.
Sweep(e) ==
    /\ art' = Without(Req(e))
    /\ swept' = swept \cup {Req(e)}

\* chat() has returned or raised: nothing of the call is left.
Leave(e) ==
    /\ Goto(e, "done")
    /\ view' = [view EXCEPT ![e] = NoFile]
    /\ image' = [image EXCEPT ![e] = FALSE]
    /\ answer' = [answer EXCEPT ![e] = NoTurn]

\* prepare_retry_turn: only the last turn of an active session, at the revision
\* the client names, which is one the record has now.
Prepare(e) ==
    /\ pc[e] = "idle" /\ Kind(e) = "retry"
    /\ Active /\ file.turns # <<>>
    /\ view' = [view EXCEPT ![e] = file]
    /\ Goto(e, "prepared")
    /\ UNCHANGED <<file, lock, art, image, answer, copy, ghosts>>

\* The turn to regenerate is still the last one of the record.
TargetIsLast(e) ==
    Exists /\ file.turns # <<>> /\ Last(file.turns).by = Last(view[e].turns).by

\* chat() reads the record and compares its revision; a new session has none,
\* and a retry has named a revision and a turn in prepare_retry_turn.
Load(e) ==
    /\ \/ pc[e] = "idle" /\ Kind(e) = "create" /\ view' = view
       \/ /\ \/ pc[e] = "idle" /\ Kind(e) = "continue" /\ Exists
             \/ pc[e] = "prepared" /\ Revision = RevisionOf(view[e]) /\ TargetIsLast(e)
          /\ view' = [view EXCEPT ![e] = file]
    /\ Goto(e, "working")
    /\ UNCHANGED <<file, lock, art, image, answer, copy, ghosts>>

\* A retry whose record changed between the two reads is refused; nothing has
\* been drawn and nothing is removed.
RefuseRetry(e) ==
    /\ pc[e] = "prepared"
    /\ Revision # RevisionOf(view[e]) \/ ~TargetIsLast(e)
    /\ Leave(e)
    /\ UNCHANGED <<file, lock, art, copy, ghosts>>

\* The decision asked for an image, the tool has stored it and the answer is
\* composed.  When the safety envelope stops the loop behind the tool the image
\* is on disk and the turn does not show it.
Draw(e) ==
    /\ pc[e] = "working"
    /\ art' = art \cup {e}
    /\ \E shown \in BOOLEAN : image' = [image EXCEPT ![e] = shown]
    /\ Goto(e, "answered")
    /\ UNCHANGED <<file, lock, view, answer, copy, ghosts>>

\* The image could not be made: the request's directory goes and the answer is
\* composed without it.
DrawFails(e) ==
    /\ pc[e] = "working"
    /\ Sweep(e)
    /\ Goto(e, "answered")
    /\ UNCHANGED <<file, lock, view, image, answer, copy, committed,
                   gone, clobbered>>

\* No image was asked for, or the safety envelope has cut the loop short.
Compose(e) ==
    /\ pc[e] = "working"
    /\ Goto(e, "answered")
    /\ UNCHANGED <<file, lock, art, view, image, answer, copy, ghosts>>

\* A model error, an integrity error of a tool, or the client disconnected -
\* before the answer was composed or behind it.
Fail(e) ==
    /\ pc[e] \in {"working", "answered"}
    /\ Sweep(e)
    /\ Leave(e)
    /\ UNCHANGED <<file, lock, copy, committed,
                   gone, clobbered>>

-----------------------------------------------------------------------------
(* The commit: chat_persistence.py, chat_sessions.py.                         *)

Recorded(q) == {t \in TurnsOf(file) : t.req = q}

\* Mutant: every response is taken for a new one.
LookMutant(e) ==
    /\ pc[e] = "answered"
    /\ Goto(e, "looked")
    /\ UNCHANGED <<file, lock, art, view, image, answer, copy, ghosts>>

\* A turn of this request id is there already: the response becomes that turn.
\* The look is outside the lock.
Look(e) ==
    /\ pc[e] = "answered"
    /\ \/ /\ Recorded(Req(e)) = {}
          /\ Goto(e, "looked") /\ answer' = answer
       \/ /\ Recorded(Req(e)) # {}
          /\ answer' = [answer EXCEPT ![e] = CHOOSE t \in Recorded(Req(e)) : TRUE]
          /\ Goto(e, "answering")
    /\ UNCHANGED <<file, lock, art, view, image, copy, ghosts>>

\* Mutant: the commit compares the turn and forgets the revision.
MayCommitMutant(e) == Exists /\ (Kind(e) = "retry" => Active /\ TargetIsLast(e))

\* _response_record refuses another revision and, for a retry, another target.
MayCommit(e) ==
    /\ RevisionOf(view[e]) = Revision
    /\ Kind(e) = "retry" => Active /\ TargetIsLast(e)

\* Bound: the record has at most MaxRevision revisions.
LockToCommit(e) ==
    /\ pc[e] = "looked" /\ lock = Free /\ MayCommit(e)
    /\ Revision < MaxRevision
    /\ lock' = [by |-> e, copy |-> file, wrote |-> FALSE]
    /\ Goto(e, "locked")
    /\ UNCHANGED <<file, art, view, image, answer, copy, ghosts>>

Conflict(e) ==
    /\ pc[e] = "looked" /\ lock = Free /\ ~MayCommit(e)
    /\ Sweep(e)
    /\ Leave(e)
    /\ UNCHANGED <<file, lock, copy, committed,
                   gone, clobbered>>

\* Mutant: a regenerated answer is appended behind the one it replaces.
AnsweredMutant(e, old) ==
    LET turns == IF old = NoFile THEN <<>> ELSE old.turns
        known == \E t \in TurnsOf(old) : t.req = Req(e)
    IN [revision |-> RevisionOf(view[e]) + 1,
        status   |-> "active",
        turns    |-> IF known THEN turns ELSE Append(turns, TurnOf(e))]

\* The record _response_record builds from what the holder of the lock read.
\* A turn of a request id that is there already is not appended again.
Answered(e, old) ==
    LET turns == IF old = NoFile THEN <<>> ELSE old.turns
        known == \E t \in TurnsOf(old) : t.req = Req(e)
    IN [revision |-> RevisionOf(view[e]) + 1,
        status   |-> "active",
        turns    |-> CASE Kind(e) = "retry" -> Append(Front(turns), TurnOf(e))
                       [] Kind(e) # "retry" /\ ~known -> Append(turns, TurnOf(e))
                       [] OTHER -> turns]

Write(e) ==
    /\ pc[e] = "locked" /\ Holds(e) /\ ~lock.wrote
    /\ file' = Answered(e, lock.copy)
    /\ lock' = [lock EXCEPT !.wrote = TRUE]
    /\ answer' = [answer EXCEPT ![e] = TurnOf(e)]
    /\ committed' = committed \cup TurnsOf(file')
    /\ gone' = IF Kind(e) = "retry" THEN gone \cup {Last(lock.copy.turns)} ELSE gone
    /\ UNCHANGED <<art, sent, pc, view, image, copy, swept, clobbered>>

\* The images of a turn that is replaced or removed go behind the record.  An
\* execution of the same request that has read the record in between loses its
\* own with them and commits a turn that shows them.
Overtaken(q) == \E e \in Execution : /\ pc[e] \in {"working", "answered", "looked"}
                                     /\ Req(e) = q /\ RevisionOf(view[e]) = Revision
Discard(q) ==
    /\ art' = Without(q)
    /\ swept' = IF Overtaken(q) THEN swept \cup {q} ELSE swept

\* Mutant: the images of the request that replaces go, not of the replaced.
ReplacedMutant(e) == Req(e)

\* A replaced turn takes its images with it; then the lock is released.
Replaced(e) == Last(lock.copy.turns).req

Unlock(e) ==
    /\ pc[e] = "locked" /\ Holds(e) /\ lock.wrote
    /\ IF Kind(e) = "retry" THEN Discard(Replaced(e)) ELSE UNCHANGED <<art, swept>>
    /\ lock' = Free
    /\ Goto(e, "persisted")
    /\ UNCHANGED <<file, view, image, answer, copy, committed, gone, clobbered>>

\* The ledger, if it is asked for.
Ledger(e) ==
    /\ pc[e] = "persisted"
    /\ Goto(e, "answering")
    /\ UNCHANGED <<file, lock, art, view, image, answer, copy, ghosts>>

\* Cancelled, or a ledger that cannot be written: the turn is in the record,
\* the request's images are removed and the client gets an error.
FailCommitted(e) ==
    /\ pc[e] = "persisted"
    /\ Sweep(e)
    /\ Leave(e)
    /\ UNCHANGED <<file, lock, copy, committed,
                   gone, clobbered>>

\* The last look at the token: answered, or cancelled with nothing removed.
Reply(e) ==
    /\ pc[e] = "answering"
    /\ Leave(e)
    /\ UNCHANGED <<file, lock, art, copy, ghosts>>

\* The process ends: nothing of the error path runs, the lock is released.
Crash(e) ==
    /\ pc[e] \notin {"idle", "done"}
    /\ lock' = IF Holds(e) THEN Free ELSE lock
    /\ Leave(e)
    /\ UNCHANGED <<file, art, copy, ghosts>>

-----------------------------------------------------------------------------
(* Editors: remove_turn, update_title, close_session, delete_session.         *)

\* The client names the revision the record has; to remove a turn the session is
\* active and has the turn.
LockToEdit(d) ==
    /\ lock = Free /\ Exists
    /\ d.op = "remove" => Active /\ d.turn \in TurnsOf(file)
    /\ d.op # "delete" => file.revision < MaxRevision
    /\ lock' = [by |-> d, copy |-> file, wrote |-> FALSE]
    /\ UNCHANGED <<file, art, run, copy, ghosts>>

\* A turn's id is in a record once.
Place(t, turns) == CHOOSE i \in DOMAIN turns : turns[i] = t
Edited(d, old) ==
    [old EXCEPT !.revision = @ + 1,
                !.status = IF d.op = "close" THEN "closed" ELSE @,
                !.turns = IF d.op = "remove" THEN RemoveAt(@, Place(d.turn, @)) ELSE @]

\* The record is written, then the images of what it lost are removed.
WriteEdit(d) ==
    /\ Holds(d) /\ ~lock.wrote
    /\ \/ /\ d.op = "delete" /\ file' = NoFile
          /\ gone' = gone \cup TurnsOf(lock.copy)
       \/ /\ d.op # "delete" /\ file' = Edited(d, lock.copy)
          /\ gone' = gone \cup ({d.turn} \ {NoTurn})
    /\ lock' = IF d.op \in {"rename", "close"} THEN Free ELSE [lock EXCEPT !.wrote = TRUE]
    /\ UNCHANGED <<art, run, copy, committed, swept, clobbered>>

UnlockEdit(d) ==
    /\ Holds(d) /\ lock.wrote
    /\ IF d.op = "remove" THEN Discard(d.turn.req) ELSE art' = {} /\ UNCHANGED swept
    /\ lock' = Free
    /\ UNCHANGED <<file, run, copy, committed, gone, clobbered>>

\* Its process ends, or a file cannot be written or removed.
FailEdit(d) ==
    /\ Holds(d)
    /\ lock' = Free
    /\ UNCHANGED <<file, art, run, copy, ghosts>>

-----------------------------------------------------------------------------
(* mark_ingest_started: no lock and no revision.                              *)

ReadToMark(m) ==
    /\ copy[m] = NoFile /\ Exists
    /\ copy' = [copy EXCEPT ![m] = file]
    /\ UNCHANGED <<file, lock, art, run, ghosts>>

\* The whole record is written back, with the run's id in it.
WriteMark(m) ==
    /\ copy[m] \notin {NoFile, Done}
    /\ file' = copy[m]
    /\ copy' = [copy EXCEPT ![m] = Done]
    /\ clobbered' = (clobbered \/ file # copy[m])
    /\ UNCHANGED <<lock, art, run, committed, gone, swept>>

-----------------------------------------------------------------------------
Work(e) ==
    \/ Prepare(e) \/ Load(e) \/ RefuseRetry(e)
    \/ Draw(e) \/ DrawFails(e) \/ Compose(e) \/ Fail(e)
    \/ Look(e) \/ LockToCommit(e) \/ Conflict(e) \/ Write(e) \/ Unlock(e)
    \/ Ledger(e) \/ FailCommitted(e) \/ Reply(e) \/ Crash(e)

Next ==
    \/ \E e \in Execution : Work(e)
    \/ \E d \in Edit : LockToEdit(d) \/ WriteEdit(d) \/ UnlockEdit(d) \/ FailEdit(d)
    \/ \E m \in Mark : ReadToMark(m) \/ WriteMark(m)

Spec == Init /\ [][Next]_vars

-----------------------------------------------------------------------------
\* The variables have their types; the lock's holder is at work.
TypeOK ==
    /\ file \in Contents \cup {NoFile}
    /\ lock \in Locks \cup {Free}
    /\ sent \in Sent
    /\ pc \in [Execution -> {"idle", "prepared", "working", "answered", "looked", "locked",
                            "persisted", "answering", "done"}]
    /\ art \subseteq Execution /\ swept \subseteq Request
    /\ view \in [Execution -> Contents \cup {NoFile}]
    /\ image \in [Execution -> BOOLEAN]
    /\ answer \in [Execution -> Turns \cup {NoTurn}]
    /\ copy \in [Mark -> Contents \cup {NoFile, Done}]
    /\ committed \subseteq Turns /\ gone \subseteq Turns /\ clobbered \in BOOLEAN

\* An answer is committed to the record it was composed on: the revision check
\* under the lock is as good as comparing the records.  Only a mark that turns
\* revisions back can give two records one revision.
CommitsOnWhatItSaw ==
    clobbered \/ \A e \in Execution : pc[e] = "locked" => lock.copy = view[e]

\* A committed turn is in the record until somebody removes, replaces or
\* deletes it - or a mark writes an older record over it.
TurnsSurvive ==
    clobbered \/ committed \ gone = TurnsOf(file)

\* The answer a client gets is a turn of the session: its own, or the recorded
\* one of the request it sent again.  (A mark that brings a removed turn back
\* behind an execution's look for its request lets that execution answer what
\* no turn records.)
AnsweredIsRecorded ==
    clobbered \/ \A e \in Execution : pc[e] = "answering" =>
        answer[e] \in committed /\ answer[e].req = Req(e)

\* The image a recorded turn shows is on disk, unless an execution with that
\* turn's request id has failed and swept the directory they share, or the turn
\* was composed while the images of an earlier one of its request were removed.
ImagesLostOnlyToSweeps ==
    ~clobbered => \A t \in TurnsOf(file) : t.image => t.by \in art \/ t.req \in swept

-----------------------------------------------------------------------------
\* An execution that may still record its answer: the record has the revision
\* it has seen.
Pending(e) == \/ pc[e] \in {"prepared", "working", "answered", "looked"}
              \/ pc[e] = "locked" /\ ~lock.wrote
StageOf(e) ==
    IF clobbered THEN "over"
    ELSE IF pc[e] = "idle" THEN "idle"
    ELSE IF Pending(e) /\ RevisionOf(view[e]) = Revision THEN "thinking"
    ELSE "over"
StatusOf == IF clobbered THEN "lost"
            ELSE IF Exists THEN file.status
            ELSE IF committed = {} THEN "none" ELSE "deleted"
Said == IF clobbered \/ ~Exists THEN <<>> ELSE file.turns
Talk == INSTANCE Conversation
        WITH Turn <- Turns, status <- StatusOf, turns <- Said, stage <- [e \in Execution |-> StageOf(e)]

\* Record, revisions and lock together implement a conversation: whatever the
\* executions and editors do at once, the turns are those of answers given on
\* all turns before them, one for each request and in one order.
TalkSpec == Talk!Spec
=============================================================================
