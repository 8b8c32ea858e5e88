---------------------------- MODULE RunMonitor ----------------------------
(***************************************************************************)
(* The records of the runs that are not ingests (runtime/run_monitor.py),  *)
(* the queue and worker thread that execute them (runtime/queue.py), the   *)
(* heartbeat thread of each, and the requests of the API and of the CLI    *)
(* that list, finalize and cancel runs (services/run_manager.py).          *)
(*                                                                         *)
(* A record is a file that every party reads, changes and writes back.     *)
(* The threads of the owning process share one monitor per run and its     *)
(* lock; a request makes a monitor of its own, whose lock excludes nobody. *)
(* Monitors install a new file with rename; the finalization of a stale    *)
(* run rewrites the file in place, so that for a moment it is empty and a  *)
(* reader of it raises.                                                    *)
(*                                                                         *)
(* Stages, messages, metrics and the numbers of events are left out; of    *)
(* the event log only whether it holds a terminal event is kept.  Any      *)
(* active status other than "queued" and "cancelling" is "running".        *)
(***************************************************************************)
EXTENDS Naturals, Sequences, FiniteSets

CONSTANTS
    Run,
    Client,             \* threads or processes that list and cancel runs
    Submitter, Worker,  \* RunManager._start, and the queue's worker thread
    NoRun,
    MaxReports,         \* bound: events of one run before it ends, at least two
    MaxCancels,         \* bound: requests for cancellation
    MaxCrashes          \* bound: processes that end

ASSUME RunsAssumption ==
    /\ NoRun \notin Run
    /\ Submitter # Worker /\ {Submitter, Worker} \cap (Run \cup Client) = {}
    /\ Run \cap Client = {}
    /\ MaxReports \in Nat /\ MaxCancels \in Nat /\ MaxCrashes \in Nat

(* The heartbeat thread of a run is named by the run.                      *)
Thread == Run \cup {Submitter, Worker}
Actor == Thread \cup Client
Terminal == {"completed", "partially_failed", "failed", "cancelled"}
Status == Terminal \cup {"absent", "queued", "running", "cancelling"}
Record == [status : Status, cancel : BOOLEAN]
Absent == [status |-> "absent", cancel |-> FALSE]

VARIABLES
    rec,       \* the record in the file of a run
    old,       \* runs whose last heartbeat is too long ago
    empty,     \* the file is truncated and not yet rewritten
    writers,   \* clients that hold the present file open for writing
    closed,    \* runs whose event log has a terminal event
    queue,     \* queue.Queue of the vault
    at, on, copy,     \* an actor: its next step, its run, the record it read
    reports,   \* events the worker wrote for its run
    stopped,   \* _heartbeat_stop of a run
    cancels, crashes, \* bounds
    (* history: the outcome the worker wrote, the runs somebody asked to    *)
    (* cancel or found stale, and those whose request was written while no  *)
    (* other actor was between its reading and its writing of the record    *)
    outcome, asked, stale, sole

file == <<rec, old, empty, writers>>
actors == <<at, on, copy>>
owner == <<queue, reports, stopped>>
history == <<outcome, asked, stale, sole>>
vars == <<file, closed, actors, owner, cancels, crashes, history>>

(* Definitions named ...Mutant are plausible mistakes in the definition    *)
(* that follows them, used by no action.                                   *)

Go(a, step) == at' = [at EXCEPT ![a] = step]
Forget(a) == copy' = [copy EXCEPT ![a] = Absent]
(* A request has been answered.                                            *)
Done(c) == Go(c, "idle") /\ Forget(c) /\ on' = [on EXCEPT ![c] = NoRun]

(* _write_record_unlocked: a temporary file renamed over the record.       *)
Install(r, record) ==
    /\ rec' = [rec EXCEPT ![r] = record]
    /\ empty' = [empty EXCEPT ![r] = FALSE]
    /\ writers' = [writers EXCEPT ![r] = {}]
Fresh(r) == old' = old \ {r}

(* RunMonitor._lock of the monitor that the owner's threads share: it is   *)
(* held from the reading of the record to its writing.                     *)
LockFreeMutant(r) == TRUE
LockFree(r) == \A a \in Thread : on[a] = r => at[a] # "holding"

-----------------------------------------------------------------------------
Init ==
    /\ rec = [r \in Run |-> Absent]
    /\ old = {}
    /\ empty = [r \in Run |-> FALSE]
    /\ writers = [r \in Run |-> {}]
    /\ closed = {} /\ queue = <<>>
    /\ at = [a \in Actor |-> IF a \in Run THEN "off" ELSE "idle"]
    /\ on = [a \in Actor |-> IF a \in Run THEN a ELSE NoRun]
    /\ copy = [a \in Actor |-> Absent]
    /\ reports = 0 /\ stopped = {}
    /\ cancels = 0 /\ crashes = 0
    /\ outcome = [r \in Run |-> "none"]
    /\ asked = {} /\ stale = {} /\ sole = {}

(* Time passes, also while the machine sleeps: no thread keeps a heartbeat *)
(* young.  The heartbeat of a run is old after ten minutes, and after      *)
(* thirty seconds when the run is being cancelled.                         *)
Tick(r) ==
    /\ rec[r].status # "absent" /\ r \notin old
    /\ old' = old \cup {r}
    /\ UNCHANGED <<rec, empty, writers, closed, actors, owner, cancels, crashes, history>>

-----------------------------------------------------------------------------
(* heartbeat: under the monitor's lock the record is read and, with the    *)
(* status of the caller merged in, written back.  event calls it and then  *)
(* appends to the log, which is folded into the writing.                   *)

Notes(a) == IF a = Submitter THEN "queued" ELSE IF a = Worker /\ reports # 1 THEN "running" ELSE "none"

MergedMutant(record, status) ==
    [record EXCEPT !.status = IF status # "none" THEN status ELSE @,
                   !.cancel = IF status # "none" THEN FALSE ELSE @]
Merged(record, status) ==
    [record EXCEPT !.status = IF record.cancel /\ @ \notin Terminal THEN "cancelling"
                              ELSE IF status # "none" THEN status ELSE @]

(* A reader of an empty file raises: submission is abandoned, the          *)
(* heartbeat loop ends, and a run fails.                                   *)
Raised(a) ==
    IF a = Submitter THEN "idle" ELSE IF a = Worker THEN "failing" ELSE "off"

BeatRead(a) ==
    LET r == on[a] IN
    /\ at[a] = "noting" /\ LockFree(r)
    /\ Go(a, IF empty[r] THEN Raised(a) ELSE "holding")
    /\ copy' = [copy EXCEPT ![a] = IF empty[r] THEN [Absent EXCEPT !.status = "failed"] ELSE rec[r]]
    /\ UNCHANGED <<file, closed, on, owner, cancels, crashes, history>>

(* What follows: the run is submitted, or the worker goes on; with the     *)
(* event run_started the heartbeat loop starts.                            *)
BeatWrite(a) ==
    LET r == on[a] IN
    /\ at[a] = "holding"
    /\ Install(r, Merged(copy[a], Notes(a))) /\ Fresh(r)
    /\ at' = [at EXCEPT ![a] = IF a = Submitter THEN "submitting"
                               ELSE IF a = Worker THEN (IF reports = 0 THEN "noting" ELSE "target")
                               ELSE "idle",
                        ![r] = IF a = Worker /\ reports = 0 THEN "idle" ELSE IF a = r THEN "idle" ELSE @]
    /\ reports' = IF a = Worker THEN reports + 1 ELSE reports
    /\ Forget(a)
    /\ UNCHANGED <<closed, on, queue, stopped, cancels, crashes, history>>

(* _heartbeat_loop, every five seconds.                                    *)
BeatLook(r) ==
    /\ at[r] = "idle"
    /\ Go(r, IF r \in stopped \/ empty[r] \/ rec[r].status \in Terminal THEN "off" ELSE "noting")
    /\ UNCHANGED <<file, closed, on, copy, owner, cancels, crashes, history>>

-----------------------------------------------------------------------------
(* RunManager._start: one request at a time holds the vault lock.          *)

Queue(r) ==
    /\ at[Submitter] = "idle" /\ rec[r].status = "absent"
    /\ Install(r, [status |-> "queued", cancel |-> FALSE]) /\ Fresh(r)
    /\ Go(Submitter, "noting")
    /\ on' = [on EXCEPT ![Submitter] = r]
    /\ UNCHANGED <<closed, copy, owner, cancels, crashes, history>>

Submit ==
    /\ at[Submitter] = "submitting"
    /\ queue' = Append(queue, on[Submitter])
    /\ Go(Submitter, "idle")
    /\ UNCHANGED <<file, closed, on, copy, reports, stopped, cancels, crashes, history>>

-----------------------------------------------------------------------------
(* _execute_task.                                                          *)

Take ==
    /\ at[Worker] = "idle" /\ queue # <<>>
    /\ on' = [on EXCEPT ![Worker] = Head(queue)]
    /\ queue' = Tail(queue)
    /\ reports' = 0
    /\ Go(Worker, "taken")
    /\ UNCHANGED <<file, closed, copy, stopped, cancels, crashes, history>>

(* The worker turns to fail, with the status fail would write.             *)
FailWith(verdict) ==
    /\ Go(Worker, "failing")
    /\ copy' = [copy EXCEPT ![Worker] = [status |-> verdict, cancel |-> FALSE]]

Check ==
    LET r == on[Worker] IN
    /\ at[Worker] = "taken"
    /\ IF empty[r] THEN FailWith("failed")
       ELSE IF rec[r].cancel THEN FailWith("cancelled")
       ELSE Go(Worker, "cleared") /\ UNCHANGED copy
    /\ UNCHANGED <<file, closed, on, owner, cancels, crashes, history>>

(* start: a record of its own, whatever the file holds.                    *)
Start ==
    LET r == on[Worker] IN
    /\ at[Worker] = "cleared" /\ LockFree(r)
    /\ Install(r, [status |-> "running", cancel |-> FALSE]) /\ Fresh(r)
    /\ Go(Worker, "noting")
    /\ UNCHANGED <<closed, on, copy, owner, cancels, crashes, history>>

(* The workflow reports a stage, looks whether it was cancelled, raises or *)
(* returns.                                                                *)
Report ==
    /\ at[Worker] = "target" /\ reports < MaxReports
    /\ Go(Worker, "noting")
    /\ UNCHANGED <<file, closed, on, copy, owner, cancels, crashes, history>>

Observe ==
    LET r == on[Worker] IN
    /\ at[Worker] = "target" /\ LockFree(r)
    /\ IF empty[r] THEN FailWith("failed")
       ELSE (rec[r].cancel \/ rec[r].status = "cancelling") /\ FailWith("cancelled")
    /\ UNCHANGED <<file, closed, on, owner, cancels, crashes, history>>

Return(verdict) ==
    /\ at[Worker] = "target"
    /\ Go(Worker, IF verdict = "failed" THEN "failing" ELSE "ending")
    /\ copy' = [copy EXCEPT ![Worker] = [status |-> verdict, cancel |-> FALSE]]
    /\ UNCHANGED <<file, closed, on, owner, cancels, crashes, history>>

(* An exception in complete is one of the run, which fails; one in fail    *)
(* leaves _run_loop and ends the thread, for every run of the vault.       *)
Escapes(step) ==
    /\ Go(Worker, IF step = "ending" THEN "failing" ELSE "dead")
    /\ copy' = [copy EXCEPT ![Worker].status = IF step = "ending" THEN "failed" ELSE @]
Ending == IF copy[Worker].status \in {"completed", "partially_failed"} THEN "ending" ELSE "failing"

(* complete, partially_fail and fail: read, append the terminal event,     *)
(* write, and read again for the caller.                                   *)
FinishRead ==
    LET r == on[Worker] IN
    /\ at[Worker] \in {"ending", "failing"} /\ LockFree(r)
    /\ stopped' = stopped \cup {r}
    /\ IF empty[r] THEN Escapes(at[Worker])
       ELSE /\ Go(Worker, "closing")
            /\ copy' = [copy EXCEPT ![Worker].cancel = rec[r].cancel]
    /\ UNCHANGED <<file, closed, on, queue, reports, cancels, crashes, history>>

FinishEventMutant ==
    /\ at[Worker] = "closing"
    /\ Go(Worker, "writing") /\ UNCHANGED closed
    /\ UNCHANGED <<file, on, copy, owner, cancels, crashes, history>>
FinishEvent ==
    /\ at[Worker] = "closing"
    /\ Go(Worker, "writing")
    /\ closed' = closed \cup {on[Worker]}
    /\ UNCHANGED <<file, on, copy, owner, cancels, crashes, history>>

FinishWrite ==
    LET r == on[Worker] IN
    /\ at[Worker] = "writing" /\ LockFree(r)
    /\ Install(r, copy[Worker]) /\ Fresh(r)
    /\ outcome' = [outcome EXCEPT ![r] = copy[Worker].status]
    /\ Go(Worker, "returning")
    /\ UNCHANGED <<closed, on, copy, owner, cancels, crashes, asked, stale, sole>>

FinishReturn ==
    LET r == on[Worker] IN
    /\ at[Worker] = "returning" /\ LockFree(r)
    /\ IF empty[r] THEN Escapes(Ending) ELSE Go(Worker, "idle") /\ Forget(Worker)
    /\ UNCHANGED <<file, closed, on, owner, cancels, crashes, history>>

-----------------------------------------------------------------------------
(* Requests of other threads and processes.                                *)

(* list_runs and read_run: a run without recent heartbeat is finalized, as *)
(* cancelled when that was asked for, otherwise as failed.                 *)
StaleMutant(r) == r \in old /\ rec[r].status \in {"running", "cancelling"}
Stale(r) == r \in old /\ rec[r].status \notin Terminal \cup {"absent"}

Look(c, r) ==
    /\ at[c] = "idle" /\ ~empty[r] /\ Stale(r)
    /\ copy' = [copy EXCEPT ![c] =
                  [rec[r] EXCEPT !.status = IF rec[r].cancel \/ @ = "cancelling" THEN "cancelled" ELSE "failed"]]
    /\ on' = [on EXCEPT ![c] = r]
    /\ Go(c, "finalizing")
    /\ stale' = stale \cup {r}
    /\ UNCHANGED <<file, closed, owner, cancels, crashes, outcome, asked, sole>>

(* Path.write_text: the file is opened, and thereby emptied, then written; *)
(* if it was replaced in between, the text goes to a file without a name.  *)
Truncate(c) ==
    LET r == on[c] IN
    /\ at[c] = "finalizing"
    /\ empty' = [empty EXCEPT ![r] = TRUE]
    /\ writers' = [writers EXCEPT ![r] = @ \cup {c}]
    /\ Go(c, "rewriting")
    /\ UNCHANGED <<rec, old, closed, on, copy, owner, cancels, crashes, history>>

Rewrite(c) ==
    LET r == on[c] IN
    /\ at[c] = "rewriting"
    /\ IF c \in writers[r]
       THEN /\ rec' = [rec EXCEPT ![r] = copy[c]]
            /\ empty' = [empty EXCEPT ![r] = FALSE]
            /\ writers' = [writers EXCEPT ![r] = @ \ {c}]
       ELSE UNCHANGED <<rec, empty, writers>>
    /\ closed' = closed \cup {r}
    /\ Done(c)
    /\ UNCHANGED <<old, owner, cancels, crashes, history>>

(* request_cancel, through a monitor of the request's own.  The record it  *)
(* writes back has the heartbeat that it read.                             *)
CancelRead(c, r) ==
    /\ at[c] = "idle" /\ ~empty[r] /\ cancels < MaxCancels
    /\ rec[r].status \notin Terminal \cup {"absent"}
    /\ ~(rec[r].cancel /\ rec[r].status = "cancelling")
    /\ copy' = [copy EXCEPT ![c] = rec[r]]
    /\ on' = [on EXCEPT ![c] = r]
    /\ Go(c, "asking")
    /\ cancels' = cancels + 1
    /\ asked' = asked \cup {r}
    /\ UNCHANGED <<file, closed, owner, crashes, outcome, stale, sole>>

(* Whoever has read the record of r, or decided on it, and will write it.  *)
InFlight(r) ==
    {a \in Actor : on[a] = r /\ at[a] \in {"holding", "cleared", "closing", "writing",
                                           "finalizing", "rewriting", "asking"}}

CancelWrite(c) ==
    LET r == on[c] IN
    /\ at[c] = "asking"
    /\ Install(r, [status |-> "cancelling", cancel |-> TRUE])
    /\ old' \in {old, old \cup {r}}
    /\ sole' = IF InFlight(r) = {c} THEN sole \cup {r} ELSE sole
    /\ Done(c)
    /\ UNCHANGED <<closed, owner, cancels, crashes, outcome, asked, stale>>

-----------------------------------------------------------------------------
(* The owning process ends: its queue is lost; another one starts.         *)
Crash ==
    /\ crashes < MaxCrashes
    /\ crashes' = crashes + 1
    /\ at' = [a \in Actor |-> IF a \in Run THEN "off" ELSE IF a \in Client THEN at[a] ELSE "idle"]
    /\ copy' = [a \in Actor |-> IF a \in Client THEN copy[a] ELSE Absent]
    /\ queue' = <<>>
    /\ UNCHANGED <<file, closed, on, reports, stopped, cancels, history>>

ClientCrash(c) ==
    /\ crashes < MaxCrashes /\ at[c] # "idle"
    /\ crashes' = crashes + 1
    /\ Done(c)
    /\ writers' = [r \in Run |-> writers[r] \ {c}]
    /\ UNCHANGED <<rec, old, empty, closed, owner, cancels, history>>

Verdicts == {"completed", "partially_failed", "failed"}
WorkerStep ==
    \/ Take \/ Check \/ Start \/ Report \/ Observe \/ FinishRead \/ FinishEvent \/ FinishWrite \/ FinishReturn
    \/ \E v \in Verdicts : Return(v)
    \/ BeatRead(Worker) \/ BeatWrite(Worker)
SubmitterStep == BeatRead(Submitter) \/ BeatWrite(Submitter) \/ Submit
LoopStep(r) == BeatLook(r) \/ BeatRead(r) \/ BeatWrite(r)
ClientStep(c) == Truncate(c) \/ Rewrite(c) \/ CancelWrite(c)

Next ==
    \/ \E r \in Run : Tick(r) \/ Queue(r) \/ LoopStep(r)
    \/ SubmitterStep \/ WorkerStep
    \/ \E c \in Client : ClientStep(c) \/ ClientCrash(c) \/ \E r \in Run : Look(c, r) \/ CancelRead(c, r)
    \/ Crash

(* The threads run, a workflow ends, time passes, and somebody keeps       *)
(* looking at the runs, as the desktop does.  Nobody has to cancel.  The   *)
(* heartbeat loop sleeps for five seconds between two beats, so it does    *)
(* not keep the monitor's lock from the worker for ever.                   *)
Fairness ==
    /\ SF_vars(WorkerStep) /\ WF_vars(SubmitterStep)
    /\ \A r \in Run : WF_vars(LoopStep(r)) /\ WF_vars(Tick(r)) /\ WF_vars(\E c \in Client : Look(c, r))
    /\ \A c \in Client : WF_vars(ClientStep(c))

Spec == Init /\ [][Next]_vars /\ Fairness
-----------------------------------------------------------------------------
Place == {"off", "idle", "noting", "holding", "submitting", "taken", "cleared", "target", "ending", "failing",
          "closing", "writing", "returning", "dead", "finalizing", "rewriting", "asking"}

TypeOK ==
    /\ rec \in [Run -> Record]
    /\ old \subseteq Run
    /\ empty \in [Run -> BOOLEAN]
    /\ writers \in [Run -> SUBSET Client]
    /\ closed \subseteq Run /\ stopped \subseteq Run
    /\ queue \in Seq(Run)
    /\ at \in [Actor -> Place]
    /\ on \in [Actor -> Run \cup {NoRun}]
    /\ copy \in [Actor -> Record]
    /\ reports \in Nat /\ cancels \in Nat /\ crashes \in Nat
    /\ outcome \in [Run -> Terminal \cup {"none"}]
    /\ asked \subseteq Run /\ stale \subseteq Run /\ sole \subseteq Run

(* The outcome of a workflow is what its record says, however heartbeats,  *)
(* events and the end of the run interleave, unless somebody asked to      *)
(* cancel the run or found its heartbeat stale.                            *)
OutcomeReported ==
    \A r \in Run \ (asked \cup stale) : outcome[r] # "none" => rec[r] = [status |-> outcome[r], cancel |-> FALSE]

(* A cancellation that was written while nobody else was between reading   *)
(* and writing the record stays in it until the run has ended: the one     *)
(* that is lost is lost to such an overlap.                                *)
CancelSticks == \A r \in sole : rec[r].cancel \/ rec[r].status \in Terminal

(* Whoever reads a terminal record, and then the events, finds a terminal  *)
(* event there, as "runs events --follow" relies on, unless the run was    *)
(* found stale.                                                            *)
EndIsAnnounced == \A r \in Run \ stale : rec[r].status \in Terminal => r \in closed

(* A record that a client is rewriting becomes readable again: nobody is   *)
(* going to rewrite an empty one only if the process of the client that    *)
(* emptied it ended in the middle.                                         *)
Emptied(r) == empty[r] /\ writers[r] = {}
RecordsLostOnlyByDyingRewriter ==
    [][\A r \in Run : ~Emptied(r) /\ Emptied(r)' =>
         \E c \in Client : ClientCrash(c) /\ at[c] = "rewriting" /\ on[c] = r]_vars

(* The worker thread of the vault dies only over a run that a client has   *)
(* found stale.                                                            *)
WorkerDiesOnlyOverStale == at[Worker] = "dead" => on[Worker] \in stale

(* Every run that was queued is settled at last and stays so, also when    *)
(* its process ends, its heartbeat stops or the worker thread dies, unless *)
(* a process ended in the middle of rewriting its record.                  *)
EveryRunSettles ==
    <>[](\A r \in Run : rec[r].status \in Terminal \cup {"absent"} \/ empty[r])
=============================================================================
