------------------------ MODULE OperationScheduler ------------------------
(***************************************************************************)
(* LocalOperationScheduler (runtime/local_operations.py) between the       *)
(* callers of services/ingest_coordinator.py, which commit an attempt and  *)
(* then submit its task, and the operations, which run                     *)
(* IngestTaskExecutor.execute in the threads of a pool.                    *)
(*                                                                         *)
(* The scheduler keeps one future and one cancellation token per task      *)
(* under a lock that is not reentrant.  A future is finished before its    *)
(* done callback runs; the callback takes the lock and pops the entries of *)
(* its task, whatever they hold by then.  Registering a callback on a      *)
(* finished future runs it in the registering thread.                      *)
(*                                                                         *)
(* The store is reduced to what the scheduler depends on: the current      *)
(* attempt of a task, its state, the cancellation flag and the admission   *)
(* control.  Of a task that is over only what may still become of it is    *)
(* kept: "recoverable", "failed" for good, or "settled", completed or      *)
(* cancelled.  Leases are those of IngestStore; here one may run out at    *)
(* any time.  Requests and cooldowns are those of ModelAdmission: they end.*)
(***************************************************************************)
EXTENDS Naturals, FiniteSets

CONSTANTS
    Task, Caller,
    Nobody,        \* the lock is free
    NoTask,        \* the task of an idle caller
    ProviderOf,    \* the model provider of a task's execution contract
    MaxWorkers,    \* threads of the pool
    Escapes,       \* whether an exception may leave execute, or a caller before it submits
    Pauses,        \* whether the admission control is used
    MaxOps,        \* bound: operations ever submitted to the pool
    MaxAttempts    \* bound: attempts of one task

ASSUME SchedulerAssumption ==
    /\ Nobody \notin Caller /\ NoTask \notin Task
    /\ DOMAIN ProviderOf = Task /\ Escapes \in BOOLEAN /\ Pauses \in BOOLEAN
    /\ MaxWorkers \in Nat \ {0} /\ MaxOps \in Nat /\ MaxAttempts \in Nat

Op == 1..MaxOps

VARIABLES
    state, attempt,      \* the store: state and current attempt of a task
    cancel,              \* the store: tasks with cancel_requested
    paused,              \* ingest_control
    call, job, made,     \* a caller: where it is, its task, the operation it made
    todo,                \* a caller: the tasks it will submit after this one
    lock,                \* self._lock
    future, token,       \* self._futures, self._tokens: an operation, 0 for no entry
    closed,              \* self._closed
    down, signals,       \* shutdown: "no", "stopping", "returned"; operations it has still to stop
    submitted,           \* operations submitted to the pool so far
    taskOf, at, seen,    \* an operation: its task, where it is, the attempt it read
    noted,               \* operations whose admission has the version of the control as it is
    registered,          \* operations whose done callback is registered and has not run
    stopped,             \* operations whose token was stopped
    orphaned,            \* history: live operations whose entries an earlier one popped
    ran                  \* history: who claimed which attempt

store == <<state, attempt, cancel>>
callers == <<call, job, made, todo>>
tables == <<future, token, closed, down, signals>>
ops == <<submitted, taskOf, at, seen>>
control == <<paused, noted>>
marks == <<registered, stopped, orphaned, ran>>
vars == <<store, control, callers, lock, tables, ops, marks>>

Over == {"recoverable", "failed", "settled"}
Admitting == {"read", "waiting", "reserved", "admitted"}   \* between the first look and the claim
Executing == Admitting \cup {"running", "failing", "claimed", "ending"}
Place == Executing \cup {"new", "pool", "done", "gone"}
Live == {o \in Op : at[o] \in Executing \cup {"pool"}}
Finished(o) == at[o] \in {"done", "gone"}
Busy == {o \in Op : at[o] \in Executing \/ (at[o] = "done" /\ o \in registered)}

-----------------------------------------------------------------------------
(* Definitions named ...Mutant are plausible mistakes in the definition    *)
(* that follows them, used by no action.                                   *)

Init ==
    /\ state = [t \in Task |-> "none"] /\ attempt = [t \in Task |-> 0] /\ cancel = {}
    /\ paused = FALSE /\ noted = {}
    /\ call = [c \in Caller |-> "idle"]
    /\ job = [c \in Caller |-> NoTask]
    /\ made = [c \in Caller |-> 0]
    /\ todo = [c \in Caller |-> {}]
    /\ lock = Nobody
    /\ future = [t \in Task |-> 0] /\ token = [t \in Task |-> 0]
    /\ closed = FALSE /\ down = "no" /\ signals = {}
    /\ submitted = 0
    /\ taskOf = [o \in Op |-> NoTask]
    /\ at = [o \in Op |-> "new"]
    /\ seen = [o \in Op |-> 0]
    /\ registered = {} /\ stopped = {} /\ orphaned = {} /\ ran = {}

(* start and recover_task commit first, project the run, which may raise,  *)
(* and submit the task after that.                                         *)
Commit(c, t) ==
    /\ call[c] = "idle"
    /\ \/ call' = [call EXCEPT ![c] = "submit"] /\ job' = [job EXCEPT ![c] = t]
       \/ Escapes /\ UNCHANGED <<call, job>>
    /\ UNCHANGED <<control, made, todo, lock, tables, ops, marks>>
NewAttempt(t) ==
    /\ attempt[t] < MaxAttempts
    /\ state' = [state EXCEPT ![t] = "queued"]
    /\ attempt' = [attempt EXCEPT ![t] = attempt[t] + 1]

(* submit_command with a new command.                                      *)
Start(c, t) ==
    /\ Commit(c, t)
    /\ state[t] = "none" /\ NewAttempt(t)
    /\ UNCHANGED cancel

(* admit_recovery: the task is recoverable, or it runs and its lease ran   *)
(* out.                                                                    *)
Recover(c, t) ==
    /\ Commit(c, t)
    /\ state[t] \in {"recoverable", "running"} /\ NewAttempt(t)
    /\ cancel' = cancel \ {t}

(* A command submitted again: nothing is committed, and the task is        *)
(* submitted as it is.                                                     *)
Repeat(c, t) ==
    /\ Commit(c, t)
    /\ state[t] # "none"
    /\ UNCHANGED store

(* request_cancel ends a task that does not run, and only marks one that   *)
(* does.  It does not look at the scheduler.                               *)
Cancel(t) ==
    /\ state[t] \in {"queued", "running", "recoverable", "failed"}
    /\ state' = [state EXCEPT ![t] = IF @ = "running" THEN @ ELSE "settled"]
    /\ cancel' = cancel \cup {t}
    /\ UNCHANGED <<attempt, control, callers, lock, tables, ops, marks>>

(* reap_expired_attempts.                                                  *)
Reap(t) ==
    /\ state[t] = "running"
    /\ state' = [state EXCEPT ![t] = "recoverable"]
    /\ UNCHANGED <<attempt, cancel, control, callers, lock, tables, ops, marks>>

(* set_ingest_paused makes a new version of the control at every call,     *)
(* whether it changes the flag or not: no version noted before is current. *)
(* The route that ends a pause goes on to resume_queued.                   *)
SetPaused(b) == Pauses /\ paused' = b /\ noted' = {}
Pause ==
    /\ SetPaused(TRUE)
    /\ UNCHANGED <<store, callers, lock, tables, ops, marks>>
Resume(c) ==
    /\ call[c] = "idle" /\ SetPaused(FALSE)
    /\ call' = [call EXCEPT ![c] = "list"] \/ (Escapes /\ call' = call)
    /\ UNCHANGED <<store, job, made, todo, lock, tables, ops, marks>>

(* The next task of a caller, or none.                                     *)
Take(c, tasks) ==
    /\ made' = [made EXCEPT ![c] = 0]
    /\ \/ /\ tasks = {}
          /\ call' = [call EXCEPT ![c] = "idle"] /\ job' = [job EXCEPT ![c] = NoTask]
          /\ todo' = [todo EXCEPT ![c] = {}]
       \/ \E t \in tasks :
          /\ call' = [call EXCEPT ![c] = "submit"] /\ job' = [job EXCEPT ![c] = t]
          /\ todo' = [todo EXCEPT ![c] = tasks \ {t}]

(* resume_queued, by that route or by the startup, which here may come at  *)
(* any time: the queued tasks are listed and submitted one after the other.*)
(* Expired attempts are reaped before, in a transaction of their own: Reap.*)
List(c) ==
    /\ call[c] \in {"idle", "list"}
    /\ Take(c, {t \in Task : state[t] = "queued"})
    /\ UNCHANGED <<store, control, lock, tables, ops, marks>>

(* submit, without a new operation: the scheduler is closed, which raises, *)
(* or the operation of the task has not finished.                          *)
DeduplicatedMutant(t) == FALSE
EntryKeptMutant(t) == future[t] # 0
Deduplicated(t) == future[t] # 0 /\ ~Finished(future[t])
SubmitNothing(c) ==
    /\ call[c] = "submit" /\ lock = Nobody
    /\ \/ closed /\ Take(c, {})
       \/ ~closed /\ Deduplicated(job[c]) /\ Take(c, todo[c])
    /\ UNCHANGED <<store, control, lock, tables, ops, marks>>

(* submit, up to the registration of the callback, which still holds the   *)
(* lock.                                                                   *)
KeepsLock(c) == lock' = c
SubmitNew(c) ==
    /\ call[c] = "submit" /\ lock = Nobody /\ submitted < MaxOps
    /\ ~closed /\ ~Deduplicated(job[c])
    /\ submitted' = submitted + 1
    /\ taskOf' = [taskOf EXCEPT ![submitted'] = job[c]]
    /\ at' = [at EXCEPT ![submitted'] = "pool"]
    /\ future' = [future EXCEPT ![job[c]] = submitted']
    /\ token' = [token EXCEPT ![job[c]] = submitted']
    /\ KeepsLock(c)
    /\ call' = [call EXCEPT ![c] = "register"]
    /\ made' = [made EXCEPT ![c] = submitted']
    /\ UNCHANGED <<store, control, job, todo, closed, down, signals, seen, marks>>

Register(c) ==
    /\ call[c] = "register" /\ ~Finished(made[c])
    /\ registered' = registered \cup {made[c]}
    /\ lock' = Nobody
    /\ Take(c, todo[c])
    /\ UNCHANGED <<store, control, tables, ops, stopped, orphaned, ran>>

(* The future is finished already: its callback runs here and waits for    *)
(* the lock this very thread holds.                                        *)
RegisterLate(c) ==
    /\ call[c] = "register" /\ Finished(made[c])
    /\ call' = [call EXCEPT ![c] = "stuck"]
    /\ UNCHANGED <<store, control, job, made, todo, lock, tables, ops, marks>>

-----------------------------------------------------------------------------
(* The operation: IngestTaskExecutor.execute in a thread of the pool.      *)
Move(o, from, to) == at[o] = from /\ at' = [at EXCEPT ![o] = to]
StillOps == <<paused, callers, lock, tables, submitted, taskOf, registered, stopped, orphaned>>

Run(o) ==
    /\ Cardinality(Busy) < MaxWorkers
    /\ Move(o, "pool", "running")
    /\ UNCHANGED <<store, seen, noted, ran, StillOps>>

Read(o) ==
    /\ Move(o, "running", "read")
    /\ seen' = [seen EXCEPT ![o] = attempt[taskOf[o]]]
    /\ UNCHANGED <<store, noted, ran, StillOps>>

(* reserve_attempt.  It waits for the end of a pause, for the reservation  *)
(* of the provider, and for the end of a pause again; the last time it     *)
(* notes the version of the control it saw.                                *)
Ask(o) ==
    /\ ~paused
    /\ Move(o, "read", "waiting")
    /\ UNCHANGED <<store, seen, noted, ran, StillOps>>

Reserving == {o \in Op : at[o] \in {"reserved", "admitted", "claimed"}}
Free(o) == \A p \in Reserving : ProviderOf[taskOf[p]] # ProviderOf[taskOf[o]]
Reserve(o) ==
    /\ Move(o, "waiting", "reserved")
    /\ Free(o)
    /\ UNCHANGED <<store, seen, noted, ran, StillOps>>

Note(o) ==
    /\ ~paused
    /\ Move(o, "reserved", "admitted")
    /\ noted' = noted \cup {o}
    /\ UNCHANGED <<store, seen, ran, StillOps>>

(* claim, under the control and the task as they are by then.              *)
AdmissionHolds(o) == ~paused /\ o \in noted
Record(o) == [by |-> o, task |-> taskOf[o], attempt |-> seen[o]]
ClaimableMutant(o) == seen[o] = attempt[taskOf[o]]
Claimable(o) == state[taskOf[o]] = "queued" /\ seen[o] = attempt[taskOf[o]] /\ taskOf[o] \notin cancel
Claim(o) ==
    /\ Move(o, "admitted", "claimed")
    /\ AdmissionHolds(o) /\ Claimable(o)
    /\ state' = [state EXCEPT ![taskOf[o]] = "running"]
    /\ ran' = ran \cup {Record(o)}
    /\ noted' = noted \ {o}
    /\ UNCHANGED <<attempt, cancel, seen, StillOps>>

(* StorageConflict: execute returns and the task is left as it is.         *)
Conflict(o) ==
    /\ Move(o, "admitted", "ending")
    /\ ~AdmissionHolds(o) \/ ~Claimable(o)
    /\ noted' = noted \ {o}
    /\ UNCHANGED <<store, seen, ran, StillOps>>

(* RunCancelled: a wait sees the stopped token or the mark of a            *)
(* cancellation; the task is left as it is.  Between the last wait and the *)
(* claim nobody looks.                                                     *)
Interrupted(o) == o \in stopped \/ taskOf[o] \in cancel
GiveUp(o) ==
    /\ Interrupted(o)
    /\ \E p \in Admitting \ {"admitted"} : Move(o, p, "ending") /\ (p = "waiting" => ~Free(o))
    /\ noted' = noted \ {o}
    /\ UNCHANGED <<store, seen, ran, StillOps>>

(* Another exception up to the claim gives the reservation back; then the  *)
(* attempt, when it is queued still, fails for good: of what is raised     *)
(* here only StorageConflict is retryable.                                 *)
Raise(o) ==
    /\ \E p \in Admitting : Move(o, p, "failing")
    /\ noted' = noted \ {o}
    /\ UNCHANGED <<store, seen, ran, StillOps>>

FailUnclaimed(o) ==
    LET t == taskOf[o]
    IN  /\ Move(o, "failing", "ending")
        /\ state' = [state EXCEPT ![t] = IF @ = "queued" /\ seen[o] = attempt[t] THEN "failed" ELSE @]
        /\ UNCHANGED <<attempt, cancel, seen, noted, ran, StillOps>>

(* finish: the task is current, runs, and its lease has not run out.       *)
Finish(o) ==
    LET t == taskOf[o]
    IN  /\ Move(o, "claimed", "ending")
        /\ state[t] = "running" /\ seen[o] = attempt[t]
        /\ \E st \in IF t \in cancel THEN {"settled"} ELSE Over : state' = [state EXCEPT ![t] = st]
        /\ UNCHANGED <<attempt, cancel, seen, noted, ran, StillOps>>

(* The lease is lost or the outcome cannot be written: the handlers of     *)
(* execute find the attempt claimed and swallow the rest.                  *)
Forfeit(o) ==
    /\ Move(o, "claimed", "ending")
    /\ UNCHANGED <<store, seen, noted, ran, StillOps>>

(* An exception outside the try, or in its last handler, leaves execute    *)
(* and ends up in the future, which nobody asks.                           *)
Break(o) ==
    /\ Escapes
    /\ \E p \in {"running", "read", "failing"} : Move(o, p, "ending")
    /\ UNCHANGED <<store, seen, noted, ran, StillOps>>

(* The function returned, its variables are gone and the future is         *)
(* finished.                                                               *)
Return(o) ==
    /\ Move(o, "ending", "done")
    /\ seen' = [seen EXCEPT ![o] = 0] /\ orphaned' = orphaned \ {o}
    /\ UNCHANGED <<store, control, callers, lock, tables, submitted, taskOf, registered, stopped, ran>>

(* _release, the done callback in the thread of the operation.             *)
Release(o) ==
    /\ o \in registered /\ lock = Nobody
    /\ Move(o, "done", "gone")
    /\ LET t == taskOf[o] IN
         /\ future' = [future EXCEPT ![t] = 0]
         /\ token' = [token EXCEPT ![t] = 0]
         /\ orphaned' = orphaned \cup ({future[t]} \cap Live)
    /\ registered' = registered \ {o}
    /\ UNCHANGED <<store, control, callers, lock, closed, down, signals, submitted, taskOf, seen,
                   stopped, ran>>

-----------------------------------------------------------------------------
(* shutdown: close and take the tokens there are under the lock, stop one  *)
(* after the other without it, join the pool, and look once more.          *)
SignalledMutant == {future[t] : t \in {t \in Task : state[t] = "running"}} \ {0}
Signalled == {token[t] : t \in Task} \ {0}
JoinsUnderMutant == "shutdown"
JoinsUnder == Nobody
Shutdown ==
    /\ ~closed /\ lock = Nobody
    /\ closed' = TRUE /\ down' = "stopping"
    /\ signals' = Signalled
    /\ lock' = JoinsUnder     \* the lock is free again while the pool is joined
    /\ UNCHANGED <<store, control, callers, future, token, ops, marks>>

StopToken(o) ==
    /\ o \in signals
    /\ stopped' = stopped \cup {o} /\ signals' = signals \ {o}
    /\ UNCHANGED <<store, control, callers, lock, future, token, closed, down, ops, registered, orphaned, ran>>

Joined == Live \cup Busy = {}
ShutdownReturns ==
    /\ down = "stopping" /\ signals = {} /\ Joined /\ lock = Nobody
    /\ down' = "returned"
    /\ UNCHANGED <<store, control, callers, lock, future, token, closed, signals, ops, marks>>

(* What a thread of the pool does by itself.  A claimed operation ends for *)
(* certain only when its requests need not wait for the end of a pause.    *)
Progress(o) ==
    \/ Run(o) \/ Read(o) \/ Ask(o) \/ Reserve(o) \/ Note(o) \/ Claim(o) \/ Conflict(o) \/ GiveUp(o)
    \/ FailUnclaimed(o) \/ Return(o) \/ Release(o)
    \/ (~paused \/ Interrupted(o)) /\ (Finish(o) \/ Forfeit(o))
OpStep(o) == Progress(o) \/ Finish(o) \/ Forfeit(o) \/ Raise(o) \/ Break(o)
CallStep(c) == Resume(c) \/ List(c) \/ SubmitNothing(c) \/ SubmitNew(c) \/ Register(c) \/ RegisterLate(c)

Next ==
    \/ \E c \in Caller, t \in Task : Start(c, t) \/ Recover(c, t) \/ Repeat(c, t)
    \/ \E t \in Task : Cancel(t) \/ Reap(t)
    \/ Pause
    \/ \E c \in Caller : CallStep(c)
    \/ \E o \in Op : OpStep(o) \/ StopToken(o)
    \/ Shutdown \/ ShutdownReturns

(* As long as some thread of the pool can go on, one of them does, and so  *)
(* do the caller that holds the lock and shutdown.  Nobody need get a lock *)
(* or a reservation that is free only now and then, and nobody has to      *)
(* resume ingest, to cancel, to fail or to submit.                         *)
Fairness ==
    /\ WF_vars(\E o \in Op : Progress(o))
    /\ WF_vars(\E c \in Caller : Register(c) \/ RegisterLate(c))
    /\ WF_vars((\E o \in Op : StopToken(o)) \/ ShutdownReturns)

Spec == Init /\ [][Next]_vars
FairSpec == Spec /\ Fairness

-----------------------------------------------------------------------------
TypeOK ==
    /\ state \in [Task -> {"none", "queued", "running"} \cup Over] /\ attempt \in [Task -> Nat]
    /\ cancel \subseteq Task /\ paused \in BOOLEAN /\ noted \subseteq Op
    /\ call \in [Caller -> {"idle", "list", "submit", "register", "stuck"}] /\ todo \in [Caller -> SUBSET Task]
    /\ job \in [Caller -> Task \cup {NoTask}] /\ made \in [Caller -> Nat]
    /\ lock \in Caller \cup {Nobody}
    /\ future \in [Task -> Nat] /\ token \in [Task -> Nat]
    /\ closed \in BOOLEAN /\ down \in {"no", "stopping", "returned"} /\ signals \subseteq Op
    /\ submitted \in 0..MaxOps
    /\ taskOf \in [Op -> Task \cup {NoTask}] /\ at \in [Op -> Place]
    /\ seen \in [Op -> Nat]
    /\ registered \subseteq Op /\ stopped \subseteq Op /\ orphaned \subseteq Op
    /\ ran \subseteq [by : Op, task : Task, attempt : Nat]
    /\ \A c \in Caller : lock = c <=> call[c] \in {"register", "stuck"}
    /\ \A o \in Op : at[o] = "new" <=> o > submitted

(* However often a task is submitted, recovered and submitted again, no    *)
(* attempt is claimed by two operations, at once or one after the other.   *)
OneRunnerPerAttempt == \A r, q \in ran : r.task = q.task /\ r.attempt = q.attempt => r = q

(* An operation that has not finished is the one a new submission of its   *)
(* task finds and the one shutdown stops, unless a finished operation of   *)
(* the same task popped its entries.                                       *)
LiveIsTracked ==
    \A o \in Live : (future[taskOf[o]] = o /\ token[taskOf[o]] = o) \/ o \in orphaned

(* From the moment shutdown has closed the scheduler, whatever still runs  *)
(* was told to stop or is on the list of those that will be, except the    *)
(* orphans.                                                                *)
ShutdownSignals == closed => Live \subseteq stopped \cup signals \cup orphaned

(* When shutdown returns nothing runs and nothing is claimed any more: its *)
(* last look never finds live work.                                        *)
ReturnedIsQuiet == down = "returned" => Live = {}

(* A thread that waits for a lock it holds itself.                         *)
Deadlocked == \E c \in Caller : call[c] = "stuck"

(* An operation nobody told to stop waits for the end of a pause, before   *)
(* its claim or in a request of its attempt.                               *)
OrphanWaits == paused /\ \E o \in orphaned \ stopped : at[o] \in {"read", "reserved", "claimed"}

(* Shutdown ends whatever the callers and the operations do, ingest paused *)
(* or not, for the stopped tokens get the operations out of every wait;    *)
(* unless the lock is lost, or a pause that does not end holds an orphan.  *)
ShutdownEnds == <>[]~OrphanWaits => (closed ~> down = "returned" \/ Deadlocked)

(* requirements.md: "execution=queued means scheduled in the current local *)
(* application process": while it is open and nobody is just submitting    *)
(* it, an operation is going to look at the queued attempt.                *)
LooksAt(o, t) ==
    /\ taskOf[o] = t
    /\ at[o] \in {"pool", "running"} \/ (at[o] \in Admitting \cup {"failing"} /\ seen[o] = attempt[t])
Scheduled(t) == \E o \in Op : LooksAt(o, t)
QueuedIsScheduled ==
    \A t \in Task : state[t] = "queued" /\ ~closed /\ (\A c \in Caller : t # job[c] /\ t \notin todo[c]) => Scheduled(t)

(* The ways in which a queued attempt is left without anybody who is going *)
(* to look at it, while the scheduler is open.  A submission answered with *)
(* an operation that has read an older attempt, or has done with the one   *)
(* it read; a claim refused because ingest was paused, or was paused and   *)
(* resumed, since the admission was noted; an exception that leaves        *)
(* execute, or the caller before it submits.  No release, cancellation,    *)
(* recovery, lapse or failure of another operation is among them.          *)
Submitting(t) == \E c \in Caller : (call[c] = "submit" /\ job[c] = t) \/ t \in todo[c]
Stranded(t) == state[t] = "queued" /\ ~closed /\ ~Submitting(t) /\ ~Scheduled(t)
AnsweredByOld(t) ==
    /\ \E c \in Caller : SubmitNothing(c) /\ job[c] = t
    /\ future[t] \in Live /\ taskOf[future[t]] = t /\ ~LooksAt(future[t], t)
AdmissionRefused(t) == \E o \in Op : Conflict(o) /\ LooksAt(o, t) /\ ~AdmissionHolds(o)
LeftByException(t) ==
    \/ \E o \in Op : Break(o) /\ LooksAt(o, t) /\ ~Interrupted(o)
    \/ \E c \in Caller : (Start(c, t) \/ Recover(c, t)) /\ call'[c] = "idle"
StrandedInKnownWays ==
    [][\A t \in Task : ~Stranded(t) /\ Stranded(t)' =>
         AnsweredByOld(t) \/ AdmissionRefused(t) \/ LeftByException(t)]_vars

(* What the scheduler does to a task is within the contract that the store *)
(* keeps too.                                                              *)
StateOf(t) == IF state[t] \in Over THEN "over" ELSE state[t]
Claimed == {o \in Op : at[o] = "claimed"}
Working == {Record(o) : o \in Claimed}
Lifecycle == INSTANCE AttemptLifecycle WITH
    Executor <- Op, state <- [t \in Task |-> StateOf(t)], working <- Working
LifecycleSpec == Lifecycle!Spec
=============================================================================
