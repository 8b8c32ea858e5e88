-------------------------- MODULE SchedulerProofs --------------------------
(***************************************************************************)
(* Theorems about the local operation scheduler, for any number of tasks,  *)
(* callers, pool threads, operations, attempts and providers.              *)
(***************************************************************************)
EXTENDS OperationScheduler, TLAPS

(* A caller that is about to submit has a task, and past the submission    *)
(* the operation it made; an operation that was submitted has its task.    *)
Assigned ==
    /\ \A c \in Caller : call[c] \notin {"idle", "list"} => job[c] \in Task
    /\ \A c \in Caller : call[c] \in {"register", "stuck"} => made[c] \in Op
    /\ \A o \in Op : at[o] # "new" => taskOf[o] \in Task
    /\ \A t \in Task : future[t] \in 0..submitted /\ token[t] = future[t]

(* What an operation read is an attempt the task had.  An attempt that was *)
(* claimed is one the task had, and while it is current it is not queued.  *)
ReadIsPast ==
    /\ \A o \in Op : IF at[o] = "new" THEN seen[o] = 0 ELSE seen[o] <= attempt[taskOf[o]]
    /\ \A r \in ran : r.attempt <= attempt[r.task]
    /\ \A r \in ran : r.attempt = attempt[r.task] => state[r.task] # "queued"

Closing == closed <=> down # "no"

IInv == /\ TypeOK /\ Assigned /\ ReadIsPast /\ OneRunnerPerAttempt
        /\ LiveIsTracked /\ Closing /\ ShutdownSignals /\ ReturnedIsQuiet

LEMMA InitInv == Init => IInv
<1> SUFFICES ASSUME Init PROVE IInv
  OBVIOUS
<1> USE SchedulerAssumption
<1>1. TypeOK
  <2>1. \A c \in Caller : lock = c <=> call[c] \in {"register", "stuck"}
    BY DEF Init
  <2>2. \A o \in Op : at[o] = "new" <=> o > submitted
    BY DEF Init, Op
  <2>3. /\ state \in [Task -> {"none", "queued", "running"} \cup Over] /\ attempt \in [Task -> Nat]
        /\ call \in [Caller -> {"idle", "list", "submit", "register", "stuck"}]
        /\ todo \in [Caller -> SUBSET Task]
        /\ job \in [Caller -> Task \cup {NoTask}] /\ made \in [Caller -> Nat]
    BY DEF Init
  <2>4. /\ lock \in Caller \cup {Nobody} /\ future \in [Task -> Nat] /\ token \in [Task -> Nat]
        /\ down \in {"no", "stopping", "returned"} /\ submitted \in 0..MaxOps
    BY DEF Init
  <2>5. /\ taskOf \in [Op -> Task \cup {NoTask}] /\ at \in [Op -> Place] /\ seen \in [Op -> Nat]
        /\ registered \subseteq Op /\ stopped \subseteq Op /\ orphaned \subseteq Op
        /\ cancel \subseteq Task /\ noted \subseteq Op /\ signals \subseteq Op
        /\ ran \subseteq [by : Op, task : Task, attempt : Nat]
    BY DEF Init, Place
  <2>6. closed \in BOOLEAN /\ paused \in BOOLEAN
    BY DEF Init
  <2> QED BY <2>1, <2>2, <2>3, <2>4, <2>5, <2>6 DEF TypeOK
<1>2. Assigned /\ ReadIsPast /\ OneRunnerPerAttempt /\ LiveIsTracked
  BY DEF Init, Assigned, ReadIsPast, OneRunnerPerAttempt, LiveIsTracked, Live, Executing, Admitting
<1>3. Closing /\ ShutdownSignals /\ ReturnedIsQuiet
  BY DEF Init, Closing, ShutdownSignals, ReturnedIsQuiet, Live, Executing, Admitting
<1> QED BY <1>1, <1>2, <1>3 DEF IInv

-----------------------------------------------------------------------------
(* Steps that leave the operations and the tables of the scheduler alone:  *)
(* those of the store and the control, and those of a caller but the       *)
(* submission of a new operation.                                          *)
StoreStep ==
    \/ \E c \in Caller, t \in Task : Start(c, t) \/ Recover(c, t) \/ Repeat(c, t)
    \/ \E t \in Task : Cancel(t) \/ Reap(t)
    \/ Pause
QuietCall(c) == Resume(c) \/ List(c) \/ SubmitNothing(c) \/ Register(c) \/ RegisterLate(c)

(* Who takes the next task is idle or has one.                             *)
LEMMA TakeTyped ==
    ASSUME TypeOK, Assigned, NEW c \in Caller, NEW T \in SUBSET Task, Take(c, T)
    PROVE  /\ call' \in [Caller -> {"idle", "list", "submit", "register", "stuck"}]
           /\ job' \in [Caller -> Task \cup {NoTask}] /\ made' \in [Caller -> Nat]
           /\ todo' \in [Caller -> SUBSET Task]
           /\ call'[c] \in {"idle", "submit"} /\ (call'[c] = "submit" => job'[c] \in Task)
           /\ \A d \in Caller : d # c => call'[d] = call[d] /\ job'[d] = job[d] /\ made'[d] = made[d]
<1>1. CASE T = {} /\ call' = [call EXCEPT ![c] = "idle"] /\ job' = [job EXCEPT ![c] = NoTask]
           /\ todo' = [todo EXCEPT ![c] = {}]
  BY <1>1 DEF Take, TypeOK
<1>2. ASSUME NEW t \in T,
             call' = [call EXCEPT ![c] = "submit"] /\ job' = [job EXCEPT ![c] = t]
             /\ todo' = [todo EXCEPT ![c] = T \ {t}]
      PROVE  /\ call' \in [Caller -> {"idle", "list", "submit", "register", "stuck"}]
             /\ job' \in [Caller -> Task \cup {NoTask}] /\ made' \in [Caller -> Nat]
             /\ todo' \in [Caller -> SUBSET Task]
             /\ call'[c] \in {"idle", "submit"} /\ (call'[c] = "submit" => job'[c] \in Task)
             /\ \A d \in Caller : d # c => call'[d] = call[d] /\ job'[d] = job[d] /\ made'[d] = made[d]
  <2>1. t \in Task /\ T \ {t} \in SUBSET Task
    OBVIOUS
  <2> QED BY <1>2, <2>1 DEF Take, TypeOK
<1> QED BY <1>1, <1>2 DEF Take

LEMMA StoreStepInv == ASSUME IInv, StoreStep PROVE IInv'
<1> USE SchedulerAssumption
<1>a. TypeOK /\ Assigned /\ ReadIsPast /\ OneRunnerPerAttempt
  BY DEF IInv
<1>b. UNCHANGED <<ops, tables, lock, made, todo, marks>>
  BY DEF StoreStep, Start, Recover, Repeat, Commit, Cancel, Reap, Pause, tables, ops, callers
<1>c. \/ UNCHANGED <<call, job>>
      \/ \E c \in Caller, t \in Task : /\ call[c] = "idle"
                                      /\ call' = [call EXCEPT ![c] = "submit"]
                                      /\ job' = [job EXCEPT ![c] = t]
  BY DEF StoreStep, Start, Recover, Repeat, Commit, Cancel, Reap, Pause, callers
<1>d. /\ state' \in [Task -> {"none", "queued", "running"} \cup Over] /\ attempt' \in [Task -> Nat]
      /\ cancel' \subseteq Task
  <2>1. ASSUME NEW c \in Caller, NEW t \in Task, Start(c, t) \/ Recover(c, t) \/ Repeat(c, t)
        PROVE  /\ state' \in [Task -> {"none", "queued", "running"} \cup Over] /\ attempt' \in [Task -> Nat]
               /\ cancel' \subseteq Task
    BY <1>a, <2>1 DEF Start, Recover, Repeat, NewAttempt, TypeOK, store
  <2>2. ASSUME NEW t \in Task, Cancel(t)
        PROVE  /\ state' \in [Task -> {"none", "queued", "running"} \cup Over] /\ attempt' \in [Task -> Nat]
               /\ cancel' \subseteq Task
    BY <1>a, <2>2 DEF Cancel, TypeOK, Over
  <2>3. ASSUME NEW t \in Task, Reap(t)
        PROVE  /\ state' \in [Task -> {"none", "queued", "running"} \cup Over] /\ attempt' \in [Task -> Nat]
               /\ cancel' \subseteq Task
    BY <1>a, <2>3 DEF Reap, TypeOK, Over
  <2>4. CASE Pause
    BY <1>a, <2>4 DEF Pause, TypeOK, store
  <2> QED BY <2>1, <2>2, <2>3, <2>4 DEF StoreStep
<1>1. TypeOK'
  <2>1. /\ call' \in [Caller -> {"idle", "list", "submit", "register", "stuck"}]
        /\ job' \in [Caller -> Task \cup {NoTask}]
        /\ \A c \in Caller : lock' = c <=> call'[c] \in {"register", "stuck"}
    BY <1>a, <1>b, <1>c DEF TypeOK
  <2>2. paused' \in BOOLEAN /\ noted' \subseteq Op
    BY <1>a DEF StoreStep, Start, Recover, Repeat, Commit, Cancel, Reap, Pause, SetPaused, TypeOK, control
  <2> QED BY <1>a, <1>b, <1>d, <2>1, <2>2 DEF TypeOK, tables, ops, marks
<1>2. Assigned'
  BY <1>a, <1>b, <1>c DEF TypeOK, Assigned, tables, ops
<1>3. ReadIsPast'
  <2>1. /\ \A t \in Task : attempt[t] <= attempt'[t]
        /\ \A t \in Task : state'[t] = "queued" => state[t] = "queued" \/ attempt[t] < attempt'[t]
    <3>1. ASSUME NEW c \in Caller, NEW u \in Task, Start(c, u) \/ Recover(c, u) \/ Repeat(c, u)
          PROVE  /\ \A t \in Task : attempt[t] <= attempt'[t]
                 /\ \A t \in Task : state'[t] = "queued" => state[t] = "queued" \/ attempt[t] < attempt'[t]
      BY <1>a, <3>1 DEF Start, Recover, Repeat, NewAttempt, TypeOK, store
    <3>2. ASSUME NEW u \in Task, Cancel(u) \/ Reap(u)
          PROVE  attempt' = attempt /\ \A t \in Task : state'[t] = "queued" => state[t] = "queued"
      BY <1>a, <3>2 DEF Cancel, Reap, TypeOK
    <3>3. \A t \in Task : attempt[t] <= attempt[t]
      BY <1>a DEF TypeOK
    <3>4. CASE Pause
      BY <3>3, <3>4 DEF Pause, store
    <3> QED BY <3>1, <3>2, <3>3, <3>4 DEF StoreStep, store
  <2>2. attempt \in [Task -> Nat] /\ attempt' \in [Task -> Nat] /\ seen \in [Op -> Nat]
        /\ \A r \in ran : r.task \in Task /\ r.attempt \in Nat
    BY <1>a, <1>1 DEF TypeOK
  <2>3. \A o \in Op : IF at[o] = "new" THEN seen[o] = 0 ELSE seen[o] <= attempt'[taskOf[o]]
    BY <1>a, <2>1, <2>2 DEF ReadIsPast, Assigned
  <2>4. \A r \in ran : r.attempt <= attempt'[r.task]
                       /\ (r.attempt = attempt'[r.task] => state'[r.task] # "queued")
    <3> SUFFICES ASSUME NEW r \in ran
                 PROVE  r.attempt <= attempt'[r.task]
                        /\ (r.attempt = attempt'[r.task] => state'[r.task] # "queued")
      OBVIOUS
    <3>1. r.attempt <= attempt[r.task] /\ (r.attempt = attempt[r.task] => state[r.task] # "queued")
      BY <1>a DEF ReadIsPast
    <3> QED BY <2>1, <2>2, <3>1
  <2> QED BY <1>b, <2>3, <2>4 DEF ReadIsPast, ops, marks
<1>4. OneRunnerPerAttempt' /\ LiveIsTracked' /\ Closing' /\ ShutdownSignals' /\ ReturnedIsQuiet'
  BY <1>b DEF IInv, OneRunnerPerAttempt, LiveIsTracked, Closing, ShutdownSignals, ReturnedIsQuiet, Live, tables, ops, marks
<1> QED BY <1>1, <1>2, <1>3, <1>4 DEF IInv

LEMMA QuietCallInv == ASSUME IInv, NEW c \in Caller, QuietCall(c) PROVE IInv'
<1> USE SchedulerAssumption
<1>a. TypeOK /\ Assigned /\ ReadIsPast /\ OneRunnerPerAttempt
  BY DEF IInv
<1>b. UNCHANGED <<store, ops, tables, stopped, orphaned, ran>>
  BY DEF QuietCall, Resume, List, SubmitNothing, Register, RegisterLate, marks
<1>c. /\ call' \in [Caller -> {"idle", "list", "submit", "register", "stuck"}]
      /\ job' \in [Caller -> Task \cup {NoTask}] /\ made' \in [Caller -> Nat]
      /\ todo' \in [Caller -> SUBSET Task]
      /\ \A d \in Caller : d # c => call'[d] = call[d] /\ job'[d] = job[d] /\ made'[d] = made[d]
      /\ call'[c] \in {"idle", "list", "submit"} \/ (call'[c] = "stuck" /\ call[c] = "register" /\ job'[c] = job[c] /\ made'[c] = made[c])
      /\ call'[c] = "submit" => job'[c] \in Task
  <2>1. CASE Resume(c) \/ RegisterLate(c)
    BY <1>a, <2>1 DEF Resume, RegisterLate, TypeOK
  <2>2. CASE \E T \in SUBSET Task : Take(c, T)
    BY <1>a, <2>2, TakeTyped
  <2>3. {t \in Task : state[t] = "queued"} \in SUBSET Task /\ {} \in SUBSET Task /\ todo[c] \in SUBSET Task
    BY <1>a DEF TypeOK
  <2> QED BY <2>1, <2>2, <2>3 DEF QuietCall, List, SubmitNothing, Register
<1>d. /\ \/ lock' = lock /\ call[c] \notin {"register", "stuck"} /\ call'[c] \notin {"register", "stuck"}
         \/ lock' = lock /\ call[c] = "register" /\ call'[c] = "stuck"
         \/ lock' = Nobody /\ call[c] = "register" /\ call'[c] \notin {"register", "stuck"}
  <2>1. CASE Register(c)
    <3>1. todo[c] \in SUBSET Task /\ Take(c, todo[c])
      BY <1>a, <2>1 DEF Register, TypeOK
    <3> QED BY <1>a, <2>1, <3>1, TakeTyped DEF Register
  <2>2. CASE RegisterLate(c)
    BY <1>a, <2>2 DEF RegisterLate, TypeOK
  <2>3. CASE Resume(c) \/ List(c) \/ SubmitNothing(c)
    <3>1. lock' = lock /\ call[c] \notin {"register", "stuck"}
      BY <2>3 DEF Resume, List, SubmitNothing
    <3>2. call'[c] # "stuck"
      BY <1>c, <3>1
    <3> QED BY <1>c, <3>1, <3>2
  <2> QED BY <2>1, <2>2, <2>3 DEF QuietCall
<1>1. TypeOK'
  <2>1. registered' \subseteq Op
    <3>1. CASE Register(c)
      BY <1>a, <3>1 DEF Register, TypeOK, Assigned
    <3>2. CASE Resume(c) \/ List(c) \/ SubmitNothing(c) \/ RegisterLate(c)
      BY <1>a, <3>2 DEF Resume, List, SubmitNothing, RegisterLate, TypeOK, marks
    <3> QED BY <3>1, <3>2 DEF QuietCall
  <2>2. paused' \in BOOLEAN /\ noted' \subseteq Op
    BY <1>a DEF QuietCall, Resume, List, SubmitNothing, Register, RegisterLate, SetPaused, TypeOK, control
  <2>3. lock' \in Caller \cup {Nobody} /\ \A d \in Caller : lock' = d <=> call'[d] \in {"register", "stuck"}
    <3>1. lock \in Caller \cup {Nobody} /\ \A d \in Caller : lock = d <=> call[d] \in {"register", "stuck"}
      BY <1>a DEF TypeOK
    <3> QED BY <1>c, <1>d, <3>1
  <2> QED BY <1>a, <1>b, <1>c, <2>1, <2>2, <2>3 DEF TypeOK, tables, ops, store
<1>2. Assigned'
  BY <1>a, <1>b, <1>c DEF TypeOK, Assigned, tables, ops
<1>3. ReadIsPast'
  BY <1>a, <1>b DEF ReadIsPast, store, ops
<1>4. OneRunnerPerAttempt' /\ LiveIsTracked' /\ Closing' /\ ShutdownSignals' /\ ReturnedIsQuiet'
  BY <1>b DEF IInv, OneRunnerPerAttempt, LiveIsTracked, Closing, ShutdownSignals, ReturnedIsQuiet, Live, tables, ops
<1> QED BY <1>1, <1>2, <1>3, <1>4 DEF IInv

(* A new operation takes the entries of its task; the scheduler is open    *)
(* and finds no unfinished operation there.                                *)
LEMMA SubmitStep == ASSUME IInv, NEW c \in Caller, SubmitNew(c) PROVE IInv'
<1> USE SchedulerAssumption
<1>a. TypeOK /\ Assigned /\ ReadIsPast /\ OneRunnerPerAttempt /\ LiveIsTracked /\ Closing /\ ReturnedIsQuiet
  BY DEF IInv
<1> DEFINE n == submitted'
<1>b. n \in Op /\ n = submitted + 1 /\ at[n] = "new" /\ job[c] \in Task
  <2>1. n \in Op /\ n = submitted + 1 /\ submitted \in Nat
    BY <1>a DEF SubmitNew, TypeOK, Op
  <2>2. at[n] = "new"
    BY <1>a, <2>1 DEF TypeOK
  <2>3. job[c] \in Task
    BY <1>a DEF SubmitNew, Assigned
  <2> QED BY <2>1, <2>2, <2>3
<1>c. /\ ~closed /\ UNCHANGED <<store, control, job, todo, closed, down, signals, seen, marks>>
      /\ \A o \in Op : o # n => at'[o] = at[o] /\ taskOf'[o] = taskOf[o]
      /\ at'[n] = "pool" /\ taskOf'[n] = job[c]
      /\ future' = [future EXCEPT ![job[c]] = n] /\ token' = [token EXCEPT ![job[c]] = n]
  BY <1>a, <1>b DEF SubmitNew, TypeOK
<1>1. TypeOK'
  <2>1. \A d \in Caller : lock' = d <=> call'[d] \in {"register", "stuck"}
    BY <1>a DEF SubmitNew, KeepsLock, TypeOK
  <2>2. \A o \in Op : at'[o] = "new" <=> o > submitted'
    <3>1. submitted \in Nat /\ \A o \in Op : o \in Nat /\ (at[o] = "new" <=> o > submitted)
      BY <1>a DEF TypeOK, Op
    <3>2. \A o \in Op : o # n => (o > submitted <=> o > n)
      BY <1>b, <3>1
    <3> QED BY <1>b, <1>c, <3>1, <3>2
  <2>3. /\ call' \in [Caller -> {"idle", "list", "submit", "register", "stuck"}]
        /\ made' \in [Caller -> Nat] /\ lock' \in Caller \cup {Nobody} /\ submitted' \in 0..MaxOps
        /\ future' \in [Task -> Nat] /\ token' \in [Task -> Nat]
        /\ taskOf' \in [Op -> Task \cup {NoTask}] /\ at' \in [Op -> Place]
    BY <1>a, <1>b, <1>c DEF SubmitNew, KeepsLock, TypeOK, Place, Op
  <2> QED BY <1>a, <1>c, <2>1, <2>2, <2>3 DEF TypeOK, store, control, marks
<1>2. Assigned'
  BY <1>a, <1>b, <1>c DEF SubmitNew, TypeOK, Assigned, Op
<1>3. ReadIsPast' /\ OneRunnerPerAttempt'
  <2>1. seen[n] = 0 /\ attempt[job[c]] \in Nat
    BY <1>a, <1>b DEF ReadIsPast, TypeOK
  <2>2. seen'[n] <= attempt'[taskOf'[n]]
    BY <1>b, <1>c, <2>1 DEF store
  <2> QED BY <1>a, <1>b, <1>c, <2>2 DEF ReadIsPast, OneRunnerPerAttempt, store, marks
<1>4. LiveIsTracked'
  <2> SUFFICES ASSUME NEW o \in Live'
               PROVE  (future'[taskOf'[o]] = o /\ token'[taskOf'[o]] = o) \/ o \in orphaned'
    BY DEF LiveIsTracked
  <2>1. CASE o = n
    BY <1>a, <1>b, <1>c, <2>1 DEF TypeOK
  <2>2. CASE o # n
    <3>1. o \in Live /\ taskOf'[o] = taskOf[o] /\ ~Finished(o)
      BY <1>c, <2>2 DEF Live, Finished, Executing, Admitting
    <3>2. CASE o \notin orphaned
      <4>1. future[taskOf[o]] = o /\ token[taskOf[o]] = o /\ o # 0 /\ taskOf[o] \in Task
        BY <1>a, <3>1, <3>2 DEF LiveIsTracked, Assigned, Live, Op, Executing, Admitting
      <4>2. taskOf[o] # job[c]
        BY <3>1, <4>1 DEF SubmitNew, Deduplicated
      <4> QED BY <1>a, <1>c, <3>1, <4>1, <4>2 DEF TypeOK
    <3> QED BY <1>c, <3>2 DEF marks
  <2> QED BY <2>1, <2>2
<1>5. Closing' /\ ShutdownSignals' /\ ReturnedIsQuiet'
  BY <1>a, <1>c DEF Closing, ShutdownSignals, ReturnedIsQuiet
<1> QED BY <1>1, <1>2, <1>3, <1>4, <1>5 DEF IInv

(* The steps of an operation up to its return, which leave the scheduler   *)
(* alone and make nothing live that was not.                               *)
Leaving(o) == Conflict(o) \/ GiveUp(o) \/ Raise(o) \/ Forfeit(o) \/ Break(o)
Working1(o) ==
    \/ Run(o) \/ Read(o) \/ Ask(o) \/ Reserve(o) \/ Note(o) \/ Claim(o) \/ Leaving(o)
    \/ FailUnclaimed(o) \/ Finish(o) \/ Return(o)

(* Where such a step goes from and to.                                     *)
LEMMA Moves ==
    ASSUME TypeOK, Assigned, NEW o \in Op, Working1(o)
    PROVE  /\ o \in Live /\ at'[o] \in Executing \cup {"done"} /\ at' = [at EXCEPT ![o] = at'[o]]
           /\ taskOf[o] \in Task
<1>1. \E p \in Place \ {"new", "done", "gone"}, q \in Executing \cup {"done"} : Move(o, p, q)
  BY DEF Working1, Leaving, Run, Read, Ask, Reserve, Note, Claim, Conflict, GiveUp, Raise, FailUnclaimed,
         Finish, Forfeit, Break, Return, Place, Executing, Admitting
<1> QED BY <1>1 DEF Move, TypeOK, Assigned, Live, Place

LEMMA OperationStep == ASSUME IInv, NEW o \in Op, Working1(o) PROVE IInv'
<1> USE SchedulerAssumption
<1>a. TypeOK /\ Assigned /\ ReadIsPast /\ OneRunnerPerAttempt
  BY DEF IInv
<1>b. UNCHANGED <<callers, lock, tables, submitted, taskOf, registered, stopped, attempt, cancel, paused>>
  BY DEF Working1, Leaving, Run, Read, Ask, Reserve, Note, Claim, Conflict, GiveUp, Raise, FailUnclaimed,
         Finish, Forfeit, Break, Return, StillOps, store, control
<1>c. /\ o \in Live /\ at'[o] \in Executing \cup {"done"} /\ at' = [at EXCEPT ![o] = at'[o]]
      /\ taskOf[o] \in Task
  BY <1>a, Moves
<1>d. \/ seen' = seen
      \/ Read(o) /\ seen' = [seen EXCEPT ![o] = attempt[taskOf[o]]]
      \/ seen' = [seen EXCEPT ![o] = 0]
  BY DEF Working1, Leaving, Run, Read, Ask, Reserve, Note, Claim, Conflict, GiveUp, Raise, FailUnclaimed,
         Finish, Forfeit, Break, Return
<1>e. /\ state' \in [Task -> {"none", "queued", "running"} \cup Over]
      /\ \A t \in Task : state'[t] = "queued" => state[t] = "queued"
  <2>1. CASE UNCHANGED store
    BY <1>a, <2>1 DEF TypeOK, store
  <2>2. CASE Claim(o)
    BY <1>a, <2>2 DEF Claim, TypeOK
  <2>3. CASE FailUnclaimed(o)
    BY <1>a, <2>3 DEF FailUnclaimed, TypeOK, Over
  <2>4. CASE Finish(o)
    <3>1. PICK st \in Over : state' = [state EXCEPT ![taskOf[o]] = st]
      BY <2>4 DEF Finish, Over
    <3>2. state \in [Task -> {"none", "queued", "running"} \cup Over] /\ st # "queued"
      BY <1>a DEF TypeOK, Over
    <3> QED BY <3>1, <3>2
  <2> QED BY <2>1, <2>2, <2>3, <2>4
          DEF Working1, Leaving, Run, Read, Ask, Reserve, Note, Conflict, GiveUp, Raise, Forfeit, Break, Return, store
<1>f. /\ orphaned' \subseteq orphaned /\ noted' \subseteq Op
      /\ \A p \in orphaned : p \in orphaned' \/ (p = o /\ at'[o] = "done")
  BY <1>a DEF Working1, Leaving, Run, Read, Ask, Reserve, Note, Claim, Conflict, GiveUp, Raise, FailUnclaimed,
         Finish, Forfeit, Break, Return, StillOps, control, Move, TypeOK
<1>g. \/ ran' = ran
      \/ Claim(o) /\ ran' = ran \cup {Record(o)}
  BY DEF Working1, Leaving, Run, Read, Ask, Reserve, Note, Claim, Conflict, GiveUp, Raise, FailUnclaimed,
         Finish, Forfeit, Break, Return
<1>1. TypeOK'
  <2>1. seen' \in [Op -> Nat]
    BY <1>a, <1>c, <1>d DEF TypeOK
  <2>2. at' \in [Op -> Place] /\ \A p \in Op : at'[p] = "new" <=> p > submitted
    BY <1>a, <1>c DEF TypeOK, Place, Live, Executing, Admitting
  <2>3. ran' \subseteq [by : Op, task : Task, attempt : Nat]
    BY <1>a, <1>c, <1>g DEF TypeOK, Record
  <2> QED BY <1>a, <1>b, <1>e, <1>f, <2>1, <2>2, <2>3 DEF TypeOK, callers, tables
<1>2. Assigned'
  BY <1>a, <1>b, <1>c DEF TypeOK, Assigned, callers, tables, Live, Executing, Admitting
<1>3. ReadIsPast' /\ OneRunnerPerAttempt'
  <2>1. \A p \in Op : IF at'[p] = "new" THEN seen'[p] = 0 ELSE seen'[p] <= attempt[taskOf[p]]
    <3>1. attempt[taskOf[o]] \in Nat /\ at'[o] # "new" /\ at[o] # "new" /\ seen[o] <= attempt[taskOf[o]]
      BY <1>a, <1>c DEF TypeOK, ReadIsPast, Live, Executing, Admitting
    <3>2. seen'[o] <= attempt[taskOf[o]]
      BY <1>a, <1>d, <3>1 DEF TypeOK
    <3>3. \A p \in Op : p # o => at'[p] = at[p] /\ seen'[p] = seen[p]
      BY <1>a, <1>c, <1>d DEF TypeOK
    <3> QED BY <1>a, <3>1, <3>2, <3>3 DEF ReadIsPast
  <2>2. CASE ran' = ran
    <3>1. \A r \in ran : r.task \in Task
      BY <1>a DEF TypeOK
    <3> QED BY <1>a, <1>b, <1>e, <2>1, <2>2, <3>1 DEF ReadIsPast, OneRunnerPerAttempt
  <2>3. CASE Claim(o) /\ ran' = ran \cup {Record(o)}
    <3>1. /\ Record(o).task = taskOf[o] /\ Record(o).attempt = seen[o] /\ seen[o] = attempt[taskOf[o]]
          /\ state[taskOf[o]] = "queued" /\ state'[taskOf[o]] = "running" /\ attempt[taskOf[o]] \in Nat
      BY <1>a, <1>c, <2>3 DEF Claim, Claimable, Record, TypeOK
    <3>2. \A r \in ran : r.task = taskOf[o] => r.attempt # seen[o]
      BY <1>a, <3>1 DEF ReadIsPast
    <3>3. OneRunnerPerAttempt'
      BY <1>a, <2>3, <3>1, <3>2 DEF OneRunnerPerAttempt
    <3>4. \A r \in ran' : r.attempt <= attempt[r.task] /\ (r.attempt = attempt[r.task] => state'[r.task] # "queued")
      <4>1. \A r \in ran : r.task \in Task
        BY <1>a DEF TypeOK
      <4> QED BY <1>a, <1>e, <2>3, <3>1, <4>1 DEF ReadIsPast
    <3> QED BY <1>b, <2>1, <3>3, <3>4 DEF ReadIsPast
  <2> QED BY <1>g, <2>2, <2>3
<1>4. Live' \subseteq Live /\ (at'[o] = "done" => o \notin Live')
  BY <1>a, <1>c DEF Live, TypeOK, Executing, Admitting
<1>5. LiveIsTracked' /\ Closing' /\ ShutdownSignals' /\ ReturnedIsQuiet'
  BY <1>b, <1>f, <1>4 DEF IInv, LiveIsTracked, Closing, ShutdownSignals, ReturnedIsQuiet, tables
<1> QED BY <1>1, <1>2, <1>3, <1>5 DEF IInv

(* The callback pops whatever the entries of its task hold; a successor    *)
(* that loses them is an orphan from now on.                               *)
LEMMA ReleaseStep == ASSUME IInv, NEW o \in Op, Release(o) PROVE IInv'
<1> USE SchedulerAssumption
<1>a. TypeOK /\ Assigned /\ ReadIsPast /\ OneRunnerPerAttempt /\ LiveIsTracked /\ ShutdownSignals /\ ReturnedIsQuiet
  BY DEF IInv
<1>b. UNCHANGED <<store, control, callers, lock, closed, down, signals, submitted, taskOf, seen, stopped, ran>>
  BY DEF Release
<1>c. /\ at[o] = "done" /\ at' = [at EXCEPT ![o] = "gone"] /\ taskOf[o] \in Task
      /\ future' = [future EXCEPT ![taskOf[o]] = 0] /\ token' = [token EXCEPT ![taskOf[o]] = 0]
      /\ orphaned' = orphaned \cup ({future[taskOf[o]]} \cap Live) /\ registered' = registered \ {o}
  BY <1>a DEF Release, Move, Assigned
<1>1. TypeOK'
  <2>1. orphaned' \subseteq Op /\ registered' \subseteq Op
    BY <1>a, <1>c DEF TypeOK, Live
  <2>2. /\ at' \in [Op -> Place] /\ future' \in [Task -> Nat] /\ token' \in [Task -> Nat]
        /\ \A p \in Op : at'[p] = "new" <=> p > submitted
    BY <1>a, <1>c DEF TypeOK, Place
  <2> QED BY <1>a, <1>b, <2>1, <2>2 DEF TypeOK, store, control, callers
<1>2. Assigned'
  BY <1>a, <1>b, <1>c DEF TypeOK, Assigned, callers
<1>3. ReadIsPast' /\ OneRunnerPerAttempt'
  BY <1>a, <1>b, <1>c DEF TypeOK, ReadIsPast, OneRunnerPerAttempt, store
<1>4. Live' = Live /\ o \notin Live
  BY <1>a, <1>c DEF Live, TypeOK, Executing, Admitting
<1>5. LiveIsTracked'
  <2> SUFFICES ASSUME NEW p \in Live
               PROVE  (future'[taskOf[p]] = p /\ token'[taskOf[p]] = p) \/ p \in orphaned'
    BY <1>b, <1>4 DEF LiveIsTracked
  <2>1. p # 0 /\ p # o /\ taskOf[p] \in Task
    BY <1>a, <1>4 DEF Live, Op, Assigned, Executing, Admitting
  <2>2. CASE taskOf[p] = taskOf[o]
    BY <1>a, <1>c, <2>1, <2>2 DEF LiveIsTracked
  <2>3. CASE taskOf[p] # taskOf[o]
    BY <1>a, <1>c, <2>1, <2>3 DEF LiveIsTracked, TypeOK
  <2> QED BY <2>2, <2>3
<1>6. Closing' /\ ShutdownSignals' /\ ReturnedIsQuiet'
  BY <1>a, <1>b, <1>c, <1>4 DEF IInv, Closing, ShutdownSignals, ReturnedIsQuiet
<1> QED BY <1>1, <1>2, <1>3, <1>5, <1>6 DEF IInv

(* Shutdown takes the tokens there are, which are those of everything live *)
(* but the orphans, stops one after the other, and returns when nothing is *)
(* live.                                                                   *)
LEMMA ShutdownStep ==
    ASSUME IInv, Shutdown \/ ShutdownReturns \/ \E o \in Op : StopToken(o)
    PROVE  IInv'
<1> USE SchedulerAssumption
<1>a. TypeOK /\ Assigned /\ ReadIsPast /\ OneRunnerPerAttempt /\ LiveIsTracked /\ Closing /\ ShutdownSignals
  BY DEF IInv
<1>b. /\ UNCHANGED <<store, control, callers, lock, future, token, ops, registered, orphaned, ran>> /\ Live' = Live
  BY DEF Shutdown, ShutdownReturns, StopToken, JoinsUnder, Live, ops, marks
<1>1. TypeOK'
  <2>1. stopped' \subseteq Op /\ signals' \subseteq Op
    <3>1. stopped \subseteq Op /\ signals \subseteq Op
      BY <1>a DEF TypeOK
    <3>2. Signalled \subseteq Op
      <4>1. \A t \in Task : token[t] \in 0..MaxOps
        BY <1>a DEF TypeOK, Assigned
      <4> QED BY <4>1 DEF Signalled, Op
    <3>3. CASE Shutdown
      BY <3>1, <3>2, <3>3 DEF Shutdown, marks
    <3>4. CASE ShutdownReturns
      BY <3>1, <3>4 DEF ShutdownReturns, marks
    <3>5. ASSUME NEW o \in Op, StopToken(o) PROVE stopped' \subseteq Op /\ signals' \subseteq Op
      BY <3>1, <3>5 DEF StopToken
    <3> QED BY <3>3, <3>4, <3>5
  <2>2. closed' \in BOOLEAN /\ down' \in {"no", "stopping", "returned"}
    BY <1>a DEF Shutdown, ShutdownReturns, StopToken, TypeOK
  <2> QED BY <1>a, <1>b, <2>1, <2>2 DEF TypeOK, store, control, callers, ops
<1>2. Assigned' /\ ReadIsPast' /\ OneRunnerPerAttempt' /\ LiveIsTracked'
  BY <1>a, <1>b DEF Assigned, ReadIsPast, OneRunnerPerAttempt, LiveIsTracked, store, callers, ops
<1>3. Closing'
  BY <1>a DEF Shutdown, ShutdownReturns, StopToken, Closing
<1>4. ShutdownSignals'
  <2>1. CASE Shutdown
    <3>1. \A o \in Live : o \in orphaned \/ o \in Signalled
      BY <1>a DEF LiveIsTracked, Signalled, Live, Assigned, Op, Executing, Admitting
    <3> QED BY <1>b, <2>1, <3>1 DEF Shutdown, ShutdownSignals
  <2>2. CASE ShutdownReturns
    BY <1>a, <1>b, <2>2 DEF ShutdownReturns, ShutdownSignals, marks
  <2>3. ASSUME NEW o \in Op, StopToken(o) PROVE ShutdownSignals'
    BY <1>a, <1>b, <2>3 DEF StopToken, ShutdownSignals
  <2> QED BY <2>1, <2>2, <2>3
<1>5. ReturnedIsQuiet'
  BY <1>b DEF IInv, Shutdown, ShutdownReturns, StopToken, Joined, ReturnedIsQuiet
<1> QED BY <1>1, <1>2, <1>3, <1>4, <1>5 DEF IInv

LEMMA StepInv == IInv /\ [Next]_vars => IInv'
<1> SUFFICES ASSUME IInv, [Next]_vars PROVE IInv'
  OBVIOUS
<1>1. CASE UNCHANGED vars
  BY <1>1 DEF IInv, TypeOK, Assigned, ReadIsPast, OneRunnerPerAttempt, LiveIsTracked, Closing, ShutdownSignals,
              ReturnedIsQuiet, Live, vars, store, control, callers, tables, ops, marks
<1>2. CASE Next
  <2>1. CASE StoreStep
    BY <2>1, StoreStepInv
  <2>2. ASSUME NEW c \in Caller, CallStep(c) PROVE IInv'
    BY <2>2, QuietCallInv, SubmitStep DEF CallStep, QuietCall
  <2>3. ASSUME NEW o \in Op, OpStep(o) PROVE IInv'
    BY <2>3, OperationStep, ReleaseStep DEF OpStep, Progress, Working1, Leaving
  <2>4. CASE Shutdown \/ ShutdownReturns \/ \E o \in Op : StopToken(o)
    BY <2>4, ShutdownStep
  <2> QED BY <1>2, <2>1, <2>2, <2>3, <2>4 DEF Next, StoreStep
<1> QED BY <1>1, <1>2

LEMMA Inductive == Spec => []IInv
<1> QED BY InitInv, StepInv, PTL DEF Spec

(* The entries of the scheduler and of the callers keep their types, and   *)
(* exactly the caller that registers a callback holds the lock.            *)
THEOREM TypeCorrect == Spec => []TypeOK
<1>1. IInv => TypeOK
  BY DEF IInv
<1> QED BY Inductive, <1>1, PTL

(* No two operations run one attempt: a claim takes a queued attempt, and  *)
(* an attempt that was claimed is never queued again.                      *)
THEOREM OneRunner == Spec => []OneRunnerPerAttempt
<1>1. IInv => OneRunnerPerAttempt
  BY DEF IInv
<1> QED BY Inductive, <1>1, PTL

(* Whatever has not finished is found by the next submission of its task   *)
(* and by shutdown, unless an operation that had finished popped it.       *)
THEOREM LiveAlwaysTracked == Spec => []LiveIsTracked
<1>1. IInv => LiveIsTracked
  BY DEF IInv
<1> QED BY Inductive, <1>1, PTL

(* Behind the closing of the scheduler whatever runs on was told to stop   *)
(* or will be told by the loop of shutdown, but for the orphans.           *)
THEOREM ShutdownReachesTracked == Spec => []ShutdownSignals
<1>1. IInv => ShutdownSignals
  BY DEF IInv
<1> QED BY Inductive, <1>1, PTL

(* A shutdown that has returned has outlived every operation.              *)
THEOREM ShutdownOutlives == Spec => []ReturnedIsQuiet
<1>1. IInv => ReturnedIsQuiet
  BY DEF IInv
<1> QED BY Inductive, <1>1, PTL

-----------------------------------------------------------------------------
(* Queued attempts.  The entry of a task is an operation of this task,     *)
(* nothing is told to stop while the scheduler is open, and a task that is *)
(* queued, or not there yet, has no cancellation requested.                *)
Entered ==
    /\ \A t \in Task : future[t] # 0 => taskOf[future[t]] = t
    /\ ~closed => stopped = {} /\ signals = {}
    /\ \A t \in Task : state[t] \in {"none", "queued"} => t \notin cancel

LEMMA EnteredStep == IInv /\ Entered /\ [Next]_vars => Entered'
<1> SUFFICES ASSUME IInv, Entered, [Next]_vars PROVE Entered'
  OBVIOUS
<1>a. TypeOK /\ Assigned
  BY DEF IInv
<1>1. ASSUME StoreStep PROVE Entered'
  <2>1. UNCHANGED <<tables, ops, marks>>
    BY <1>1 DEF StoreStep, Start, Recover, Repeat, Commit, Cancel, Reap, Pause
  <2>2. \A t \in Task : state'[t] \in {"none", "queued"} => t \notin cancel'
    <3>1. ASSUME NEW c \in Caller, NEW t \in Task, Start(c, t) \/ Recover(c, t) \/ Repeat(c, t)
          PROVE  \A u \in Task : state'[u] \in {"none", "queued"} => u \notin cancel'
      BY <1>a, <3>1 DEF Start, Recover, Repeat, NewAttempt, Entered, TypeOK, store
    <3>2. ASSUME NEW t \in Task, Cancel(t) \/ Reap(t)
          PROVE  \A u \in Task : state'[u] \in {"none", "queued"} => u \notin cancel'
      BY <1>a, <3>2 DEF Cancel, Reap, Entered, TypeOK
    <3>3. CASE Pause
      BY <3>3 DEF Pause, Entered, store
    <3> QED BY <1>1, <3>1, <3>2, <3>3 DEF StoreStep
  <2> QED BY <2>1, <2>2 DEF Entered, tables, ops, marks
<1>2. ASSUME NEW c \in Caller, QuietCall(c) PROVE Entered'
  <2>1. UNCHANGED <<store, tables, ops, stopped>>
    BY <1>2 DEF QuietCall, Resume, List, SubmitNothing, Register, RegisterLate, marks
  <2> QED BY <2>1 DEF Entered, store, tables, ops
<1>3. ASSUME NEW c \in Caller, SubmitNew(c) PROVE Entered'
  <2>1. submitted' = submitted + 1 /\ submitted' \in Op /\ submitted \in Nat /\ job[c] \in Task
    <3>1. submitted' = submitted + 1 /\ submitted' \in Op /\ submitted \in Nat
      BY <1>a, <1>3, SchedulerAssumption DEF SubmitNew, TypeOK, Op
    <3>2. job[c] \in Task
      BY <1>a, <1>3 DEF SubmitNew, Assigned
    <3> QED BY <3>1, <3>2
  <2>2. \A t \in Task : future[t] # submitted'
    BY <1>a, <2>1 DEF Assigned
  <2>3. \A t \in Task : future'[t] # 0 => taskOf'[future'[t]] = t
    <3>1. /\ future' = [future EXCEPT ![job[c]] = submitted']
          /\ taskOf' = [taskOf EXCEPT ![submitted'] = job[c]]
          /\ future \in [Task -> Nat] /\ taskOf \in [Op -> Task \cup {NoTask}]
      BY <1>a, <1>3 DEF SubmitNew, TypeOK
    <3>2. \A t \in Task : t # job[c] => future'[t] = future[t]
      BY <3>1
    <3>3. taskOf'[submitted'] = job[c] /\ future'[job[c]] = submitted'
      BY <2>1, <3>1
    <3>4. \A t \in Task : future[t] # 0 => future[t] \in Op
      BY <1>a, SchedulerAssumption DEF TypeOK, Assigned, Op
    <3>5. \A t \in Task : future[t] # 0 => taskOf'[future[t]] = taskOf[future[t]]
      BY <2>2, <3>1, <3>4
    <3> QED BY <3>2, <3>3, <3>5 DEF Entered
  <2> QED BY <1>3, <2>3 DEF SubmitNew, Entered, store, marks
<1>4. ASSUME NEW o \in Op, Working1(o) PROVE Entered'
  <2>1. UNCHANGED <<tables, taskOf, stopped, cancel>>
    BY <1>4 DEF Working1, Leaving, Run, Read, Ask, Reserve, Note, Claim, Conflict, GiveUp, Raise, FailUnclaimed,
           Finish, Forfeit, Break, Return, StillOps, store
  <2>2. \A t \in Task : state'[t] \in {"none", "queued"} => state'[t] = state[t]
    <3>1. CASE UNCHANGED store
      BY <3>1 DEF store
    <3>2. CASE Claim(o)
      BY <1>a, <3>2 DEF Claim, TypeOK
    <3>3. CASE FailUnclaimed(o)
      BY <1>a, <3>3 DEF FailUnclaimed, TypeOK
    <3>4. CASE Finish(o)
      <4>1. PICK st \in Over : state' = [state EXCEPT ![taskOf[o]] = st]
        BY <3>4 DEF Finish, Over
      <4> QED BY <1>a, <4>1 DEF TypeOK, Over
    <3> QED BY <1>4, <3>1, <3>2, <3>3, <3>4
            DEF Working1, Leaving, Run, Read, Ask, Reserve, Note, Conflict, GiveUp, Raise, Forfeit, Break, Return, store
  <2> QED BY <2>1, <2>2 DEF Entered, tables
<1>5. ASSUME NEW o \in Op, Release(o) PROVE Entered'
  BY <1>a, <1>5 DEF Release, Entered, TypeOK, store
<1>6. CASE Shutdown \/ ShutdownReturns \/ \E o \in Op : StopToken(o)
  BY <1>6 DEF Shutdown, ShutdownReturns, StopToken, Entered, store, ops, marks
<1>7. CASE UNCHANGED vars
  BY <1>7 DEF vars, Entered, store, tables, ops, marks
<1> QED BY <1>1, <1>2, <1>3, <1>4, <1>5, <1>6, <1>7
        DEF Next, StoreStep, CallStep, QuietCall, OpStep, Progress, Working1, Leaving

(* An attempt becomes queued only while its caller goes on to submit it.   *)
LEMMA QueuedBySubmitter ==
    ASSUME IInv, [Next]_vars, NEW t \in Task, state[t] # "queued", state'[t] = "queued", ~LeftByException(t)
    PROVE  Submitting(t)'
<1>a. TypeOK
  BY DEF IInv
<1>1. ASSUME NEW c \in Caller, NEW u \in Task, Start(c, u) \/ Recover(c, u) PROVE Submitting(t)'
  <2>1. u = t /\ call[c] = "idle"
    BY <1>a, <1>1 DEF Start, Recover, NewAttempt, Commit, TypeOK
  <2>2. call' # call
    BY <1>1, <2>1 DEF LeftByException
  <2>3. call' = [call EXCEPT ![c] = "submit"] /\ job' = [job EXCEPT ![c] = u]
    BY <1>1, <2>2 DEF Start, Recover, Commit
  <2> QED BY <1>a, <2>1, <2>3 DEF Submitting, TypeOK
<1>2. ASSUME UNCHANGED store PROVE FALSE
  BY <1>2 DEF store
<1>3. ASSUME NEW u \in Task, Cancel(u) \/ Reap(u) PROVE FALSE
  BY <1>a, <1>3 DEF Cancel, Reap, TypeOK
<1>4. ASSUME NEW o \in Op, Claim(o) \/ FailUnclaimed(o) PROVE FALSE
  BY <1>a, <1>4 DEF Claim, FailUnclaimed, TypeOK
<1>5. ASSUME NEW o \in Op, Finish(o) PROVE FALSE
  <2>1. PICK st \in Over : state' = [state EXCEPT ![taskOf[o]] = st]
    BY <1>5 DEF Finish, Over
  <2> QED BY <1>a, <2>1 DEF TypeOK, Over
<1> QED BY <1>1, <1>2, <1>3, <1>4, <1>5
        DEF Next, CallStep, OpStep, Progress, Repeat, Pause, Resume, List, SubmitNothing, SubmitNew, Register,
            RegisterLate, Run, Read, Ask, Reserve, Note, Conflict, GiveUp, Raise, Forfeit, Break, Return, Release,
            StopToken, Shutdown, ShutdownReturns, vars

(* An operation that is going to look at a queued attempt does so, unless  *)
(* the attempt is replaced, its claim is refused on account of the control *)
(* or an exception leaves execute.                                         *)
LEMMA StaysScheduled ==
    ASSUME IInv, Entered, [Next]_vars, NEW t \in Task, Scheduled(t), ~closed,
           state[t] = "queued", state'[t] = "queued", ~AdmissionRefused(t), ~LeftByException(t)
    PROVE  Scheduled(t)'
<1>a. TypeOK /\ Assigned /\ stopped = {} /\ t \notin cancel
  BY DEF IInv, Entered
<1>1. PICK o \in Op : LooksAt(o, t)
  BY DEF Scheduled
<1>b. taskOf[o] = t /\ at[o] \in Admitting \cup {"pool", "running", "failing"}
  BY <1>1 DEF LooksAt
<1>2. attempt'[t] = attempt[t]
  <2>1. ASSUME NEW c \in Caller, NEW u \in Task, Start(c, u) \/ Recover(c, u) PROVE attempt'[t] = attempt[t]
    <3>1. u # t
      BY <2>1 DEF Start, Recover
    <3> QED BY <1>a, <2>1, <3>1 DEF Start, Recover, NewAttempt, TypeOK
  <2>2. ASSUME UNCHANGED attempt PROVE attempt'[t] = attempt[t]
    BY <2>2
  <2> QED BY <2>1, <2>2
          DEF Next, CallStep, OpStep, Progress, Repeat, Cancel, Reap, Pause, Resume, List, SubmitNothing,
              SubmitNew, Register, RegisterLate, Run, Read, Ask, Reserve, Note, Claim, Conflict, GiveUp, Raise,
              FailUnclaimed, Finish, Forfeit, Break, Return, Release, StopToken, Shutdown, ShutdownReturns, store, vars
<1>3. CASE taskOf'[o] = taskOf[o] /\ at'[o] = at[o] /\ seen'[o] = seen[o]
  BY <1>1, <1>2, <1>3 DEF Scheduled, LooksAt
<1>4. CASE UNCHANGED <<taskOf, at, seen>>
  BY <1>3, <1>4
<1>5. ASSUME NEW c \in Caller, SubmitNew(c) PROVE Scheduled(t)'
  <2>1. at[submitted'] = "new" /\ submitted' \in Op
    BY <1>a, <1>5, SchedulerAssumption DEF SubmitNew, TypeOK, Op
  <2>2. submitted' # o
    BY <1>b, <2>1 DEF Admitting
  <2> QED BY <1>a, <1>3, <1>5, <2>1, <2>2 DEF SubmitNew, TypeOK
<1>6. ASSUME NEW p \in Op, OpStep(p), p # o PROVE Scheduled(t)'
  <2>1. CASE Release(p)
    BY <1>a, <1>3, <1>6, <2>1 DEF Release, Move, TypeOK
  <2>2. CASE Working1(p)
    <3>1. at' = [at EXCEPT ![p] = at'[p]]
      BY <1>a, <2>2, Moves
    <3>2. taskOf' = taskOf /\ (seen' = seen \/ \E n : seen' = [seen EXCEPT ![p] = n])
      BY <2>2 DEF Working1, Leaving, Run, Read, Ask, Reserve, Note, Claim, Conflict, GiveUp, Raise, FailUnclaimed,
             Finish, Forfeit, Break, Return, StillOps
    <3> QED BY <1>a, <1>3, <1>6, <3>1, <3>2 DEF TypeOK
  <2> QED BY <1>6, <2>1, <2>2 DEF OpStep, Progress, Working1, Leaving
<1>7. CASE OpStep(o)
  <2>1. CASE Run(o)
    BY <1>a, <1>b, <1>2, <2>1 DEF Run, Move, StillOps, Scheduled, LooksAt, TypeOK
  <2>2. CASE Read(o)
    BY <1>a, <1>b, <1>2, <2>2 DEF Read, Move, StillOps, Scheduled, LooksAt, TypeOK, Admitting
  <2>3. CASE Ask(o) \/ Reserve(o) \/ Note(o) \/ Raise(o)
    <3>1. /\ at'[o] \in Admitting \cup {"failing"} /\ seen' = seen /\ taskOf' = taskOf
          /\ at[o] \in Admitting
      BY <1>a, <2>3 DEF Ask, Reserve, Note, Raise, Move, StillOps, TypeOK, Admitting
    <3>2. seen[o] = attempt[t]
      BY <1>1, <3>1 DEF LooksAt, Admitting
    <3> QED BY <1>b, <1>2, <3>1, <3>2 DEF Scheduled, LooksAt
  <2>4. ~Claim(o)
    BY <1>a, <1>b DEF Claim, TypeOK
  <2>5. ~Conflict(o)
    <3> SUFFICES ASSUME Conflict(o) PROVE FALSE
      OBVIOUS
    <3>1. at[o] = "admitted"
      BY DEF Conflict, Move
    <3>2. seen[o] = attempt[t]
      BY <1>1, <3>1 DEF LooksAt
    <3>3. Claimable(o)
      BY <1>a, <1>b, <3>2 DEF Claimable
    <3>4. AdmissionHolds(o)
      BY <1>1 DEF AdmissionRefused
    <3> QED BY <3>3, <3>4 DEF Conflict
  <2>6. ~GiveUp(o)
    BY <1>a, <1>b DEF GiveUp, Interrupted
  <2>7. ~FailUnclaimed(o)
    <3> SUFFICES ASSUME FailUnclaimed(o) PROVE FALSE
      OBVIOUS
    <3>1. at[o] = "failing"
      BY DEF FailUnclaimed, Move
    <3>2. seen[o] = attempt[t]
      BY <1>1, <3>1 DEF LooksAt
    <3> QED BY <1>a, <1>b, <3>2 DEF FailUnclaimed, TypeOK
  <2>8. ~Finish(o) /\ ~Forfeit(o) /\ ~Return(o) /\ ~Release(o)
    BY <1>b DEF Finish, Forfeit, Return, Release, Move, Admitting
  <2>9. ~Break(o)
    BY <1>1, <1>a, <1>b DEF LeftByException, Interrupted
  <2> QED BY <1>7, <2>1, <2>2, <2>3, <2>4, <2>5, <2>6, <2>7, <2>8, <2>9 DEF OpStep, Progress
<1> QED BY <1>4, <1>5, <1>6, <1>7
        DEF Next, CallStep, Start, Recover, Repeat, Commit, Cancel, Reap, Pause, Resume, List, SubmitNothing,
            Register, RegisterLate, StopToken, Shutdown, ShutdownReturns, ops, vars

(* A submission that makes an operation leaves its task scheduled.         *)
LEMMA SubmittedIsScheduled ==
    ASSUME IInv, NEW c \in Caller, SubmitNew(c), NEW t \in Task, job[c] = t
    PROVE  Scheduled(t)'
<1>1. submitted' \in Op
  BY SchedulerAssumption DEF IInv, TypeOK, SubmitNew, Op
<1>2. taskOf'[submitted'] = t /\ at'[submitted'] = "pool"
  BY <1>1 DEF IInv, TypeOK, SubmitNew
<1> QED BY <1>1, <1>2 DEF Scheduled, LooksAt

(* Every task a caller goes on with is the next one or stays on its list.  *)
LEMMA TakeSubmits ==
    ASSUME TypeOK, NEW c \in Caller, NEW T \in SUBSET Task, Take(c, T), NEW t \in T
    PROVE  Submitting(t)'
<1>1. PICK u \in T : /\ call' = [call EXCEPT ![c] = "submit"] /\ job' = [job EXCEPT ![c] = u]
                     /\ todo' = [todo EXCEPT ![c] = T \ {u}]
  BY DEF Take
<1>2. call'[c] = "submit" /\ job'[c] = u /\ todo'[c] = T \ {u}
  BY <1>1 DEF TypeOK
<1> QED BY <1>2 DEF Submitting

(* A queued attempt somebody is going to submit stays so until an          *)
(* operation is made for it or its submission is answered.                 *)
LEMMA StaysSubmitting ==
    ASSUME IInv, [Next]_vars, NEW t \in Task, Submitting(t), ~closed, state[t] = "queued"
    PROVE  \/ Submitting(t)'
           \/ \E c \in Caller : (SubmitNew(c) \/ SubmitNothing(c)) /\ job[c] = t
<1>a. TypeOK
  BY DEF IInv
<1>1. PICK c \in Caller : (call[c] = "submit" /\ job[c] = t) \/ t \in todo[c]
  BY DEF Submitting
<1>2. ASSUME call'[c] = call[c] /\ job'[c] = job[c] /\ todo'[c] = todo[c] PROVE Submitting(t)'
  BY <1>1, <1>2 DEF Submitting
<1>3. CASE \E d \in Caller, u \in Task : Start(d, u) \/ Recover(d, u) \/ Repeat(d, u)
  <2>1. PICK d \in Caller, u \in Task : Commit(d, u)
    BY <1>3 DEF Start, Recover, Repeat
  <2>2. CASE UNCHANGED <<call, job, todo>>
    BY <1>2, <2>2
  <2>3. CASE call[d] = "idle" /\ call' = [call EXCEPT ![d] = "submit"] /\ job' = [job EXCEPT ![d] = u] /\ todo' = todo
    <3>1. CASE d # c
      BY <1>a, <1>2, <2>3, <3>1 DEF TypeOK
    <3>2. CASE d = c
      BY <1>1, <2>3, <3>2 DEF Submitting
    <3> QED BY <3>1, <3>2
  <2> QED BY <2>1, <2>2, <2>3 DEF Commit
<1>4. ASSUME NEW d \in Caller, CallStep(d), d # c PROVE Submitting(t)'
  <2>1. CASE Resume(d) \/ SubmitNew(d) \/ RegisterLate(d)
    BY <1>a, <1>2, <1>4, <2>1 DEF Resume, SubmitNew, RegisterLate, TypeOK
  <2>2. CASE \E T : Take(d, T)
    BY <1>a, <1>2, <1>4, <2>2 DEF Take, TypeOK
  <2> QED BY <1>4, <2>1, <2>2 DEF CallStep, List, SubmitNothing, Register
<1>5. ASSUME CallStep(c)
      PROVE  Submitting(t)' \/ ((SubmitNew(c) \/ SubmitNothing(c)) /\ job[c] = t)
  <2>a. todo[c] \in SUBSET Task
    BY <1>a DEF TypeOK
  <2>1. CASE Resume(c)
    BY <1>1, <2>1 DEF Resume, Submitting
  <2>2. CASE List(c)
    BY <1>a, <2>2, TakeSubmits DEF List
  <2>4. CASE SubmitNothing(c) /\ job[c] # t
    <3>1. t \in todo[c] /\ Take(c, todo[c])
      BY <1>1, <2>4 DEF SubmitNothing
    <3> QED BY <1>a, <2>a, <3>1, TakeSubmits
  <2>5. CASE SubmitNew(c) /\ job[c] # t
    BY <1>1, <2>5 DEF SubmitNew, Submitting
  <2>6. CASE Register(c)
    <3>1. t \in todo[c] /\ Take(c, todo[c])
      BY <1>1, <2>6 DEF Register
    <3> QED BY <1>a, <2>a, <3>1, TakeSubmits
  <2>7. CASE RegisterLate(c)
    BY <1>1, <2>7 DEF RegisterLate, Submitting
  <2> QED BY <1>5, <2>1, <2>2, <2>4, <2>5, <2>6, <2>7 DEF CallStep
<1>6. CASE UNCHANGED callers
  BY <1>2, <1>6 DEF callers
<1> QED BY <1>3, <1>4, <1>5, <1>6
        DEF Next, OpStep, Progress, Cancel, Reap, Pause, Run, Read, Ask, Reserve, Note, Claim, Conflict, GiveUp,
            Raise, FailUnclaimed, Finish, Forfeit, Break, Return, Release, StillOps, StopToken, Shutdown,
            ShutdownReturns, vars

(* While the scheduler is open, a queued attempt is left without anybody   *)
(* who is going to look at it only in the ways that AnsweredByOld,         *)
(* AdmissionRefused and LeftByException name: registration, release,       *)
(* cancellation, recovery, and whatever becomes of other operations and    *)
(* other tasks strand nobody.                                              *)
THEOREM OnlyKnownWaysStrand == Spec => StrandedInKnownWays
<1>1. Init => Entered
  BY DEF Init, Entered
<1>2. ASSUME IInv, Entered, [Next]_vars, NEW t \in Task, ~Stranded(t), Stranded(t)'
      PROVE  AnsweredByOld(t) \/ AdmissionRefused(t) \/ LeftByException(t)
  <2> SUFFICES ASSUME ~AdmissionRefused(t), ~LeftByException(t) PROVE AnsweredByOld(t)
    OBVIOUS
  <2>1. state[t] = "queued" /\ ~closed
    <3>1. closed => closed'
      BY <1>2 DEF Next, CallStep, OpStep, Progress, Start, Recover, Repeat, Commit, Cancel, Reap, Pause, Resume, List,
                  SubmitNothing, SubmitNew, Register, RegisterLate, Run, Read, Ask, Reserve, Note, Claim,
                  Conflict, GiveUp, Raise, FailUnclaimed, Finish, Forfeit, Break, Return, Release, StopToken,
                  Shutdown, ShutdownReturns, StillOps, tables, vars
    <3> QED BY <1>2, <3>1, QueuedBySubmitter DEF Stranded
  <2>2. ~Scheduled(t)
    BY <1>2, <2>1, StaysScheduled DEF Stranded
  <2>3. Submitting(t)
    BY <1>2, <2>1, <2>2 DEF Stranded
  <2>4. PICK c \in Caller : (SubmitNew(c) \/ SubmitNothing(c)) /\ job[c] = t
    BY <1>2, <2>1, <2>3, StaysSubmitting DEF Stranded
  <2>5. SubmitNothing(c)
    BY <1>2, <2>4, SubmittedIsScheduled DEF Stranded
  <2>6. future[t] # 0 /\ ~Finished(future[t])
    BY <2>1, <2>4, <2>5 DEF SubmitNothing, Deduplicated
  <2>7. future[t] \in Op /\ taskOf[future[t]] = t
    BY <1>2, <2>6, SchedulerAssumption DEF IInv, TypeOK, Assigned, Entered, Op
  <2>8. at[future[t]] # "new"
    BY <1>2, <2>6, <2>7, SchedulerAssumption DEF IInv, TypeOK, Assigned, Op
  <2>9. future[t] \in Live
    BY <1>2, <2>6, <2>7, <2>8 DEF IInv, TypeOK, Place, Finished, Live
  <2>10. ~LooksAt(future[t], t)
    BY <2>2, <2>7 DEF Scheduled
  <2> QED BY <2>4, <2>5, <2>7, <2>9, <2>10 DEF AnsweredByOld
<1> DEFINE Known == \A t \in Task : ~Stranded(t) /\ Stranded(t)' =>
                      AnsweredByOld(t) \/ AdmissionRefused(t) \/ LeftByException(t)
<1>3. IInv /\ Entered /\ [Next]_vars => [Known]_vars
  BY <1>2
<1> QED BY Inductive, EnteredStep, <1>1, <1>3, PTL DEF Spec, StrandedInKnownWays

-----------------------------------------------------------------------------
(* The lifecycle of attempts: who claimed an operation's attempt is the    *)
(* operation, and each step of the store is one the contract allows.       *)
Shown == [t \in Task |-> StateOf(t)]

(* When the state of one task changes, so does what the contract shows.    *)
LEMMA ShownChanges ==
    ASSUME NEW S, state \in [Task -> S], NEW t \in Task, NEW st, state' = [state EXCEPT ![t] = st]
    PROVE  Shown' = [Shown EXCEPT ![t] = IF st \in Over THEN "over" ELSE st]
<1>1. state'[t] = st /\ \A u \in Task : u # t => state'[u] = state[u]
  OBVIOUS
<1> QED BY <1>1 DEF Shown, StateOf, Over

(* A state that is over and changes within over is not seen to change.     *)
LEMMA ShownStays ==
    ASSUME NEW S, state \in [Task -> S], NEW t \in Task, NEW st, state' = [state EXCEPT ![t] = st],
           st = state[t] \/ (st \in Over /\ state[t] \in Over)
    PROVE  Shown' = Shown
<1>1. state'[t] = st /\ \A u \in Task : u # t => state'[u] = state[u]
  OBVIOUS
<1> QED BY <1>1 DEF Shown, StateOf

(* When one operation stops working the others go on.                      *)
LEMMA WorkingLess ==
    ASSUME NEW o \in Op, at[o] = "claimed", at' = [at EXCEPT ![o] = "ending"], at \in [Op -> Place],
           UNCHANGED <<taskOf, seen>>
    PROVE  Record(o) \in Working /\ Working' = Working \ {Record(o)}
<1>1. Claimed' = Claimed \ {o} /\ o \in Claimed
  BY DEF Claimed
<1>2. Working = {Record(p) : p \in Claimed} /\ Working' = {Record(p) : p \in Claimed'}
  BY DEF Working, Record
<1>3. \A p \in Claimed : Record(p) = Record(o) => p = o
  BY DEF Record
<1> QED BY <1>1, <1>2, <1>3

LEMMA StepIsOfLifecycle == IInv /\ [Next]_vars => [Lifecycle!Next]_(Lifecycle!vars)
<1> SUFFICES ASSUME IInv, [Next]_vars PROVE Lifecycle!Next \/ UNCHANGED <<Shown, attempt, Working>>
  BY DEF Lifecycle!vars, Shown
<1>a. TypeOK /\ Assigned /\ ReadIsPast
  BY DEF IInv
<1>1. ASSUME UNCHANGED <<taskOf, at, seen>> PROVE UNCHANGED Working
  BY <1>1 DEF Working, Claimed, Record
<1>2. ASSUME UNCHANGED store PROVE UNCHANGED <<Shown, attempt>>
  BY <1>2 DEF Shown, StateOf, store
<1>3. ASSUME NEW c \in Caller, NEW t \in Task, Start(c, t) \/ Recover(c, t) PROVE Lifecycle!Next
  <2>1. UNCHANGED Working
    BY <1>1, <1>3 DEF Start, Recover, Commit, ops
  <2>2. Shown' = [Shown EXCEPT ![t] = "queued"]
    <3>1. state' = [state EXCEPT ![t] = "queued"] /\ "queued" \notin Over
      BY <1>3 DEF Start, Recover, NewAttempt, Over
    <3> QED BY <1>a, <3>1, ShownChanges DEF TypeOK
  <2>3. Shown[t] # "queued"
    BY <1>3 DEF Start, Recover, Shown, StateOf, Over
  <2>4. Lifecycle!Open(t)
    BY <1>3, <2>1, <2>2, <2>3 DEF Start, Recover, NewAttempt, Lifecycle!Open, Lifecycle!Become, Shown
  <2> QED BY <2>4 DEF Lifecycle!Next
<1>4. ASSUME NEW t \in Task, Cancel(t) PROVE Lifecycle!Next \/ UNCHANGED <<Shown, attempt, Working>>
  <2>1. UNCHANGED <<Working, attempt>>
    BY <1>1, <1>4 DEF Cancel, ops
  <2>2. PICK st : state' = [state EXCEPT ![t] = st] /\ st = (IF state[t] = "running" THEN state[t] ELSE "settled")
    BY <1>4 DEF Cancel
  <2>3. CASE state[t] = "queued"
    <3>1. Shown' = [Shown EXCEPT ![t] = "over"]
      BY <1>a, <2>2, <2>3, ShownChanges DEF TypeOK, Over
    <3>2. Lifecycle!Withdraw(t)
      BY <2>1, <2>3, <3>1 DEF Lifecycle!Withdraw, Lifecycle!Become, Shown, StateOf, Over
    <3> QED BY <3>2 DEF Lifecycle!Next
  <2>4. CASE state[t] # "queued"
    <3>1. st = state[t] \/ (st \in Over /\ state[t] \in Over)
      BY <1>4, <2>2, <2>4 DEF Cancel, Over
    <3>2. state \in [Task -> {"none", "queued", "running"} \cup Over]
      BY <1>a DEF TypeOK
    <3>3. Shown' = Shown
      BY <2>2, <3>1, <3>2, ShownStays
    <3> QED BY <2>1, <3>3
  <2> QED BY <2>3, <2>4
<1>5. ASSUME NEW t \in Task, Reap(t) PROVE Lifecycle!Next
  <2>1. UNCHANGED <<Working, attempt>>
    BY <1>1, <1>5 DEF Reap, ops
  <2>2. Shown' = [Shown EXCEPT ![t] = "over"]
    <3>1. state' = [state EXCEPT ![t] = "recoverable"] /\ "recoverable" \in Over
      BY <1>5 DEF Reap, Over
    <3> QED BY <1>a, <3>1, ShownChanges DEF TypeOK
  <2>3. Shown[t] = "running" /\ Shown' = [u \in Task |-> IF u \in {t} THEN "over" ELSE Shown[u]]
    BY <1>5, <2>2 DEF Reap, Shown, StateOf, Over
  <2>4. Lifecycle!Interrupt({t})
    BY <2>1, <2>3 DEF Lifecycle!Interrupt, Shown
  <2> QED BY <2>4 DEF Lifecycle!Next
<1>6. ASSUME Claimed' = Claimed, \A o \in Claimed : taskOf'[o] = taskOf[o] /\ seen'[o] = seen[o]
      PROVE  UNCHANGED Working
  <2>1. \A o \in Claimed : Record(o)' = Record(o)
    BY <1>6 DEF Record
  <2> QED BY <1>6, <2>1 DEF Working
<1>7. ASSUME NEW c \in Caller, SubmitNew(c) PROVE UNCHANGED <<Shown, attempt, Working>>
  <2>1. submitted' \in Op /\ at[submitted'] = "new"
    BY <1>a, <1>7, SchedulerAssumption DEF SubmitNew, TypeOK, Op
  <2>2. Claimed' = Claimed /\ \A o \in Claimed : taskOf'[o] = taskOf[o] /\ seen'[o] = seen[o]
    BY <1>a, <1>7, <2>1 DEF SubmitNew, TypeOK, Claimed
  <2> QED BY <1>2, <1>6, <1>7, <2>2 DEF SubmitNew
<1>8. ASSUME NEW o \in Op, Run(o) \/ Read(o) \/ Ask(o) \/ Reserve(o) \/ Note(o) \/ Conflict(o) \/ GiveUp(o) \/ Raise(o)
                           \/ Break(o) \/ Return(o) \/ Release(o)
      PROVE  UNCHANGED <<Shown, attempt, Working>>
  <2>1. UNCHANGED <<store, taskOf>>
    BY <1>8 DEF Run, Read, Ask, Reserve, Note, Conflict, GiveUp, Raise, Break, Return, Release, StillOps
  <2>2. o \notin Claimed /\ o \notin Claimed' /\ at' = [at EXCEPT ![o] = at'[o]]
    BY <1>a, <1>8 DEF Run, Read, Ask, Reserve, Note, Conflict, GiveUp, Raise, Break, Return, Release, Move, TypeOK,
           Claimed, Admitting
  <2>3. seen' = seen \/ \E n : seen' = [seen EXCEPT ![o] = n]
    BY <1>8 DEF Run, Read, Ask, Reserve, Note, Conflict, GiveUp, Raise, Break, Return, Release
  <2>4. Claimed' = Claimed /\ \A p \in Claimed : taskOf'[p] = taskOf[p] /\ seen'[p] = seen[p]
    BY <1>a, <2>1, <2>2, <2>3 DEF TypeOK, Claimed
  <2> QED BY <1>2, <1>6, <2>1, <2>4
<1>9. ASSUME NEW o \in Op, FailUnclaimed(o) PROVE Lifecycle!Next \/ UNCHANGED <<Shown, attempt, Working>>
  <2>1. taskOf[o] \in Task
    BY <1>a, <1>9 DEF FailUnclaimed, Move, Assigned
  <2>2. UNCHANGED <<Working, attempt>>
    BY <1>a, <1>6, <1>9 DEF FailUnclaimed, Move, StillOps, TypeOK, Claimed
  <2>3. PICK st : /\ state' = [state EXCEPT ![taskOf[o]] = st]
                  /\ st = state[taskOf[o]] \/ (st = "failed" /\ state[taskOf[o]] = "queued")
    BY <1>9 DEF FailUnclaimed
  <2>4. CASE st = "failed" /\ state[taskOf[o]] = "queued"
    <3>1. Shown' = [Shown EXCEPT ![taskOf[o]] = "over"]
      BY <1>a, <2>1, <2>3, <2>4, ShownChanges DEF TypeOK, Over
    <3>2. Lifecycle!Withdraw(taskOf[o])
      BY <2>1, <2>2, <2>4, <3>1 DEF Lifecycle!Withdraw, Lifecycle!Become, Shown, StateOf, Over
    <3> QED BY <2>1, <3>2 DEF Lifecycle!Next
  <2>5. CASE st = state[taskOf[o]]
    <3>1. Shown' = Shown
      BY <1>a, <2>1, <2>3, <2>5, ShownStays DEF TypeOK
    <3> QED BY <2>2, <3>1
  <2> QED BY <2>3, <2>4, <2>5
<1>10. ASSUME NEW o \in Op, Claim(o) PROVE Lifecycle!Next
  <2>1. taskOf[o] \in Task /\ state[taskOf[o]] = "queued" /\ seen[o] = attempt[taskOf[o]]
    BY <1>a, <1>10 DEF Claim, Claimable, Move, Assigned
  <2>2. o \notin Claimed /\ Claimed' = Claimed \cup {o} /\ UNCHANGED <<taskOf, seen, attempt>>
    BY <1>a, <1>10 DEF Claim, Move, StillOps, TypeOK, Claimed
  <2>3. Working' = Working \cup {[by |-> o, task |-> taskOf[o], attempt |-> attempt[taskOf[o]]]}
    BY <2>1, <2>2 DEF Working, Record
  <2>4. \A r \in Working : r.by # o
    BY <2>2 DEF Working, Record
  <2>5. Shown' = [Shown EXCEPT ![taskOf[o]] = "running"]
    <3>1. state' = [state EXCEPT ![taskOf[o]] = "running"] /\ "running" \notin Over
      BY <1>10 DEF Claim, Over
    <3> QED BY <1>a, <2>1, <3>1, ShownChanges DEF TypeOK
  <2>6. Shown[taskOf[o]] = "queued"
    BY <2>1 DEF Shown, StateOf, Over
  <2>7. Lifecycle!Claim(o, taskOf[o])
    BY <2>1, <2>2, <2>3, <2>4, <2>5, <2>6 DEF Lifecycle!Claim, Lifecycle!Become, Shown
  <2> QED BY <2>1, <2>7 DEF Lifecycle!Next
<1>11. ASSUME NEW o \in Op, Finish(o) \/ Forfeit(o) PROVE Lifecycle!Next
  <2>1. Record(o) \in Working /\ Working' = Working \ {Record(o)} /\ UNCHANGED attempt /\ taskOf[o] \in Task
    BY <1>a, <1>11, WorkingLess DEF Finish, Forfeit, Move, StillOps, TypeOK, Assigned, store
  <2>2. CASE Finish(o)
    <3>1. PICK st \in Over : state' = [state EXCEPT ![taskOf[o]] = st]
      BY <2>2 DEF Finish, Over
    <3>2. Shown' = [Shown EXCEPT ![taskOf[o]] = "over"]
      BY <1>a, <2>1, <3>1, ShownChanges DEF TypeOK
    <3>3. Shown[taskOf[o]] = "running" /\ attempt[taskOf[o]] = seen[o]
      BY <2>1, <2>2 DEF Finish, Shown, StateOf, Over
    <3>4. Lifecycle!Settle(Record(o))
      BY <2>1, <3>2, <3>3 DEF Record, Lifecycle!Settle, Lifecycle!Become, Lifecycle!Current, Shown
    <3> QED BY <2>1, <3>4 DEF Lifecycle!Next
  <2>3. CASE Forfeit(o)
    <3>1. Shown' = Shown
      BY <1>2, <2>3 DEF Forfeit
    <3>2. Lifecycle!Abandon(Record(o))
      BY <2>1, <3>1 DEF Lifecycle!Abandon, Shown
    <3> QED BY <2>1, <3>2 DEF Lifecycle!Next
  <2> QED BY <1>11, <2>2, <2>3
<1>12. CASE \/ \E c \in Caller, t \in Task : Repeat(c, t)
            \/ \E c \in Caller : QuietCall(c)
            \/ \E o \in Op : StopToken(o)
            \/ Pause \/ Shutdown \/ ShutdownReturns \/ UNCHANGED vars
  <2>1. UNCHANGED <<store, ops>>
    BY <1>12 DEF Repeat, Commit, QuietCall, Resume, List, SubmitNothing, Register, RegisterLate, StopToken, Pause,
           Shutdown, ShutdownReturns, vars
  <2> QED BY <1>1, <1>2, <2>1 DEF ops, store
<1> QED BY <1>3, <1>4, <1>5, <1>7, <1>8, <1>9, <1>10, <1>11, <1>12
        DEF Next, CallStep, QuietCall, OpStep, Progress

(* What the scheduler and its operations do to a task is within the        *)
(* contract of attempts: each is claimed once, by one operation, and an    *)
(* operation whose task was recovered meanwhile settles nothing.           *)
THEOREM KeepsLifecycle == Spec => LifecycleSpec
<1>1. Init => Lifecycle!Init
  BY DEF Init, Working, Claimed, Lifecycle!Init, StateOf, Over
<1> QED BY Inductive, StepIsOfLifecycle, <1>1, PTL DEF Spec, LifecycleSpec, Lifecycle!Spec
=============================================================================
