------------------------ MODULE IngestStoreProofs ------------------------
(***************************************************************************)
(* Theorems about the transactional ingest store, for any sets of tasks,   *)
(* workers, sources and commands and any bounds.                           *)
(***************************************************************************)
EXTENDS IngestStore, SequenceTheorems, TLAPS

(* The current attempt of a task can be given any state.                   *)
LEMMA AttemptsAfterType ==
    ASSUME TypeOK, NEW t \in Task, NEW st \in AttemptState
    PROVE  AttemptsAfter(t, st) \in Seq(AttemptState)
<1>1. attempts[t] \in Seq(AttemptState) /\ current[t] \in Nat
  BY DEF TypeOK
<1>2. CASE current[t] \in 1..Len(attempts[t])
  BY <1>1, <1>2, ExceptSeq DEF AttemptsAfter
<1>3. CASE current[t] \notin 1..Len(attempts[t])
  <2>1. attempts[t] \in [1..Len(attempts[t]) -> AttemptState]
    BY <1>1
  <2>2. [attempts[t] EXCEPT ![current[t]] = st] = attempts[t]
    BY <1>3, <2>1
  <2> QED BY <1>1, <2>2 DEF AttemptsAfter
<1> QED BY <1>2, <1>3

(* Entering a state disturbs no other task and creates none.               *)
LEMMA EnterType ==
    ASSUME TypeOK, NEW t \in Task, NEW st \in AttemptState, Exists(t), Enter(t, st)
    PROVE  /\ state' \in [Task -> AttemptState \cup {"absent"}]
           /\ attempts' \in [Task -> Seq(AttemptState)]
           /\ \A u \in Task : state'[u] = "absent" <=> state[u] = "absent"
<1>1. AttemptsAfter(t, st) \in Seq(AttemptState)
  BY AttemptsAfterType
<1>2. st # "absent"
  BY DEF AttemptState
<1> QED BY <1>1, <1>2 DEF Enter, TypeOK, Exists

LEMMA TypeInit == Init => TypeOK
<1> SUFFICES ASSUME Init PROVE TypeOK
  OBVIOUS
<1>1. <<>> \in Seq(AttemptState)
  BY EmptySeq
<1>2. attempts \in [Task -> Seq(AttemptState)]
  BY <1>1 DEF Init
<1> QED BY <1>2 DEF Init, TypeOK, Exists, LeaseState, Step

LEMMA TypeStep == TypeOK /\ [Next]_vars => TypeOK'
<1> SUFFICES ASSUME TypeOK, [Next]_vars PROVE TypeOK'
  OBVIOUS
<1> USE ConstantsAssumption DEF TypeOK, Exists, controlVars, taskVars, factVars, workerVars, storeVars
<1>1. ASSUME NEW c \in Command, SubmitCommand(c) PROVE TypeOK'
  <2>1. <<"queued">> \in Seq(AttemptState)
    BY DEF AttemptState
  <2> QED BY <1>1, <2>1 DEF SubmitCommand, AttemptState
<1>2. ASSUME NEW b \in BOOLEAN, SetPaused(b) PROVE TypeOK'
  BY <1>2 DEF SetPaused
<1>3. ASSUME NEW t \in Task, RequestCancel(t) PROVE TypeOK'
  <2>1. CASE Enter(t, "cancelled")
    <3>1. "cancelled" \in AttemptState
      BY DEF AttemptState
    <3> QED BY <1>3, <2>1, <3>1, EnterType DEF RequestCancel
  <2>2. CASE UNCHANGED <<state, attempts>>
    BY <1>3, <2>2 DEF RequestCancel
  <2> QED BY <1>3, <2>1, <2>2 DEF RequestCancel
<1>4. ASSUME NEW t \in Task, AdmitRecovery(t) PROVE TypeOK'
  <2>1. Closed(t) \in Seq(AttemptState)
    BY AttemptsAfterType DEF Closed, AttemptState
  <2>2. Append(Closed(t), "queued") \in Seq(AttemptState)
    BY <2>1, AppendProperties DEF AttemptState
  <2>3. Len(attempts[t]) + 1 \in Nat
    BY LenProperties
  <2> QED BY <1>4, <2>2, <2>3 DEF AdmitRecovery, Recoverable, AttemptState, LeaseState
<1>5. ASSUME NEW t \in Task, Tick(t) PROVE TypeOK'
  BY <1>5 DEF Tick, LeaseState
<1>6. CASE Reap
  <2>1. "recovery_needed" \in AttemptState
    BY DEF AttemptState
  <2>2. \A t \in Task : AttemptsAfter(t, "recovery_needed") \in Seq(AttemptState)
    BY <2>1, AttemptsAfterType
  <2>3. attempts' \in [Task -> Seq(AttemptState)]
    BY <1>6, <2>2 DEF Reap, Interrupted
  <2>4. /\ state' \in [Task -> AttemptState \cup {"absent"}]
        /\ \A t \in Task : state'[t] = "absent" <=> state[t] = "absent"
    BY <1>6, <2>1 DEF Reap, Interrupted, Expired, AttemptState
  <2>5. lease' \in [Task -> LeaseState]
    BY <1>6 DEF Reap, Cleared, LeaseState
  <2> QED BY <1>6, <2>3, <2>4, <2>5 DEF Reap
<1>7. ASSUME NEW s \in Source, Purge(s) PROVE TypeOK'
  BY <1>7 DEF Purge, RequestMaterialization
<1>8. ASSUME NEW w \in Worker, Return(w), UNCHANGED storeVars PROVE TypeOK'
  BY <1>8 DEF Return, Step
<1>9. ASSUME NEW w \in Worker, NEW t \in Task, Start(w, t) PROVE TypeOK'
  BY <1>9 DEF Start
<1>10. ASSUME NEW w \in Worker, Admit(w) PROVE TypeOK'
  BY <1>10 DEF Admit
<1>11. ASSUME NEW w \in Worker, phase[w] # "idle" PROVE job[w] \in Task /\ Exists(job[w])
  BY <1>11
<1>12. ASSUME NEW w \in Worker, Claim(w) PROVE TypeOK'
  <2>1. job[w] \in Task /\ Exists(job[w])
    BY <1>11, <1>12 DEF Claim
  <2>2. "running" \in AttemptState
    BY DEF AttemptState
  <2>3. step' \in [Worker -> [Source -> Step]]
    BY <1>12 DEF Claim, Step
  <2>4. /\ state' \in [Task -> AttemptState \cup {"absent"}]
        /\ attempts' \in [Task -> Seq(AttemptState)]
        /\ \A u \in Task : state'[u] = "absent" <=> state[u] = "absent"
    BY <1>12, <2>1, <2>2, EnterType DEF Claim
  <2>5. epoch' \in [Task -> Nat] /\ lease' \in [Task -> LeaseState] /\ heldEpoch' \in [Worker -> Nat]
    BY <1>12, <2>1 DEF Claim, LeaseState
  <2> QED BY <1>12, <2>1, <2>3, <2>4, <2>5 DEF Claim
<1>13. ASSUME NEW w \in Worker, NEW again \in BOOLEAN, FailQueued(w, again) PROVE TypeOK'
  <2>1. job[w] \in Task /\ Exists(job[w])
    BY <1>11, <1>13 DEF FailQueued
  <2>2. "failed" \in AttemptState
    BY DEF AttemptState
  <2> QED BY <1>13, <2>1, <2>2, EnterType DEF FailQueued, Return, Step
<1>14. ASSUME NEW w \in Worker, NEW outcome \in Outcome, NEW again \in BOOLEAN,
              Finish(w, outcome, again)
       PROVE  TypeOK'
  <2>1. job[w] \in Task /\ Exists(job[w]) /\ FinalState(job[w], outcome) \in AttemptState
    BY <1>11, <1>14 DEF Finish, FinalState, Outcome, AttemptState
  <2> QED BY <1>14, <2>1, EnterType DEF Finish, Return, LeaseState, Step
<1>15. ASSUME NEW w \in Worker, NEW s \in Source, NEW st \in Step, StepTo(w, s, st)
       PROVE  step' \in [Worker -> [Source -> Step]]
  BY <1>15 DEF StepTo
<1>16. ASSUME NEW w \in Worker, NEW s \in Source,
              Look(w, s) \/ PublishExisting(w, s) \/ FailSource(w, s)
       PROVE  TypeOK'
  <2>1. At(w, s, "todo") \/ At(w, s, "publishing") => job[w] \in Task
    BY <1>11 DEF At
  <2>2. skipped' \subseteq Task \X Source
    BY <1>16, <2>1 DEF Look, PublishExisting, FindCommitted, FailSource
  <2>3. UNCHANGED <<storeVars, phase, job, heldAttempt, heldEpoch, seenVersion, base>>
    BY <1>16 DEF Look, PublishExisting, FindCommitted, FailSource, StepTo
  <2>4. step' \in [Worker -> [Source -> Step]]
    BY <1>15, <1>16 DEF Look, PublishExisting, FindCommitted, FailSource, Step
  <2> QED BY <2>2, <2>3, <2>4
<1>17. ASSUME NEW w \in Worker, NEW s \in Source, BeginPublish(w, s) PROVE TypeOK'
  BY <1>15, <1>17 DEF BeginPublish, StepTo, Step
<1>18. ASSUME NEW w \in Worker, NEW s \in Source, PublishNew(w, s) PROVE TypeOK'
  <2>1. job[w] \in Task
    BY <1>11, <1>18 DEF PublishNew, At
  <2>2. KeyOf(job[w], s) \in Key \cup {NoKey}
    BY <1>11, <1>18, ConstantsAssumption DEF PublishNew, At, KeyOf
  <2>3. NewRevision(w, s) \in Revision
    BY <2>1, <2>2 DEF NewRevision, Revision
  <2>4. /\ head' \in [Source -> Nat] /\ active' \in [Source -> SUBSET Nat] /\ published' \in Nat
        /\ requestedEpoch' \in Nat /\ requestedFacts' \in [Source -> Nat]
    BY <1>18 DEF PublishNew, RequestMaterialization
  <2>5. rows' \subseteq Revision
    BY <1>18, <2>3 DEF PublishNew
  <2>6. step' \in [Worker -> [Source -> Step]]
    BY <1>15, <1>18 DEF PublishNew, Step
  <2>7. UNCHANGED <<controlVars, taskVars, purged, phase, job, heldAttempt, heldEpoch, seenVersion, base, skipped>>
    BY <1>18 DEF PublishNew, StepTo
  <2> QED BY <2>4, <2>5, <2>6, <2>7
<1> HIDE DEF TypeOK, Exists, controlVars, taskVars, factVars, workerVars, storeVars
<1>19. CASE StoreNext
  BY <1>1, <1>2, <1>3, <1>4, <1>5, <1>6, <1>7, <1>19 DEF StoreNext
<1>20. ASSUME NEW w \in Worker, WorkerNext(w) PROVE TypeOK'
  BY <1>8, <1>9, <1>10, <1>12, <1>13, <1>14, <1>16, <1>17, <1>18, <1>20
     DEF WorkerNext, Leave, ClaimConflict
<1>21. CASE UNCHANGED vars
  BY <1>21 DEF TypeOK, Exists, vars, controlVars, taskVars, factVars, workerVars
<1> QED BY <1>19, <1>20, <1>21 DEF Next

(* Every variable keeps its type: what the columns, the workers and the    *)
(* revisions hold, and a worker outside "idle" has an existing task.       *)
THEOREM TypeCorrect == Spec => []TypeOK
BY TypeInit, TypeStep, PTL DEF Spec

-----------------------------------------------------------------------------
(* Leases: a lease is recorded exactly while the task runs.                *)

LEMMA LeaseStep == TypeOK /\ LeaseWhileRunning /\ [Next]_vars => LeaseWhileRunning'
<1> SUFFICES ASSUME TypeOK, LeaseWhileRunning, [Next]_vars PROVE LeaseWhileRunning'
  OBVIOUS
<1> USE DEF LeaseWhileRunning, controlVars, taskVars, factVars, workerVars, storeVars
<1>0. /\ state \in [Task -> AttemptState \cup {"absent"}]
      /\ lease \in [Task -> LeaseState]
  BY DEF TypeOK
<1>1. ASSUME NEW c \in Command, SubmitCommand(c) PROVE LeaseWhileRunning'
  BY <1>0, <1>1 DEF SubmitCommand, Exists
<1>2. ASSUME NEW t \in Task, RequestCancel(t) PROVE LeaseWhileRunning'
  BY <1>0, <1>2 DEF RequestCancel, Enter, Interruptible
<1>3. ASSUME NEW t \in Task, AdmitRecovery(t) PROVE LeaseWhileRunning'
  BY <1>0, <1>3 DEF AdmitRecovery
<1>4. ASSUME NEW t \in Task, Tick(t) PROVE LeaseWhileRunning'
  BY <1>0, <1>4 DEF Tick
<1>5. CASE Reap
  BY <1>0, <1>5 DEF Reap, Interrupted, Cleared
<1>6. ASSUME NEW w \in Worker, Claim(w) PROVE LeaseWhileRunning'
  BY <1>0, <1>6 DEF Claim, Enter
<1>7. ASSUME NEW w \in Worker, NEW again \in BOOLEAN, FailQueued(w, again) PROVE LeaseWhileRunning'
  BY <1>0, <1>7 DEF FailQueued, Enter
<1>8. ASSUME NEW w \in Worker, NEW outcome \in Outcome, NEW again \in BOOLEAN, Finish(w, outcome, again)
      PROVE  LeaseWhileRunning'
  BY <1>0, <1>8 DEF Finish, Enter, FinalState, Outcome
<1>9. CASE UNCHANGED <<state, lease>>
  BY <1>9
<1>10. ASSUME NEW b \in BOOLEAN, SetPaused(b) PROVE UNCHANGED <<state, lease>>
  BY <1>10 DEF SetPaused
<1>11. ASSUME NEW s \in Source, Purge(s) PROVE UNCHANGED <<state, lease>>
  BY <1>11 DEF Purge
<1>12. ASSUME NEW w \in Worker, NEW t \in Task, Start(w, t) PROVE UNCHANGED <<state, lease>>
  BY <1>12 DEF Start
<1>13. ASSUME NEW w \in Worker, Admit(w) \/ Leave(w) \/ ClaimConflict(w) PROVE UNCHANGED <<state, lease>>
  BY <1>13 DEF Admit, Leave, ClaimConflict
<1>14. ASSUME NEW w \in Worker, NEW s \in Source,
              \/ Look(w, s) \/ BeginPublish(w, s) \/ PublishExisting(w, s)
              \/ PublishNew(w, s) \/ FailSource(w, s)
       PROVE  UNCHANGED <<state, lease>>
  BY <1>14 DEF Look, BeginPublish, PublishExisting, PublishNew, FailSource
<1> HIDE DEF LeaseWhileRunning
<1>15. CASE StoreNext
  BY <1>1, <1>2, <1>3, <1>4, <1>5, <1>9, <1>10, <1>11, <1>15 DEF StoreNext
<1>16. ASSUME NEW w \in Worker, WorkerNext(w) PROVE LeaseWhileRunning'
  BY <1>6, <1>7, <1>8, <1>9, <1>12, <1>13, <1>14, <1>16 DEF WorkerNext
<1>17. CASE UNCHANGED vars
  BY <1>9, <1>17 DEF vars
<1> QED BY <1>15, <1>16, <1>17 DEF Next

(* publish_revision may rely on the lease column alone.                    *)
THEOREM LeaseExactlyWhileRunning == Spec => []LeaseWhileRunning
<1>1. Init => LeaseWhileRunning
  BY DEF Init, LeaseWhileRunning
<1> QED BY <1>1, LeaseStep, TypeCorrect, PTL DEF Spec

-----------------------------------------------------------------------------
(* Ownership.  An executor that claimed holds an epoch that was new when   *)
(* it claimed, so two of them never hold the same one for the same task.   *)

TokensDistinct ==
    /\ \A w \in Worker : phase[w] = "running" => heldEpoch[w] <= epoch[job[w]]
    /\ \A v, w \in Worker :
          /\ phase[v] = "running" /\ phase[w] = "running"
          /\ job[v] = job[w] /\ heldEpoch[v] = heldEpoch[w]
          => v = w

LEMMA TokenStep == TypeOK /\ TokensDistinct /\ [Next]_vars => TokensDistinct'
<1> SUFFICES ASSUME TypeOK, TokensDistinct, [Next]_vars PROVE TokensDistinct'
  OBVIOUS
<1> USE DEF controlVars, taskVars, factVars, workerVars, storeVars
<1>0. /\ epoch \in [Task -> Nat]
      /\ phase \in [Worker -> {"idle", "admitting", "admitted", "running"}]
      /\ job \in [Worker -> Task \cup {NoTask}]
      /\ heldEpoch \in [Worker -> Nat]
      /\ \A w \in Worker : phase[w] # "idle" => job[w] \in Task
  BY DEF TypeOK
<1>1. ASSUME NEW w \in Worker, Claim(w) PROVE TokensDistinct'
  BY <1>0, <1>1 DEF Claim, TokensDistinct
<1>2. ASSUME NEW w \in Worker, Return(w), UNCHANGED epoch PROVE TokensDistinct'
  BY <1>0, <1>2 DEF Return, TokensDistinct
<1>3. ASSUME NEW w \in Worker, NEW t \in Task, Start(w, t) PROVE TokensDistinct'
  BY <1>0, <1>3 DEF Start, TokensDistinct
<1>4. ASSUME NEW w \in Worker, Admit(w) PROVE TokensDistinct'
  BY <1>0, <1>4 DEF Admit, TokensDistinct
<1>5. CASE UNCHANGED <<epoch, phase, job, heldEpoch>>
  BY <1>5 DEF TokensDistinct
<1>6. StoreNext => UNCHANGED <<epoch, phase, job, heldEpoch>>
  BY DEF StoreNext, SubmitCommand, SetPaused, RequestCancel, AdmitRecovery, Tick, Reap, Purge
<1>7. ASSUME NEW w \in Worker, NEW s \in Source,
             \/ Look(w, s) \/ BeginPublish(w, s) \/ PublishExisting(w, s)
             \/ PublishNew(w, s) \/ FailSource(w, s)
      PROVE  UNCHANGED <<epoch, phase, job, heldEpoch>>
  BY <1>7 DEF Look, BeginPublish, PublishExisting, FindCommitted, PublishNew, FailSource, StepTo
<1>8. ASSUME NEW w \in Worker,
             \/ Leave(w) \/ ClaimConflict(w) \/ (\E again \in BOOLEAN : FailQueued(w, again))
             \/ (\E outcome \in Outcome, again \in BOOLEAN : Finish(w, outcome, again))
      PROVE  Return(w) /\ UNCHANGED epoch
  BY <1>8 DEF Leave, ClaimConflict, FailQueued, Finish
<1>9. ASSUME NEW w \in Worker, WorkerNext(w) PROVE TokensDistinct'
  BY <1>1, <1>2, <1>3, <1>4, <1>5, <1>7, <1>8, <1>9 DEF WorkerNext
<1>10. CASE UNCHANGED vars
  BY <1>5, <1>10 DEF vars
<1> QED BY <1>5, <1>6, <1>9, <1>10 DEF Next

(* At most one executor holds the live token of a task.                    *)
THEOREM OneOwnerAlways == Spec => []OneOwner
<1>1. Init => TokensDistinct
  BY DEF Init, TokensDistinct
<1>2. TokensDistinct => OneOwner
  BY DEF TokensDistinct, OneOwner, Owns
<1> QED BY <1>1, <1>2, TokenStep, TypeCorrect, PTL DEF Spec

(* No revision is added for a task that does not run, by a stale attempt,  *)
(* under an old epoch or after a cancellation.                             *)
THEOREM PublicationIsFenced == Spec => PublishWhileRunning
<1> DEFINE Added == \A r \in rows' \ rows : /\ state[r.task] = "running"
                                            /\ current[r.task] = r.attempt
                                            /\ epoch[r.task] = r.epoch
                                            /\ ~cancel[r.task]
<1>1. ASSUME TypeOK, LeaseWhileRunning, [Next]_vars PROVE [Added]_vars
  <2> USE DEF controlVars, taskVars, factVars, workerVars, storeVars
  <2>1. ASSUME NEW w \in Worker, NEW s \in Source, PublishNew(w, s) PROVE Added
    <3>1. job[w] \in Task /\ lease[job[w]] = "live"
      BY <1>1, <2>1 DEF PublishNew, At, Fenced, TypeOK
    <3>2. state[job[w]] = "running"
      BY <1>1, <3>1 DEF LeaseWhileRunning
    <3>3. \A r \in rows' \ rows : r = NewRevision(w, s)
      BY <2>1 DEF PublishNew
    <3> QED BY <2>1, <3>2, <3>3 DEF PublishNew, Fenced, NewRevision
  <2>2. StoreNext => rows' \subseteq rows
    BY DEF StoreNext, SubmitCommand, SetPaused, RequestCancel, AdmitRecovery, Tick, Reap, Purge
  <2>3. ASSUME NEW w \in Worker, WorkerNext(w) PROVE rows' = rows \/ \E s \in Source : PublishNew(w, s)
    BY <2>3 DEF WorkerNext, Start, Admit, Leave, Claim, ClaimConflict, FailQueued, Look, BeginPublish,
                PublishExisting, FailSource, Finish
  <2>4. CASE rows' \subseteq rows
    BY <2>4
  <2> QED BY <1>1, <2>1, <2>2, <2>3, <2>4 DEF Next, vars
<1> QED BY <1>1, TypeCorrect, LeaseExactlyWhileRunning, PTL DEF Spec, PublishWhileRunning

-----------------------------------------------------------------------------
(* The two tables.  AttemptsMirrorTask is inductive once an existing task  *)
(* is known to have an attempt.                                            *)

Mirror == AttemptsMirrorTask /\ \A t \in Task : Exists(t) => current[t] # 0

(* Entering a state changes the last attempt of one task only.             *)
LEMMA EnterMirror ==
    ASSUME TypeOK, Mirror, NEW t \in Task, NEW st \in AttemptState, Exists(t), Enter(t, st)
    PROVE  /\ \A u \in Task : u # t => attempts'[u] = attempts[u] /\ state'[u] = state[u]
           /\ state'[t] = st
           /\ Len(attempts'[t]) = Len(attempts[t])
           /\ attempts'[t][Len(attempts[t])] = st
           /\ \A i \in 1..(Len(attempts[t]) - 1) : attempts'[t][i] = attempts[t][i]
<1>1. attempts[t] \in Seq(AttemptState) /\ current[t] \in 1..Len(attempts[t])
  BY LenProperties DEF TypeOK, Mirror, AttemptsMirrorTask
<1>2. /\ Len(AttemptsAfter(t, st)) = Len(attempts[t])
      /\ \A j \in 1..Len(attempts[t]) :
            AttemptsAfter(t, st)[j] = IF j = current[t] THEN st ELSE attempts[t][j]
  BY <1>1, ExceptSeq DEF AttemptsAfter
<1>3. current[t] = Len(attempts[t])
  BY DEF Mirror, AttemptsMirrorTask
<1>4. attempts'[t] = AttemptsAfter(t, st)
  BY DEF Enter, TypeOK
<1>5. \A u \in Task : u # t => attempts'[u] = attempts[u] /\ state'[u] = state[u]
  BY DEF Enter, TypeOK
<1>6. state'[t] = st
  BY DEF Enter, TypeOK
<1> QED BY <1>1, <1>2, <1>3, <1>4, <1>5, <1>6, LenProperties

(* So it preserves the mirror, if nothing else of the two tables changes.  *)
LEMMA EnterKeepsMirror ==
    ASSUME TypeOK, Mirror, NEW t \in Task, NEW st \in AttemptState, Exists(t), Enter(t, st),
           UNCHANGED current
    PROVE  Mirror'
<1>1. st # "absent"
  BY DEF AttemptState
<1> QED BY <1>1, EnterMirror DEF Mirror, AttemptsMirrorTask, Exists

LEMMA MirrorStep == TypeOK /\ Mirror /\ [Next]_vars => Mirror'
<1> SUFFICES ASSUME TypeOK, Mirror, [Next]_vars PROVE Mirror'
  OBVIOUS
<1> USE DEF controlVars, taskVars, factVars, workerVars, storeVars
<1>0. /\ state \in [Task -> AttemptState \cup {"absent"}]
      /\ current \in [Task -> Nat]
      /\ attempts \in [Task -> Seq(AttemptState)]
      /\ \A w \in Worker : phase[w] # "idle" => job[w] \in Task /\ Exists(job[w])
  BY DEF TypeOK
<1>1. ASSUME NEW c \in Command, SubmitCommand(c) PROVE Mirror'
  <2>1. PICK t \in Task : /\ ~Exists(t)
                          /\ state' = [state EXCEPT ![t] = "queued"]
                          /\ current' = [current EXCEPT ![t] = 1]
                          /\ attempts' = [attempts EXCEPT ![t] = <<"queued">>]
    BY <1>1 DEF SubmitCommand
  <2>2. Len(<<"queued">>) = 1 /\ <<"queued">>[1] = "queued"
    OBVIOUS
  <2>3. \A u \in Task \ {t} : state'[u] = state[u] /\ current'[u] = current[u] /\ attempts'[u] = attempts[u]
    BY <1>0, <2>1
  <2>4. state'[t] = "queued" /\ current'[t] = 1 /\ attempts'[t] = <<"queued">>
    BY <1>0, <2>1
  <2>5. Len(attempts'[t]) = 1 /\ attempts'[t][1] = "queued" /\ 1..(Len(attempts'[t]) - 1) = {}
    BY <2>2, <2>4
  <2>6. current'[t] = Len(attempts'[t]) /\ attempts'[t][Len(attempts'[t])] = state'[t]
    BY <2>4, <2>5
  <2>7. ASSUME NEW u \in Task, Exists(u)'
        PROVE  /\ current'[u] = Len(attempts'[u]) /\ current'[u] # 0
               /\ attempts'[u][Len(attempts'[u])] = state'[u]
               /\ \A i \in 1..(Len(attempts'[u]) - 1) : attempts'[u][i] \in Interruptible \ {"queued"}
    <3>1. CASE u = t
      <4>1. \A i \in 1..(Len(attempts'[u]) - 1) : attempts'[u][i] \in Interruptible \ {"queued"}
        BY <2>5, <3>1, Zenon
      <4>2. current'[u] = Len(attempts'[u]) /\ attempts'[u][Len(attempts'[u])] = state'[u]
        BY <2>6, <3>1, Zenon
      <4>3. current'[u] # 0
        BY <2>4, <3>1
      <4> QED BY <4>1, <4>2, <4>3
    <3>2. CASE u # t
      <4>1. state'[u] = state[u] /\ current'[u] = current[u] /\ attempts'[u] = attempts[u]
        BY <2>3, <3>2
      <4>2. Exists(u)
        BY <2>7, <4>1 DEF Exists
      <4> QED BY <4>1, <4>2 DEF Mirror, AttemptsMirrorTask
    <3> QED BY <3>1, <3>2
  <2> QED BY <2>7 DEF Mirror, AttemptsMirrorTask
<1>2. ASSUME NEW t \in Task, RequestCancel(t) PROVE Mirror'
  <2>1. CASE Enter(t, "cancelled")
    BY <1>2, <2>1, EnterKeepsMirror DEF RequestCancel, AttemptState
  <2>2. CASE UNCHANGED <<state, attempts>>
    BY <1>2, <2>2 DEF RequestCancel, Mirror, AttemptsMirrorTask, Exists
  <2> QED BY <1>2, <2>1, <2>2 DEF RequestCancel
<1>3. ASSUME NEW t \in Task, AdmitRecovery(t) PROVE Mirror'
  <2>1. Exists(t) /\ state[t] \in AttemptState
    BY <1>0, <1>3 DEF AdmitRecovery, Recoverable, Exists
  <2>2. /\ attempts[t] \in Seq(AttemptState)
        /\ current[t] = Len(attempts[t]) /\ current[t] \in 1..Len(attempts[t])
        /\ attempts[t][current[t]] = state[t]
        /\ \A i \in 1..(Len(attempts[t]) - 1) : attempts[t][i] \in Interruptible \ {"queued"}
    BY <1>0, <2>1, LenProperties DEF Mirror, AttemptsMirrorTask
  <2>3. /\ Closed(t) \in Seq(AttemptState) /\ Len(Closed(t)) = Len(attempts[t])
        /\ \A i \in 1..Len(attempts[t]) : Closed(t)[i] \in Interruptible \ {"queued"}
    <3>1. CASE state[t] = "running"
      BY <2>2, <3>1, ExceptSeq DEF Closed, AttemptsAfter, Interruptible, AttemptState
    <3>2. CASE state[t] # "running"
      <4>1. state[t] \in Interruptible \ {"queued"}
        BY <1>3, <3>2 DEF AdmitRecovery, Recoverable, Interruptible
      <4> QED BY <2>2, <3>2, <4>1 DEF Closed
    <3> QED BY <3>1, <3>2
  <2>4. /\ Len(Append(Closed(t), "queued")) = Len(attempts[t]) + 1
        /\ Append(Closed(t), "queued")[Len(attempts[t]) + 1] = "queued"
        /\ \A i \in 1..Len(attempts[t]) : Append(Closed(t), "queued")[i] \in Interruptible \ {"queued"}
    BY <2>3, AppendProperties DEF AttemptState
  <2>5. \A u \in Task \ {t} : state'[u] = state[u] /\ current'[u] = current[u] /\ attempts'[u] = attempts[u]
    BY <1>0, <1>3 DEF AdmitRecovery
  <2>6. /\ state'[t] = "queued" /\ current'[t] = Len(attempts[t]) + 1
        /\ attempts'[t] = Append(Closed(t), "queued")
    BY <1>0, <1>3 DEF AdmitRecovery
  <2>7. current'[t] # 0 /\ Len(attempts[t]) \in Nat
    BY <2>2, <2>6, LenProperties
  <2>8. AttemptsMirrorTask'
    <3>1. \A i \in 1..(Len(attempts'[t]) - 1) : attempts'[t][i] \in Interruptible \ {"queued"}
      BY <2>4, <2>6, <2>7
    <3> QED BY <2>4, <2>5, <2>6, <3>1 DEF Mirror, AttemptsMirrorTask, Exists
  <2> QED BY <2>5, <2>7, <2>8 DEF Mirror, Exists
<1>4. CASE Reap
  <2>1. \A t \in Task \ Expired : state'[t] = state[t] /\ attempts'[t] = attempts[t]
    BY <1>4 DEF Reap
  <2>2. ASSUME NEW t \in Expired
        PROVE  /\ state'[t] = "recovery_needed"
               /\ Len(attempts'[t]) = Len(attempts[t])
               /\ attempts'[t][Len(attempts[t])] = "recovery_needed"
               /\ \A i \in 1..(Len(attempts[t]) - 1) : attempts'[t][i] = attempts[t][i]
               /\ Exists(t)
    <3>1. t \in Task /\ Exists(t)
      BY <2>2 DEF Expired, Exists
    <3>2. /\ attempts[t] \in Seq(AttemptState) /\ current[t] = Len(attempts[t])
          /\ current[t] \in 1..Len(attempts[t])
      BY <1>0, <3>1, LenProperties DEF Mirror, AttemptsMirrorTask
    <3>3. attempts'[t] = [attempts[t] EXCEPT ![current[t]] = "recovery_needed"]
      BY <1>4, <2>2, <3>1 DEF Reap, Interrupted, AttemptsAfter
    <3>4. "recovery_needed" \in AttemptState
      BY DEF AttemptState
    <3>5. state'[t] = "recovery_needed"
      BY <1>4, <2>2, <3>1 DEF Reap, Interrupted
    <3> QED BY <3>1, <3>2, <3>3, <3>4, <3>5, ExceptSeq
  <2>3. UNCHANGED current
    BY <1>4 DEF Reap
  <2> QED BY <2>1, <2>2, <2>3 DEF Mirror, AttemptsMirrorTask, Exists
<1>5. ASSUME NEW w \in Worker, phase[w] # "idle", NEW st \in AttemptState,
             Enter(job[w], st), UNCHANGED current
      PROVE  Mirror'
  BY <1>0, <1>5, EnterKeepsMirror
<1>6. ASSUME NEW w \in Worker,
             \/ Claim(w) \/ (\E again \in BOOLEAN : FailQueued(w, again))
             \/ (\E outcome \in Outcome, again \in BOOLEAN : Finish(w, outcome, again))
      PROVE  Mirror'
  BY <1>5, <1>6 DEF Claim, FailQueued, Finish, FinalState, Outcome, AttemptState
<1>7. CASE UNCHANGED <<state, current, attempts>>
  BY <1>7 DEF Mirror, AttemptsMirrorTask, Exists
<1>8. StoreNext => \/ \E c \in Command : SubmitCommand(c)
                   \/ \E t \in Task : RequestCancel(t) \/ AdmitRecovery(t)
                   \/ Reap
                   \/ UNCHANGED <<state, current, attempts>>
  BY DEF StoreNext, SetPaused, Tick, Purge
<1>9. ASSUME NEW w \in Worker, WorkerNext(w) PROVE Mirror'
  BY <1>6, <1>7, <1>9 DEF WorkerNext, Start, Admit, Leave, ClaimConflict, Look, BeginPublish,
                          PublishExisting, PublishNew, FailSource
<1>10. CASE UNCHANGED vars
  BY <1>7, <1>10 DEF vars
<1> QED BY <1>1, <1>2, <1>3, <1>4, <1>7, <1>8, <1>9, <1>10 DEF Next

(* The tasks table and the attempts table always tell one story.           *)
THEOREM TablesAgree == Spec => []AttemptsMirrorTask
<1>1. Init => Mirror
  BY DEF Init, Mirror, AttemptsMirrorTask, Exists
<1>2. Mirror => AttemptsMirrorTask
  BY DEF Mirror
<1> QED BY <1>1, <1>2, MirrorStep, TypeCorrect, PTL DEF Spec

-----------------------------------------------------------------------------
(* History and cancellation.  A task that waits has no cancellation        *)
(* pending, so a claim never starts a cancelled attempt.                   *)

WaitingIsWanted == \A t \in Task : state[t] \in {"absent", "queued"} => ~cancel[t]

LEMMA WaitingStep == TypeOK /\ WaitingIsWanted /\ [Next]_vars => WaitingIsWanted'
<1> SUFFICES ASSUME TypeOK, WaitingIsWanted, [Next]_vars PROVE WaitingIsWanted'
  OBVIOUS
<1> USE DEF WaitingIsWanted, controlVars, taskVars, factVars, workerVars, storeVars
<1>0. /\ state \in [Task -> AttemptState \cup {"absent"}]
      /\ cancel \in [Task -> BOOLEAN]
  BY DEF TypeOK
<1>1. ASSUME NEW c \in Command, SubmitCommand(c) PROVE WaitingIsWanted'
  BY <1>0, <1>1 DEF SubmitCommand, Exists
<1>2. ASSUME NEW t \in Task, RequestCancel(t) PROVE WaitingIsWanted'
  BY <1>0, <1>2 DEF RequestCancel, Enter, Interruptible, Exists
<1>3. ASSUME NEW t \in Task, AdmitRecovery(t) PROVE WaitingIsWanted'
  BY <1>0, <1>3 DEF AdmitRecovery
<1>4. CASE Reap
  BY <1>0, <1>4 DEF Reap, Interrupted
<1>5. ASSUME NEW w \in Worker, NEW st \in AttemptState \ {"queued"}, Enter(job[w], st), UNCHANGED cancel
      PROVE  WaitingIsWanted'
  BY <1>0, <1>5 DEF Enter, AttemptState
<1>6. ASSUME NEW w \in Worker,
             \/ Claim(w) \/ (\E again \in BOOLEAN : FailQueued(w, again))
             \/ (\E outcome \in Outcome, again \in BOOLEAN : Finish(w, outcome, again))
      PROVE  WaitingIsWanted'
  BY <1>5, <1>6 DEF Claim, FailQueued, Finish, FinalState, Outcome, AttemptState
<1>7. CASE UNCHANGED <<state, cancel>>
  BY <1>7
<1>8. StoreNext => \/ \E c \in Command : SubmitCommand(c)
                   \/ \E t \in Task : RequestCancel(t) \/ AdmitRecovery(t)
                   \/ Reap
                   \/ UNCHANGED <<state, cancel>>
  BY DEF StoreNext, SetPaused, Tick, Purge
<1>9. ASSUME NEW w \in Worker, WorkerNext(w) PROVE WaitingIsWanted'
  BY <1>6, <1>7, <1>9 DEF WorkerNext, Start, Admit, Leave, ClaimConflict, Look, BeginPublish,
                          PublishExisting, PublishNew, FailSource
<1>10. CASE UNCHANGED vars
  BY <1>7, <1>10 DEF vars
<1> QED BY <1>1, <1>2, <1>3, <1>4, <1>7, <1>8, <1>9, <1>10 DEF Next

(* A cancellation sticks to its attempt.                                   *)
THEOREM CancellationSticks == Spec => CancelSticks
<1> DEFINE Sticks == \A t \in Task : cancel[t] =>
                        \/ /\ current'[t] = current[t]
                           /\ cancel'[t]
                           /\ state'[t] \in {state[t], "cancelled", "recovery_needed"}
                        \/ current'[t] = current[t] + 1
<1>1. ASSUME TypeOK, Mirror, WaitingIsWanted, [Next]_vars PROVE [Sticks]_vars
  <2> USE DEF controlVars, taskVars, factVars, workerVars, storeVars
  <2>0. /\ state \in [Task -> AttemptState \cup {"absent"}]
        /\ cancel \in [Task -> BOOLEAN] /\ current \in [Task -> Nat]
        /\ \A w \in Worker : phase[w] # "idle" => job[w] \in Task
    BY <1>1 DEF TypeOK
  <2>1. ASSUME NEW c \in Command, SubmitCommand(c) PROVE Sticks
    BY <1>1, <2>0, <2>1 DEF SubmitCommand, WaitingIsWanted, Exists
  <2>2. ASSUME NEW t \in Task, RequestCancel(t) PROVE Sticks
    BY <2>0, <2>2 DEF RequestCancel, Enter
  <2>3. ASSUME NEW t \in Task, AdmitRecovery(t) PROVE Sticks
    <3>1. current[t] = Len(attempts[t])
      BY <1>1, <2>3 DEF Mirror, AttemptsMirrorTask, AdmitRecovery, Recoverable, Exists
    <3> QED BY <2>0, <2>3, <3>1 DEF AdmitRecovery
  <2>4. CASE Reap
    BY <2>0, <2>4 DEF Reap, Interrupted
  <2>5. ASSUME NEW w \in Worker, Claim(w) \/ (\E again \in BOOLEAN : FailQueued(w, again)) PROVE Sticks
    <3>1. job[w] \in Task /\ state[job[w]] = "queued"
      BY <2>0, <2>5 DEF Claim, FailQueued, Claimable
    <3>2. ~cancel[job[w]]
      BY <1>1, <3>1 DEF WaitingIsWanted
    <3> QED BY <2>0, <2>5, <3>1, <3>2 DEF Claim, FailQueued, Enter
  <2>6. ASSUME NEW w \in Worker, NEW outcome \in Outcome, NEW again \in BOOLEAN, Finish(w, outcome, again)
        PROVE  Sticks
    BY <2>0, <2>6 DEF Finish, Enter, FinalState
  <2>7. CASE UNCHANGED <<state, cancel, current>>
    BY <2>7
  <2>8. StoreNext => \/ \E c \in Command : SubmitCommand(c)
                     \/ \E t \in Task : RequestCancel(t) \/ AdmitRecovery(t)
                     \/ Reap
                     \/ UNCHANGED <<state, cancel, current>>
    BY DEF StoreNext, SetPaused, Tick, Purge
  <2>9. ASSUME NEW w \in Worker, WorkerNext(w) PROVE Sticks
    BY <2>5, <2>6, <2>7, <2>9 DEF WorkerNext, Start, Admit, Leave, ClaimConflict, Look, BeginPublish,
                                  PublishExisting, PublishNew, FailSource
  <2> QED BY <1>1, <2>1, <2>2, <2>3, <2>4, <2>7, <2>8, <2>9 DEF Next, vars
<1>2. Init => Mirror /\ WaitingIsWanted
  BY DEF Init, Mirror, AttemptsMirrorTask, Exists, WaitingIsWanted
<1> QED BY <1>1, <1>2, TypeCorrect, MirrorStep, WaitingStep, PTL DEF Spec, CancelSticks

-----------------------------------------------------------------------------
(* A task that does not exist yet has no attempts.                         *)

AbsentIsBlank == \A t \in Task : ~Exists(t) => attempts[t] = <<>>

(* What one step may do to the history of one task.                        *)
FrozenFor(t) ==
    /\ \A i \in 1..(Len(attempts[t]) - 1) : attempts'[t][i] = attempts[t][i]
    /\ Len(attempts'[t]) \in {Len(attempts[t]), Len(attempts[t]) + 1}
    /\ state[t] \in Settled => state'[t] = state[t]
    /\ epoch'[t] >= epoch[t]
    /\ AbsentIsBlank => (~Exists(t)' => attempts'[t] = <<>>)

(* Entering a state keeps every history, if the task was not settled.      *)
LEMMA EnterFrozen ==
    ASSUME TypeOK, Mirror, NEW t \in Task, NEW st \in AttemptState, Exists(t), Enter(t, st),
           state[t] \notin Settled, \A u \in Task : epoch'[u] >= epoch[u]
    PROVE  \A u \in Task : FrozenFor(u)
<1>1. st # "absent"
  BY DEF AttemptState
<1>2. \A u \in Task : attempts[u] \in Seq(AttemptState)
  BY DEF TypeOK
<1> QED BY <1>1, <1>2, EnterMirror DEF FrozenFor, AbsentIsBlank, Exists

LEMMA FrozenStep ==
    ASSUME TypeOK, Mirror, AbsentIsBlank, [Next]_vars
    PROVE  \A u \in Task : FrozenFor(u)
<1> USE DEF controlVars, taskVars, factVars, workerVars, storeVars
<1>0. /\ state \in [Task -> AttemptState \cup {"absent"}]
      /\ epoch \in [Task -> Nat]
      /\ attempts \in [Task -> Seq(AttemptState)]
      /\ \A u \in Task : Len(attempts[u]) \in Nat /\ epoch[u] >= epoch[u]
      /\ \A w \in Worker : phase[w] # "idle" => job[w] \in Task /\ Exists(job[w])
  BY LenProperties DEF TypeOK
<1>1. ASSUME NEW u \in Task, UNCHANGED <<state[u], attempts[u], epoch[u]>> PROVE FrozenFor(u)
  BY <1>0, <1>1 DEF FrozenFor, AbsentIsBlank, Exists
<1>2. ASSUME NEW c \in Command, SubmitCommand(c), NEW u \in Task PROVE FrozenFor(u)
  <2>1. PICK t \in Task : /\ ~Exists(t)
                          /\ state' = [state EXCEPT ![t] = "queued"]
                          /\ attempts' = [attempts EXCEPT ![t] = <<"queued">>]
                          /\ epoch' = epoch
    BY <1>2 DEF SubmitCommand
  <2>2. CASE u # t
    BY <1>0, <1>1, <2>1, <2>2
  <2>3. CASE u = t
    <3>1. attempts[u] = <<>> /\ state[u] = "absent"
      BY <2>1, <2>3 DEF AbsentIsBlank, Exists
    <3>2. attempts'[u] = <<"queued">> /\ state'[u] = "queued"
      BY <1>0, <2>1, <2>3
    <3> QED BY <1>0, <2>1, <3>1, <3>2 DEF FrozenFor, Settled, Exists
  <2> QED BY <2>2, <2>3
<1>3. ASSUME NEW t \in Task, RequestCancel(t) PROVE \A u \in Task : FrozenFor(u)
  <2>1. CASE Enter(t, "cancelled")
    BY <1>0, <1>3, <2>1, EnterFrozen DEF RequestCancel, AttemptState
  <2>2. CASE UNCHANGED <<state, attempts>>
    BY <1>1, <1>3, <2>2 DEF RequestCancel
  <2> QED BY <1>3, <2>1, <2>2 DEF RequestCancel
<1>4. ASSUME NEW t \in Task, AdmitRecovery(t), NEW u \in Task PROVE FrozenFor(u)
  <2>1. CASE u # t
    BY <1>0, <1>1, <1>4, <2>1 DEF AdmitRecovery
  <2>2. CASE u = t
    <3>1. state[u] \in AttemptState /\ state[u] \notin Settled /\ Exists(u)
      BY <1>0, <1>4, <2>2 DEF AdmitRecovery, Recoverable, Settled, Exists, AttemptState
    <3>2. current[u] = Len(attempts[u]) /\ current[u] \in 1..Len(attempts[u])
      BY <1>0, <3>1, LenProperties DEF Mirror, AttemptsMirrorTask, TypeOK
    <3>3. /\ Closed(u) \in Seq(AttemptState) /\ Len(Closed(u)) = Len(attempts[u])
          /\ \A i \in 1..(Len(attempts[u]) - 1) : Closed(u)[i] = attempts[u][i]
      <4>1. attempts[u] \in Seq(AttemptState) /\ "recovery_needed" \in AttemptState
        BY <1>0 DEF AttemptState
      <4>2. CASE state[u] = "running"
        BY <3>2, <4>1, <4>2, ExceptSeq DEF Closed, AttemptsAfter
      <4>3. CASE state[u] # "running"
        BY <4>1, <4>3 DEF Closed
      <4> QED BY <4>2, <4>3
    <3>4. /\ Len(Append(Closed(u), "queued")) = Len(attempts[u]) + 1
          /\ \A i \in 1..(Len(attempts[u]) - 1) : Append(Closed(u), "queued")[i] = attempts[u][i]
      BY <1>0, <3>3, AppendProperties DEF AttemptState
    <3>5. attempts'[u] = Append(Closed(u), "queued") /\ state'[u] = "queued" /\ epoch' = epoch
      BY <1>0, <1>4, <2>2 DEF AdmitRecovery
    <3> QED BY <1>0, <3>1, <3>4, <3>5 DEF FrozenFor, Exists
  <2> QED BY <2>1, <2>2
<1>5. ASSUME Reap, NEW u \in Task PROVE FrozenFor(u)
  <2>1. CASE u \notin Expired
    BY <1>0, <1>1, <1>5, <2>1 DEF Reap
  <2>2. CASE u \in Expired
    <3>1. state[u] = "running" /\ Exists(u)
      BY <2>2 DEF Expired, Exists
    <3>2. current[u] = Len(attempts[u]) /\ current[u] \in 1..Len(attempts[u])
      BY <1>0, <3>1, LenProperties DEF Mirror, AttemptsMirrorTask, TypeOK
    <3>3. /\ attempts'[u] = [attempts[u] EXCEPT ![current[u]] = "recovery_needed"]
          /\ state'[u] = "recovery_needed" /\ epoch' = epoch
      BY <1>5, <2>2 DEF Reap, Interrupted, AttemptsAfter
    <3>4. "recovery_needed" \in AttemptState
      BY DEF AttemptState
    <3>5. /\ Len(attempts'[u]) = Len(attempts[u])
          /\ \A i \in 1..(Len(attempts[u]) - 1) : attempts'[u][i] = attempts[u][i]
      BY <1>0, <3>2, <3>3, <3>4, ExceptSeq
    <3> QED BY <1>0, <3>1, <3>3, <3>5 DEF FrozenFor, Settled, Exists
  <2> QED BY <2>1, <2>2
<1>6. ASSUME NEW w \in Worker, Claim(w) PROVE \A u \in Task : FrozenFor(u)
  <2>1. job[w] \in Task /\ Exists(job[w]) /\ state[job[w]] = "queued"
    BY <1>0, <1>6 DEF Claim, Claimable
  <2>2. \A u \in Task : epoch'[u] >= epoch[u]
    BY <1>0, <1>6, <2>1 DEF Claim
  <2> QED BY <1>6, <2>1, <2>2, EnterFrozen DEF Claim, AttemptState, Settled
<1>7. ASSUME NEW w \in Worker,
             \/ \E again \in BOOLEAN : FailQueued(w, again)
             \/ \E outcome \in Outcome, again \in BOOLEAN : Finish(w, outcome, again)
      PROVE  \A u \in Task : FrozenFor(u)
  <2>1. job[w] \in Task /\ Exists(job[w]) /\ state[job[w]] \notin Settled /\ epoch' = epoch
    BY <1>0, <1>7 DEF FailQueued, Finish, Settled
  <2>2. \E st \in AttemptState : Enter(job[w], st)
    BY <1>7 DEF FailQueued, Finish, FinalState, Outcome, AttemptState
  <2> QED BY <1>0, <2>1, <2>2, EnterFrozen
<1>8. CASE UNCHANGED <<state, attempts, epoch>>
  BY <1>1, <1>8
<1>9. StoreNext => \/ \E c \in Command : SubmitCommand(c)
                   \/ \E t \in Task : RequestCancel(t) \/ AdmitRecovery(t)
                   \/ Reap
                   \/ UNCHANGED <<state, attempts, epoch>>
  BY DEF StoreNext, SetPaused, Tick, Purge
<1>10. ASSUME NEW w \in Worker, WorkerNext(w) PROVE \A u \in Task : FrozenFor(u)
  BY <1>6, <1>7, <1>8, <1>10 DEF WorkerNext, Start, Admit, Leave, ClaimConflict, Look, BeginPublish,
                                 PublishExisting, PublishNew, FailSource
<1>11. CASE UNCHANGED vars
  BY <1>8, <1>11 DEF vars
<1> QED BY <1>2, <1>3, <1>4, <1>5, <1>8, <1>9, <1>10, <1>11 DEF Next

(* Earlier attempts keep what they ended with, a settled task stays so,    *)
(* and an epoch never goes back.                                           *)
THEOREM HistoryNeverChanges == Spec => HistoryIsFrozen
<1> DEFINE Frozen == \A t \in Task :
                        /\ \A i \in 1..(Len(attempts[t]) - 1) : attempts'[t][i] = attempts[t][i]
                        /\ Len(attempts'[t]) \in {Len(attempts[t]), Len(attempts[t]) + 1}
                        /\ state[t] \in Settled => state'[t] = state[t]
                        /\ epoch'[t] >= epoch[t]
<1>1. Init => Mirror /\ AbsentIsBlank
  BY DEF Init, Mirror, AttemptsMirrorTask, AbsentIsBlank, Exists
<1>2. TypeOK /\ Mirror /\ AbsentIsBlank /\ [Next]_vars => AbsentIsBlank'
  BY FrozenStep DEF FrozenFor, AbsentIsBlank
<1>3. TypeOK /\ Mirror /\ AbsentIsBlank /\ [Next]_vars => [Frozen]_vars
  BY FrozenStep DEF FrozenFor
<1> QED BY <1>1, <1>2, <1>3, TypeCorrect, MirrorStep, PTL DEF Spec, HistoryIsFrozen

-----------------------------------------------------------------------------
(* A task that does not exist has no attempt.                              *)
AbsentIsUnnumbered == \A t \in Task : ~Exists(t) => current[t] = 0

(* What the contract of attempts sees of the task a step gives a state.    *)
LEMMA EnterState ==
    ASSUME TypeOK, NEW t \in Task, NEW st \in AttemptState, Exists(t), Enter(t, st)
    PROVE  /\ StateOf(t)' = IF st \in {"queued", "running"} THEN st ELSE "over"
           /\ \A u \in Task : u # t => StateOf(u)' = StateOf(u)
<1>1. st # "absent" /\ state' = [state EXCEPT ![t] = st] /\ state \in [Task -> AttemptState \cup {"absent"}]
  BY DEF AttemptState, Enter, TypeOK
<1> QED BY <1>1 DEF StateOf, Exists

(* Who works on what, when a worker returns.                               *)
Record(w) == [by |-> w, task |-> job[w], attempt |-> heldAttempt[w]]

LEMMA WorkingLess ==
    ASSUME TypeOK, NEW w \in Worker, Return(w)
    PROVE  /\ phase[w] # "running" => UNCHANGED Working
           /\ phase[w] = "running" => Record(w) \in Working /\ Working' = Working \ {Record(w)}
<1> DEFINE Busy == {v \in Worker : phase[v] = "running"}
<1>1. Working = {Record(v) : v \in Busy} /\ Working' = {Record(v)' : v \in Busy'}
  BY DEF Working, Record
<1>2. Busy' = Busy \ {w} /\ \A v \in Busy' : Record(v)' = Record(v)
  BY DEF Return, Record, TypeOK
<1>3. \A v \in Worker : Record(v) = Record(w) => v = w
  BY DEF Record
<1> HIDE DEF Record
<1> QED BY <1>1, <1>2, <1>3

(* No step but the claim and the end of a run changes who works.           *)
LEMMA WorkingSame ==
    ASSUME NEW w \in Worker, phase[w] # "running", phase'[w] # "running",
           \A v \in Worker : v # w => UNCHANGED <<phase[v], job[v], heldAttempt[v]>>
    PROVE  UNCHANGED Working
<1> DEFINE Busy == {v \in Worker : phase[v] = "running"}
<1>1. Working = {Record(v) : v \in Busy} /\ Working' = {Record(v)' : v \in Busy'}
  BY DEF Working, Record
<1>2. Busy' = Busy /\ \A v \in Busy : Record(v)' = Record(v)
  BY DEF Record
<1> HIDE DEF Record
<1> QED BY <1>1, <1>2

(* Each transaction of the store and each step of a worker is one of the   *)
(* contract of attempts, or none.                                          *)
LEMMA StepIsOfLifecycle ==
    TypeOK /\ Mirror /\ AbsentIsUnnumbered /\ [Next]_vars => [Lifecycle!Next]_(Lifecycle!vars)
<1> DEFINE states == [t \in Task |-> StateOf(t)]
<1> SUFFICES ASSUME TypeOK, Mirror, AbsentIsUnnumbered, [Next]_vars
             PROVE  Lifecycle!Next \/ UNCHANGED <<states, current, Working>>
  BY DEF Lifecycle!vars
<1> USE DEF controlVars, taskVars, factVars, workerVars, storeVars
<1>0. /\ state \in [Task -> AttemptState \cup {"absent"}] /\ current \in [Task -> Nat]
      /\ \A w \in Worker : phase[w] # "idle" => job[w] \in Task /\ Exists(job[w])
  BY DEF TypeOK
<1>1. ASSUME UNCHANGED <<phase, job, heldAttempt>> PROVE UNCHANGED Working
  BY <1>1 DEF Working
<1>2. ASSUME NEW t \in Task, NEW st \in AttemptState, Exists(t), Enter(t, st)
      PROVE  states' = [states EXCEPT ![t] = IF st \in {"queued", "running"} THEN st ELSE "over"]
  BY <1>2, EnterState
<1>3. ASSUME NEW c \in Command, SubmitCommand(c) PROVE Lifecycle!Next
  <2>1. PICK t \in Task : /\ ~Exists(t) /\ state' = [state EXCEPT ![t] = "queued"]
                          /\ current' = [current EXCEPT ![t] = 1]
    BY <1>3 DEF SubmitCommand
  <2>2. states[t] = "none" /\ states' = [states EXCEPT ![t] = "queued"]
    BY <1>0, <2>1 DEF StateOf, Exists
  <2>3. current' = [current EXCEPT ![t] = current[t] + 1]
    <3>1. current[t] = 0
      BY <2>1 DEF AbsentIsUnnumbered
    <3>2. current[t] + 1 = 1
      BY <3>1
    <3> QED BY <2>1, <3>2
  <2>4. UNCHANGED Working
    BY <1>1, <1>3 DEF SubmitCommand
  <2>5. Lifecycle!Open(t)
    BY <2>2, <2>3, <2>4 DEF Lifecycle!Open, Lifecycle!Become
  <2> QED BY <2>5 DEF Lifecycle!Next
<1>4. ASSUME NEW t \in Task, AdmitRecovery(t) PROVE Lifecycle!Next
  <2>1. state[t] \in AttemptState \ {"queued"} /\ Exists(t)
    BY <1>0, <1>4 DEF AdmitRecovery, Recoverable, Exists, AttemptState
  <2>2. states[t] # "queued" /\ states' = [states EXCEPT ![t] = "queued"]
    BY <1>0, <1>4, <2>1 DEF AdmitRecovery, StateOf, Exists
  <2>3. current' = [current EXCEPT ![t] = current[t] + 1]
    BY <1>4, <2>1 DEF AdmitRecovery, Mirror, AttemptsMirrorTask
  <2>4. UNCHANGED Working
    BY <1>1, <1>4 DEF AdmitRecovery
  <2>5. Lifecycle!Open(t)
    BY <2>2, <2>3, <2>4 DEF Lifecycle!Open, Lifecycle!Become
  <2> QED BY <2>5 DEF Lifecycle!Next
<1>5. ASSUME NEW t \in Task, RequestCancel(t) PROVE Lifecycle!Next \/ UNCHANGED <<states, current, Working>>
  <2>1. UNCHANGED <<current, Working>> /\ Exists(t) /\ "cancelled" \in AttemptState
    BY <1>1, <1>5 DEF RequestCancel, AttemptState
  <2>2. CASE state[t] = "queued"
    <3>1. states[t] = "queued" /\ states' = [states EXCEPT ![t] = "over"]
      BY <1>2, <1>5, <2>1, <2>2 DEF RequestCancel, Interruptible, StateOf, Exists
    <3>2. Lifecycle!Withdraw(t)
      BY <2>1, <3>1 DEF Lifecycle!Withdraw, Lifecycle!Become
    <3> QED BY <3>2 DEF Lifecycle!Next
  <2>3. CASE state[t] # "queued" /\ state[t] \in Interruptible
    <3>1. states[t] = "over" /\ states' = [states EXCEPT ![t] = "over"]
      BY <1>2, <1>5, <2>1, <2>3 DEF RequestCancel, Interruptible, StateOf, Exists
    <3> QED BY <2>1, <3>1
  <2>4. CASE state[t] \notin Interruptible
    BY <1>5, <2>1, <2>4 DEF RequestCancel, StateOf, Exists
  <2> QED BY <2>2, <2>3, <2>4
<1>6. ASSUME Reap PROVE Lifecycle!Next
  <2>1. \A t \in Expired : states[t] = "running"
    BY DEF Expired, StateOf, Exists
  <2>2. states' = [t \in Task |-> IF t \in Expired THEN "over" ELSE states[t]]
    BY <1>0, <1>6 DEF Reap, Interrupted, StateOf, Exists
  <2>3. UNCHANGED <<current, Working>>
    BY <1>1, <1>6 DEF Reap
  <2>4. Lifecycle!Interrupt(Expired) /\ Expired \in SUBSET Task
    BY <2>1, <2>2, <2>3 DEF Lifecycle!Interrupt, Expired
  <2> QED BY <2>4 DEF Lifecycle!Next
<1>7. ASSUME UNCHANGED <<state, current, phase, job, heldAttempt>> PROVE UNCHANGED <<states, current, Working>>
  BY <1>1, <1>7 DEF StateOf, Exists
<1>8. ASSUME NEW w \in Worker, Claim(w) PROVE Lifecycle!Next
  <2>1. /\ job[w] \in Task /\ Exists(job[w]) /\ state[job[w]] = "queued"
        /\ current[job[w]] = heldAttempt[w] /\ phase[w] # "running"
        /\ "running" \in AttemptState
    BY <1>0, <1>8 DEF Claim, Claimable, AttemptState
  <2>2. states[job[w]] = "queued" /\ states' = [states EXCEPT ![job[w]] = "running"] /\ UNCHANGED current
    BY <1>2, <1>8, <2>1 DEF Claim, StateOf
  <2>3. Working' = Working \cup {Record(w)}
    <3> DEFINE Busy == {v \in Worker : phase[v] = "running"}
    <3>1. Working = {Record(v) : v \in Busy} /\ Working' = {Record(v)' : v \in Busy'}
      BY DEF Working, Record
    <3>2. Busy' = Busy \cup {w} /\ \A v \in Worker : Record(v)' = Record(v)
      BY <1>8 DEF Claim, Record, TypeOK
    <3> HIDE DEF Record
    <3> QED BY <3>1, <3>2
  <2>4. \A r \in Working : r.by # w
    BY <2>1 DEF Working
  <2>5. Lifecycle!Claim(w, job[w])
    BY <2>1, <2>2, <2>3, <2>4 DEF Lifecycle!Claim, Lifecycle!Become, Record
  <2> QED BY <2>1, <2>5 DEF Lifecycle!Next
<1>9. ASSUME NEW w \in Worker, NEW again \in BOOLEAN, FailQueued(w, again) PROVE Lifecycle!Next
  <2>1. job[w] \in Task /\ Exists(job[w]) /\ state[job[w]] = "queued" /\ "failed" \in AttemptState
    BY <1>0, <1>9 DEF FailQueued, AttemptState
  <2>2. states[job[w]] = "queued" /\ states' = [states EXCEPT ![job[w]] = "over"] /\ UNCHANGED current
    BY <1>2, <1>9, <2>1 DEF FailQueued, StateOf
  <2>3. UNCHANGED Working
    BY <1>9, WorkingLess DEF FailQueued
  <2>4. Lifecycle!Withdraw(job[w])
    BY <2>2, <2>3 DEF Lifecycle!Withdraw, Lifecycle!Become
  <2> QED BY <2>1, <2>4 DEF Lifecycle!Next
<1>10. ASSUME NEW w \in Worker, NEW outcome \in Outcome, NEW again \in BOOLEAN, Finish(w, outcome, again)
       PROVE  Lifecycle!Next
  <2>1. /\ job[w] \in Task /\ Exists(job[w]) /\ state[job[w]] = "running" /\ current[job[w]] = heldAttempt[w]
        /\ FinalState(job[w], outcome) \in AttemptState \ {"queued", "running"}
    BY <1>0, <1>10 DEF Finish, FinalState, Outcome, AttemptState
  <2>2. states[job[w]] = "running" /\ states' = [states EXCEPT ![job[w]] = "over"] /\ UNCHANGED current
    BY <1>2, <1>10, <2>1 DEF Finish, StateOf
  <2>3. Record(w) \in Working /\ Working' = Working \ {Record(w)}
    BY <1>10, WorkingLess DEF Finish
  <2>4. Lifecycle!Settle(Record(w))
    BY <2>1, <2>2, <2>3 DEF Lifecycle!Settle, Lifecycle!Become, Lifecycle!Current, Record
  <2> QED BY <2>3, <2>4 DEF Lifecycle!Next
<1>11. ASSUME NEW w \in Worker, Leave(w) \/ ClaimConflict(w)
       PROVE  Lifecycle!Next \/ UNCHANGED <<states, current, Working>>
  <2>1. Return(w) /\ UNCHANGED <<states, current>>
    BY <1>11 DEF Leave, ClaimConflict, StateOf, Exists
  <2>2. CASE phase[w] = "running"
    <3>1. Record(w) \in Working /\ Lifecycle!Abandon(Record(w))
      BY <2>1, <2>2, WorkingLess DEF Lifecycle!Abandon
    <3> QED BY <3>1 DEF Lifecycle!Next
  <2>3. CASE phase[w] # "running"
    BY <2>1, <2>3, WorkingLess
  <2> QED BY <2>2, <2>3
<1>12. ASSUME NEW w \in Worker, Admit(w) \/ \E t \in Task : Start(w, t)
       PROVE  UNCHANGED <<states, current, Working>>
  <2>1. UNCHANGED <<states, current>>
    BY <1>12 DEF Admit, Start, StateOf, Exists
  <2>2. UNCHANGED Working
    BY <1>12, WorkingSame DEF Admit, Start, TypeOK
  <2> QED BY <2>1, <2>2
<1>13. ASSUME NEW w \in Worker, WorkerNext(w) PROVE Lifecycle!Next \/ UNCHANGED <<states, current, Working>>
  <2>1. ASSUME NEW s \in Source, Look(w, s) \/ BeginPublish(w, s) \/ PublishExisting(w, s)
                                  \/ PublishNew(w, s) \/ FailSource(w, s)
        PROVE  UNCHANGED <<state, current, phase, job, heldAttempt>>
    BY <2>1 DEF Look, BeginPublish, PublishExisting, FindCommitted, PublishNew, FailSource, StepTo
  <2> HIDE DEF states
  <2> QED BY <1>7, <1>8, <1>9, <1>10, <1>11, <1>12, <1>13, <2>1 DEF WorkerNext
<1>14. ASSUME StoreNext PROVE Lifecycle!Next \/ UNCHANGED <<states, current, Working>>
  <2>1. \/ \E c \in Command : SubmitCommand(c)
        \/ \E t \in Task : RequestCancel(t) \/ AdmitRecovery(t)
        \/ Reap
        \/ UNCHANGED <<state, current, phase, job, heldAttempt>>
    BY <1>14 DEF StoreNext, SetPaused, Tick, Purge
  <2> HIDE DEF states
  <2> QED BY <1>3, <1>4, <1>5, <1>6, <1>7, <2>1
<1>15. CASE UNCHANGED vars
  BY <1>7, <1>15 DEF vars
<1> HIDE DEF states
<1> QED BY <1>13, <1>14, <1>15 DEF Next

LEMMA UnnumberedStep == TypeOK /\ AbsentIsUnnumbered /\ [Next]_vars => AbsentIsUnnumbered'
<1> SUFFICES ASSUME TypeOK, AbsentIsUnnumbered, [Next]_vars, NEW u \in Task, ~Exists(u)' PROVE current'[u] = 0
  BY DEF AbsentIsUnnumbered
<1> USE DEF controlVars, taskVars, factVars, workerVars, storeVars
<1>0. /\ state \in [Task -> AttemptState \cup {"absent"}] /\ current \in [Task -> Nat]
      /\ \A w \in Worker : phase[w] # "idle" => job[w] \in Task /\ Exists(job[w])
  BY DEF TypeOK
<1>1. ASSUME UNCHANGED current, ~Exists(u) PROVE current'[u] = 0
  BY <1>1 DEF AbsentIsUnnumbered
<1>2. ASSUME NEW c \in Command, SubmitCommand(c) PROVE current'[u] = 0
  BY <1>0, <1>2 DEF SubmitCommand, AbsentIsUnnumbered, Exists
<1>3. ASSUME NEW t \in Task, AdmitRecovery(t) PROVE current'[u] = 0
  BY <1>0, <1>3 DEF AdmitRecovery, AbsentIsUnnumbered, Exists
<1>4. ASSUME NEW t \in Task, NEW st \in AttemptState, Exists(t), Enter(t, st) PROVE ~Exists(u)
  BY <1>4 DEF Enter, Exists, AttemptState, TypeOK
<1>5. ASSUME NEW t \in Task, RequestCancel(t) PROVE current'[u] = 0
  BY <1>1, <1>4, <1>5 DEF RequestCancel, AttemptState, Exists
<1>6. ASSUME Reap PROVE current'[u] = 0
  BY <1>0, <1>1, <1>6 DEF Reap, Expired, Exists, Interrupted
<1>7. ASSUME UNCHANGED <<state, current>> PROVE current'[u] = 0
  BY <1>1, <1>7 DEF Exists
<1>8. ASSUME NEW w \in Worker, WorkerNext(w) PROVE current'[u] = 0
  <2>1. CASE Claim(w)
    BY <1>0, <1>1, <1>4, <2>1 DEF Claim, AttemptState
  <2>2. ASSUME NEW again \in BOOLEAN, FailQueued(w, again) PROVE current'[u] = 0
    BY <1>0, <1>1, <1>4, <2>2 DEF FailQueued, AttemptState
  <2>3. ASSUME NEW outcome \in Outcome, NEW again \in BOOLEAN, Finish(w, outcome, again) PROVE current'[u] = 0
    BY <1>0, <1>1, <1>4, <2>3 DEF Finish, FinalState, Outcome, AttemptState
  <2> QED BY <1>7, <1>8, <2>1, <2>2, <2>3
        DEF WorkerNext, Start, Admit, Leave, ClaimConflict, Look, BeginPublish, PublishExisting, PublishNew, FailSource
<1> QED BY <1>2, <1>3, <1>5, <1>6, <1>7, <1>8 DEF Next, StoreNext, SetPaused, Tick, Purge, vars

(* The store and its workers keep the contract of attempts, whatever       *)
(* leases run out, whoever dies, and in whatever order claims, results,    *)
(* cancellations and recoveries come.                                      *)
THEOREM KeepsLifecycle == Spec => LifecycleSpec
<1>1. Init => Mirror /\ AbsentIsUnnumbered
  BY DEF Init, Mirror, AttemptsMirrorTask, AbsentIsUnnumbered, Exists
<1>2. Init => Lifecycle!Init
  BY DEF Init, StateOf, Exists, Working, Lifecycle!Init
<1> QED BY TypeCorrect, MirrorStep, UnnumberedStep, StepIsOfLifecycle, <1>1, <1>2, PTL
        DEF Spec, LifecycleSpec, Lifecycle!Spec
=============================================================================
