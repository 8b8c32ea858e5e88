------------------------- MODULE IngestFactsProofs -------------------------
(***************************************************************************)
(* Theorems about the facts the ingest store publishes: the heads, the     *)
(* history of a source and the request to the materializer, for any sets   *)
(* of tasks, workers, sources and commands and any bounds.                 *)
(***************************************************************************)
EXTENDS IngestStoreProofs

(* Only a publication and a purge change the facts.                        *)
LEMMA FactSteps ==
    ASSUME [Next]_vars
    PROVE  \/ \E w \in Worker, s \in Source : PublishNew(w, s)
           \/ \E s \in Source : Purge(s)
           \/ UNCHANGED factVars
<1> USE DEF controlVars, taskVars, workerVars, storeVars
<1>1. StoreNext => UNCHANGED factVars \/ \E s \in Source : Purge(s)
  BY DEF StoreNext, SubmitCommand, SetPaused, RequestCancel, AdmitRecovery, Tick, Reap
<1>2. ASSUME NEW w \in Worker, WorkerNext(w)
      PROVE  UNCHANGED factVars \/ \E s \in Source : PublishNew(w, s)
  BY <1>2 DEF WorkerNext, Start, Admit, Leave, Claim, ClaimConflict, FailQueued, Look, BeginPublish,
              PublishExisting, FailSource, Finish
<1>3. CASE UNCHANGED vars
  BY <1>3 DEF vars
<1> QED BY <1>1, <1>2, <1>3 DEF Next

-----------------------------------------------------------------------------
(* The heads and the histories.  They are inductive once no revision and   *)
(* no head carries an id that was not given out yet: the id a publication  *)
(* takes is then above all others, so what it puts on top is the newest.   *)

IdsGivenOut ==
    /\ \A r \in rows : r.id \in 1..published
    /\ \A s \in Source : head[s] <= published
FactsInv == IdsGivenOut /\ HeadIsNewest /\ LinearHistory

(* A revision that is published becomes the head on top of the last head.  *)
LEMMA PublishKeepsFacts ==
    ASSUME TypeOK, FactsInv, NEW w \in Worker, NEW s \in Source, PublishNew(w, s)
    PROVE  FactsInv'
<1> DEFINE new == NewRevision(w, s)
<1>0. /\ published \in Nat /\ head \in [Source -> Nat] /\ active \in [Source -> SUBSET Nat]
      /\ base \in [Worker -> [Source -> Nat]]
      /\ \A r \in rows : r.id \in Nat
  BY DEF TypeOK, Revision
<1>1. /\ rows' = rows \cup {new} /\ published' = published + 1
      /\ head' = [head EXCEPT ![s] = published + 1]
      /\ active' = [active EXCEPT ![s] = (active[s] \ {head[s]}) \cup {published + 1}]
      /\ \A r \in RowsOf(s) : r.key # new.key
  BY DEF PublishNew, Superseded, Committed, NewRevision
<1>2. new.id = published + 1 /\ new.source = s /\ new.on = head[s]
  BY DEF PublishNew, HeadUnchanged, NewRevision
<1>3. /\ \A r \in rows : r.id <= published
      /\ \A u \in Source : head[u] <= published
  BY <1>0 DEF FactsInv, IdsGivenOut
<1>4. /\ RowsOf(s)' = RowsOf(s) \cup {new}
      /\ \A u \in Source \ {s} : RowsOf(u)' = RowsOf(u)
  BY <1>1, <1>2 DEF RowsOf
<1>5. IdsGivenOut'
  BY <1>0, <1>1, <1>2, <1>3 DEF FactsInv, IdsGivenOut
<1>6. RowsOf(s) \subseteq rows
  BY DEF RowsOf
<1>7. active'[s] = {published + 1} /\ head'[s] = published + 1
  BY <1>0, <1>1 DEF FactsInv, HeadIsNewest
<1>8. \A u \in Source \ {s} : head'[u] = head[u] /\ active'[u] = active[u]
  BY <1>0, <1>1
<1>9. HeadIsNewest'
  <2>1. \A r \in RowsOf(s)' : r.id <= published + 1
    BY <1>0, <1>2, <1>3, <1>4, <1>6
  <2>2. \E r \in RowsOf(s)' : r.id = published + 1
    BY <1>2, <1>4
  <2>3. published + 1 # 0
    BY <1>0
  <2>4. RequestCoversFacts'
    BY DEF PublishNew, RequestMaterialization, RequestCoversFacts
  <2> QED BY <1>4, <1>7, <1>8, <2>1, <2>2, <2>3, <2>4 DEF FactsInv, HeadIsNewest
<1>10. LinearHistory'
  <2> DEFINE Rooted(R, r) == r.on = 0 /\ \A q \in R : q.id >= r.id
             Linked(R, r) == /\ \E q \in R : q.id = r.on
                             /\ r.on < r.id
                             /\ \A q \in R : q.id <= r.on \/ q.id >= r.id
             Unique(R, r) == \A q \in R : q.key = r.key => q = r
  <2> DEFINE R == RowsOf(s)
             New == R \cup {new}
  <2>1. \A r \in R : r.id \in Nat /\ r.id <= published
    BY <1>0, <1>3, <1>6
  <2>2. \A r \in R : (Rooted(R, r) \/ Linked(R, r)) /\ Unique(R, r)
    BY DEF FactsInv, LinearHistory
  <2>3. ASSUME NEW r \in R PROVE (Rooted(New, r) \/ Linked(New, r)) /\ Unique(New, r)
    <3>1. new.id >= r.id
      BY <1>0, <1>2, <2>1
    <3>2. Rooted(R, r) => Rooted(New, r)
      BY <3>1
    <3>3. Linked(R, r) => Linked(New, r)
      BY <3>1
    <3>4. Unique(New, r)
      BY <1>1, <2>2
    <3> QED BY <2>2, <3>2, <3>3, <3>4
  <2>4. Unique(New, new)
    BY <1>1
  <2>5. CASE head[s] = 0
    <3>1. R = {}
      BY <2>5 DEF FactsInv, HeadIsNewest
    <3>2. Rooted(New, new)
      BY <1>0, <1>2, <2>5, <3>1
    <3> QED BY <1>4, <2>3, <2>4, <3>2 DEF FactsInv, LinearHistory
  <2>6. CASE head[s] # 0
    <3>1. (\E q \in R : q.id = head[s]) /\ \A q \in R : q.id <= head[s]
      BY <2>6 DEF FactsInv, HeadIsNewest
    <3>2. Linked(New, new)
      BY <1>0, <1>2, <1>3, <3>1
    <3> QED BY <1>4, <2>3, <2>4, <3>2 DEF FactsInv, LinearHistory
  <2> QED BY <2>5, <2>6
<1> QED BY <1>5, <1>9, <1>10 DEF FactsInv

(* A purge leaves nothing of its source and disturbs no other.             *)
LEMMA PurgeKeepsFacts ==
    ASSUME TypeOK, FactsInv, NEW s \in Source, Purge(s)
    PROVE  FactsInv'
<1>0. /\ published \in Nat /\ head \in [Source -> Nat] /\ active \in [Source -> SUBSET Nat]
  BY DEF TypeOK
<1>1. /\ RowsOf(s)' = {}
      /\ \A u \in Source \ {s} : RowsOf(u)' = RowsOf(u)
      /\ rows' \subseteq rows
  BY DEF Purge, RowsOf
<1>2. /\ head'[s] = 0 /\ active'[s] = {} /\ published' = published
      /\ \A u \in Source \ {s} : head'[u] = head[u] /\ active'[u] = active[u]
  BY <1>0 DEF Purge
<1>3. IdsGivenOut'
  BY <1>0, <1>1, <1>2 DEF FactsInv, IdsGivenOut
<1>4. HeadIsNewest'
  <2>1. RequestCoversFacts'
    BY DEF Purge, RequestMaterialization, RequestCoversFacts
  <2> QED BY <1>1, <1>2, <2>1 DEF FactsInv, HeadIsNewest
<1>5. LinearHistory'
  BY <1>1 DEF FactsInv, LinearHistory
<1> QED BY <1>3, <1>4, <1>5 DEF FactsInv

LEMMA FactsStep == TypeOK /\ FactsInv /\ [Next]_vars => FactsInv'
<1> SUFFICES ASSUME TypeOK, FactsInv, [Next]_vars PROVE FactsInv'
  OBVIOUS
<1>1. CASE UNCHANGED factVars
  BY <1>1 DEF FactsInv, IdsGivenOut, HeadIsNewest, RequestCoversFacts, LinearHistory, RowsOf, factVars
<1> QED BY <1>1, FactSteps, PublishKeepsFacts, PurgeKeepsFacts

LEMMA FactsInit == Init => FactsInv
BY DEF Init, FactsInv, IdsGivenOut, HeadIsNewest, RequestCoversFacts, LinearHistory, RowsOf

(* The head of a source is its newest revision, alone contributes entities *)
(* and is what the materializer was asked to follow, whatever the          *)
(* publications and purges that competed for it.                           *)
THEOREM HeadAlwaysNewest == Spec => []HeadIsNewest
<1>1. FactsInv => HeadIsNewest
  BY DEF FactsInv
<1> QED BY <1>1, FactsInit, FactsStep, TypeCorrect, PTL DEF Spec

(* Competing publications never fork the history of a source, never leave  *)
(* a gap in it and never commit one input twice.                           *)
THEOREM HistoryIsLinear == Spec => []LinearHistory
<1>1. FactsInv => LinearHistory
  BY DEF FactsInv
<1> QED BY <1>1, FactsInit, FactsStep, TypeCorrect, PTL DEF Spec

-----------------------------------------------------------------------------
(* Completed tasks.  What a worker counts as done is committed, whoever    *)
(* committed it, and stays so until its source is purged; a task completes *)
(* only by the finish of a worker that has counted every source.           *)

DoneIsCommitted ==
    \A w \in Worker : \A s \in Source \ purged :
        phase[w] = "running" /\ step[w][s] = "done" => Committed(job[w], s)

LEMMA CommandStays ==
    ASSUME TypeOK, [Next]_vars, NEW t \in Task, Exists(t)
    PROVE  command'[t] = command[t]
<1> USE DEF controlVars, taskVars, factVars, workerVars, storeVars
<1>1. ASSUME NEW c \in Command, SubmitCommand(c) PROVE command'[t] = command[t]
  BY <1>1 DEF SubmitCommand, TypeOK
<1>2. StoreNext => command' = command \/ \E c \in Command : SubmitCommand(c)
  BY DEF StoreNext, SetPaused, RequestCancel, AdmitRecovery, Tick, Reap, Purge
<1>3. ASSUME NEW w \in Worker, WorkerNext(w) PROVE command' = command
  BY <1>3 DEF WorkerNext, Start, Admit, Leave, Claim, ClaimConflict, FailQueued, Look, BeginPublish,
              PublishExisting, PublishNew, FailSource, Finish
<1>4. CASE UNCHANGED vars
  BY <1>4 DEF vars
<1> QED BY <1>1, <1>2, <1>3, <1>4 DEF Next

LEMMA CommittedStays ==
    ASSUME TypeOK, [Next]_vars, NEW t \in Task, Exists(t), NEW s \in Source \ purged'
    PROVE  /\ s \notin purged /\ KeyOf(t, s)' = KeyOf(t, s)
           /\ Committed(t, s) => Committed(t, s)'
<1>1. KeyOf(t, s)' = KeyOf(t, s)
  BY CommandStays DEF KeyOf
<1>2. s \notin purged /\ RowsOf(s) \subseteq RowsOf(s)'
  <2>1. ASSUME NEW u \in Source, Purge(u) PROVE s \notin purged /\ RowsOf(s) \subseteq RowsOf(s)'
    BY <2>1 DEF Purge, RowsOf
  <2>2. ASSUME NEW w \in Worker, NEW u \in Source, PublishNew(w, u)
        PROVE  s \notin purged /\ RowsOf(s) \subseteq RowsOf(s)'
    BY <2>2 DEF PublishNew, RowsOf
  <2>3. CASE UNCHANGED factVars
    BY <2>3 DEF factVars, RowsOf
  <2> QED BY <2>1, <2>2, <2>3, FactSteps
<1> QED BY <1>1, <1>2 DEF Committed

LEMMA DoneStep == TypeOK /\ DoneIsCommitted /\ [Next]_vars => DoneIsCommitted'
<1> SUFFICES ASSUME TypeOK, DoneIsCommitted, [Next]_vars, NEW v \in Worker, NEW s \in Source \ purged',
                    phase'[v] = "running", step'[v][s] = "done"
             PROVE  Committed(job[v], s)'
  BY DEF DoneIsCommitted
<1> USE DEF controlVars, taskVars, factVars, workerVars, storeVars
<1>0. /\ phase \in [Worker -> {"idle", "admitting", "admitted", "running"}]
      /\ job \in [Worker -> Task \cup {NoTask}] /\ step \in [Worker -> [Source -> Step]]
      /\ s \in Source
  BY DEF TypeOK
<1>1. phase[v] = "running" => job[v] \in Task /\ Exists(job[v])
  BY DEF TypeOK
<1>2. CASE phase[v] = "running" /\ job'[v] = job[v] /\ step[v][s] = "done"
  <2>1. Committed(job[v], s)
    BY <1>1, <1>2, CommittedStays DEF DoneIsCommitted
  <2> QED BY <1>1, <1>2, <2>1, CommittedStays DEF Committed, KeyOf, RowsOf
<1>3. ASSUME NEW w \in Worker, NEW u \in Source,
             Look(w, u) \/ PublishExisting(w, u)
      PROVE  \/ phase[v] = "running" /\ job'[v] = job[v] /\ step[v][s] = "done"
             \/ phase[v] = "running" /\ job'[v] = job[v] /\ Committed(job[v], s)
  BY <1>0, <1>3 DEF Look, PublishExisting, FindCommitted, At, StepTo
<1>4. ASSUME NEW w \in Worker, NEW u \in Source, PublishNew(w, u)
      PROVE  \/ phase[v] = "running" /\ job'[v] = job[v] /\ step[v][s] = "done"
             \/ Committed(job[v], s)'
  <2>1. CASE v = w /\ s = u
    <3>1. rows' = rows \cup {NewRevision(v, s)} /\ job' = job /\ command' = command
      BY <1>4, <2>1 DEF PublishNew, StepTo
    <3>2. NewRevision(v, s).source = s /\ NewRevision(v, s).key = KeyOf(job[v], s)
      BY DEF NewRevision
    <3>3. NewRevision(v, s) \in RowsOf(s)'
      BY <3>1, <3>2 DEF RowsOf
    <3>4. KeyOf(job[v], s)' = KeyOf(job[v], s)
      BY <3>1 DEF KeyOf
    <3>5. \E r \in RowsOf(s)' : r.key = KeyOf(job[v], s)'
      BY <3>2, <3>3, <3>4
    <3> QED BY <3>5 DEF Committed
  <2>2. CASE v # w \/ s # u
    BY <1>0, <1>4, <2>2 DEF PublishNew, At, StepTo
  <2> QED BY <2>1, <2>2
<1>5. ASSUME NEW w \in Worker, NEW u \in Source, BeginPublish(w, u) \/ FailSource(w, u)
      PROVE  phase[v] = "running" /\ job'[v] = job[v] /\ step[v][s] = "done"
  BY <1>0, <1>5 DEF BeginPublish, FailSource, At, StepTo
<1>6. ASSUME NEW w \in Worker, Claim(w)
      PROVE  phase[v] = "running" /\ job'[v] = job[v] /\ step[v][s] = "done"
  BY <1>0, <1>6 DEF Claim
<1>7. ASSUME NEW w \in Worker,
             \/ Return(w) \/ Admit(w) \/ \E t \in Task : Start(w, t)
      PROVE  phase[v] = "running" /\ job'[v] = job[v] /\ step[v][s] = "done"
  BY <1>0, <1>7 DEF Return, Admit, Start
<1>8. ASSUME NEW w \in Worker,
             \/ Leave(w) \/ ClaimConflict(w) \/ (\E again \in BOOLEAN : FailQueued(w, again))
             \/ (\E outcome \in Outcome, again \in BOOLEAN : Finish(w, outcome, again))
      PROVE  Return(w)
  BY <1>8 DEF Leave, ClaimConflict, FailQueued, Finish
<1>9. StoreNext \/ UNCHANGED vars => UNCHANGED workerVars
  BY DEF StoreNext, SubmitCommand, SetPaused, RequestCancel, AdmitRecovery, Tick, Reap, Purge, vars
<1>10. CASE phase[v] = "running" /\ job'[v] = job[v] /\ Committed(job[v], s)
  BY <1>1, <1>10, CommittedStays DEF Committed, KeyOf, RowsOf
<1>11. ASSUME NEW w \in Worker, WorkerNext(w) PROVE Committed(job[v], s)'
  BY <1>2, <1>3, <1>4, <1>5, <1>6, <1>7, <1>8, <1>10, <1>11 DEF WorkerNext
<1>12. CASE UNCHANGED workerVars
  BY <1>2, <1>12
<1> QED BY <1>9, <1>11, <1>12 DEF Next

LEMMA OnlyFinishCompletes ==
    ASSUME TypeOK, [Next]_vars, NEW t \in Task, state'[t] = "completed", state[t] # "completed"
    PROVE  \E w \in Worker, again \in BOOLEAN : Finish(w, "completed", again) /\ job[w] = t
<1> USE DEF controlVars, taskVars, factVars, workerVars, storeVars
<1>0. state \in [Task -> AttemptState \cup {"absent"}]
  BY DEF TypeOK
<1>1. ~StoreNext
  <2>1. ASSUME NEW c \in Command PROVE ~SubmitCommand(c)
    BY <1>0 DEF SubmitCommand
  <2>2. ASSUME NEW u \in Task PROVE ~RequestCancel(u) /\ ~AdmitRecovery(u)
    BY <1>0 DEF RequestCancel, AdmitRecovery, Enter
  <2>3. ~Reap
    BY <1>0 DEF Reap, Interrupted
  <2> QED BY <2>1, <2>2, <2>3 DEF StoreNext, SetPaused, Tick, Purge
<1>2. PICK w \in Worker : WorkerNext(w)
  BY <1>1 DEF Next, vars
<1>3. ~Claim(w) /\ \A again \in BOOLEAN : ~FailQueued(w, again)
  BY <1>0 DEF Claim, FailQueued, Enter
<1>4. PICK outcome \in Outcome, again \in BOOLEAN : Finish(w, outcome, again)
  BY <1>2, <1>3 DEF WorkerNext, Start, Admit, Leave, ClaimConflict, Look, BeginPublish, PublishExisting,
                   PublishNew, FailSource
<1>5. job[w] = t /\ outcome = "completed"
  BY <1>0, <1>4 DEF Finish, Enter, FinalState
<1> QED BY <1>4, <1>5

(* A completed task left no source of its command behind, not one it       *)
(* skipped because another task had committed it and not one that failed,  *)
(* unless the source was purged.                                           *)
THEOREM CompletedLeavesNothing == Spec => []CompletedIsCommitted
<1>1. Init => DoneIsCommitted /\ CompletedIsCommitted
  BY DEF Init, DoneIsCommitted, CompletedIsCommitted
<1>2. ASSUME TypeOK, DoneIsCommitted, CompletedIsCommitted, [Next]_vars PROVE CompletedIsCommitted'
  <2> SUFFICES ASSUME NEW t \in Task, state'[t] = "completed", NEW s \in InputsOf(t)' \ purged'
               PROVE  Committed(t, s)'
    BY DEF CompletedIsCommitted
  <2>1. s \in Source \ purged'
    BY DEF InputsOf
  <2>2. CASE state[t] = "completed"
    <3>1. Exists(t)
      BY <2>2 DEF Exists
    <3>2. s \in InputsOf(t) \ purged
      BY <2>1, <3>1, <1>2, CommittedStays DEF InputsOf
    <3> QED BY <1>2, <2>1, <2>2, <3>1, <3>2, CommittedStays DEF CompletedIsCommitted
  <2>3. CASE state[t] # "completed"
    <3>1. PICK w \in Worker, again \in BOOLEAN : Finish(w, "completed", again) /\ job[w] = t
      BY <1>2, <2>3, OnlyFinishCompletes
    <3>2. Exists(t) /\ phase[w] = "running"
      BY <3>1 DEF Finish, Exists
    <3>3. s \in InputsOf(t) \ purged
      BY <1>2, <2>1, <3>2, CommittedStays DEF InputsOf
    <3>4. step[w][s] = "done"
      BY <3>1, <3>3 DEF Finish, Ended
    <3>5. Committed(t, s)
      BY <1>2, <2>1, <3>1, <3>2, <3>3, <3>4 DEF DoneIsCommitted
    <3> QED BY <1>2, <2>1, <3>2, <3>5, CommittedStays
  <2> QED BY <2>2, <2>3
<1> QED BY <1>1, <1>2, DoneStep, TypeCorrect, PTL DEF Spec

-----------------------------------------------------------------------------
(* The store implements fenced publication.  A worker starts to hold a     *)
(* task by a claim only; every other step leaves or empties the writers.   *)

AnyClaim == \E w \in Worker : Claim(w)

LEMMA OnlyClaimGrants ==
    ASSUME TypeOK, [Next]_vars, ~AnyClaim
    PROVE  \A t \in Task : Writers(t)' \subseteq Writers(t)
<1> USE DEF controlVars, taskVars, factVars, workerVars, storeVars
<1>0. /\ phase \in [Worker -> {"idle", "admitting", "admitted", "running"}]
      /\ job \in [Worker -> Task \cup {NoTask}]
      /\ heldAttempt \in [Worker -> Nat] /\ heldEpoch \in [Worker -> Nat]
      /\ state \in [Task -> AttemptState \cup {"absent"}]
      /\ current \in [Task -> Nat] /\ cancel \in [Task -> BOOLEAN] /\ epoch \in [Task -> Nat]
      /\ \A w \in Worker : phase[w] # "idle" => job[w] \in Task
  BY DEF TypeOK
<1>1. CASE UNCHANGED <<phase, job, heldAttempt, heldEpoch, state, current, cancel, epoch>>
  BY <1>1 DEF Writers, Owns
<1>2. ASSUME NEW c \in Command, SubmitCommand(c) PROVE \A t \in Task : Writers(t)' \subseteq Writers(t)
  BY <1>0, <1>2 DEF SubmitCommand, Writers, Owns, Exists
<1>3. ASSUME NEW u \in Task, RequestCancel(u) PROVE \A t \in Task : Writers(t)' \subseteq Writers(t)
  BY <1>0, <1>3 DEF RequestCancel, Enter, Writers, Owns
<1>4. ASSUME NEW u \in Task, AdmitRecovery(u) PROVE \A t \in Task : Writers(t)' \subseteq Writers(t)
  BY <1>0, <1>4 DEF AdmitRecovery, Writers, Owns
<1>5. CASE Reap
  BY <1>0, <1>5 DEF Reap, Interrupted, Writers, Owns
<1>6. StoreNext => \/ \E c \in Command : SubmitCommand(c)
                   \/ \E t \in Task : RequestCancel(t) \/ AdmitRecovery(t)
                   \/ Reap
                   \/ UNCHANGED <<phase, job, heldAttempt, heldEpoch, state, current, cancel, epoch>>
  BY DEF StoreNext, SetPaused, Tick, Purge
<1>7. ASSUME NEW w \in Worker, Return(w),
             UNCHANGED <<current, cancel, epoch>>,
             \A t \in Task : state'[t] = "running" => state[t] = "running"
      PROVE  \A t \in Task : Writers(t)' \subseteq Writers(t)
  BY <1>0, <1>7 DEF Return, Writers, Owns
<1>8. ASSUME NEW w \in Worker, NEW t \in Task, Start(w, t)
      PROVE  \A u \in Task : Writers(u)' \subseteq Writers(u)
  BY <1>0, <1>8 DEF Start, Writers, Owns
<1>9. ASSUME NEW w \in Worker, Admit(w) PROVE \A t \in Task : Writers(t)' \subseteq Writers(t)
  BY <1>0, <1>9 DEF Admit, Writers, Owns
<1>10. ASSUME NEW w \in Worker,
              \/ Leave(w) \/ ClaimConflict(w) \/ (\E again \in BOOLEAN : FailQueued(w, again))
              \/ (\E outcome \in Outcome, again \in BOOLEAN : Finish(w, outcome, again))
       PROVE  /\ Return(w) /\ UNCHANGED <<current, cancel, epoch>>
              /\ \A t \in Task : state'[t] = "running" => state[t] = "running"
  <2>1. CASE Leave(w) \/ ClaimConflict(w)
    BY <2>1 DEF Leave, ClaimConflict
  <2>2. ASSUME NEW again \in BOOLEAN, FailQueued(w, again)
        PROVE  /\ Return(w) /\ UNCHANGED <<current, cancel, epoch>>
               /\ \A t \in Task : state'[t] = "running" => state[t] = "running"
    BY <1>0, <2>2 DEF FailQueued, Enter
  <2>3. ASSUME NEW outcome \in Outcome, NEW again \in BOOLEAN, Finish(w, outcome, again)
        PROVE  /\ Return(w) /\ UNCHANGED <<current, cancel, epoch>>
               /\ \A t \in Task : state'[t] = "running" => state[t] = "running"
    BY <1>0, <2>3 DEF Finish, Enter, FinalState
  <2> QED BY <1>10, <2>1, <2>2, <2>3
<1>11. ASSUME NEW w \in Worker, NEW s \in Source,
              \/ Look(w, s) \/ BeginPublish(w, s) \/ PublishExisting(w, s)
              \/ PublishNew(w, s) \/ FailSource(w, s)
       PROVE  UNCHANGED <<phase, job, heldAttempt, heldEpoch, state, current, cancel, epoch>>
  BY <1>11 DEF Look, BeginPublish, PublishExisting, FindCommitted, PublishNew, FailSource, StepTo
<1>12. ASSUME NEW w \in Worker, WorkerNext(w) PROVE \A t \in Task : Writers(t)' \subseteq Writers(t)
  BY <1>1, <1>7, <1>8, <1>9, <1>10, <1>11, <1>12 DEF WorkerNext, AnyClaim
<1>13. CASE UNCHANGED vars
  BY <1>1, <1>13 DEF vars
<1> QED BY <1>1, <1>2, <1>3, <1>4, <1>5, <1>6, <1>12, <1>13 DEF Next

(* A claim gives a task that nobody held to the claiming worker alone.     *)
LEMMA ClaimGrants ==
    ASSUME TypeOK, TokensDistinct, NEW w \in Worker, Claim(w)
    PROVE  /\ Writers(job[w]) = {} /\ Writers(job[w])' = {w}
           /\ \A t \in Task : t # job[w] => Writers(t)' = Writers(t)
           /\ UNCHANGED factVars
<1>0. /\ phase \in [Worker -> {"idle", "admitting", "admitted", "running"}]
      /\ heldAttempt \in [Worker -> Nat] /\ heldEpoch \in [Worker -> Nat]
      /\ state \in [Task -> AttemptState \cup {"absent"}]
      /\ epoch \in [Task -> Nat] /\ cancel \in [Task -> BOOLEAN]
      /\ phase[w] = "admitted" /\ job[w] \in Task
  BY DEF TypeOK, Claim
<1>1. /\ state[job[w]] = "queued" /\ ~cancel[job[w]] /\ current[job[w]] = heldAttempt[w]
      /\ state' = [state EXCEPT ![job[w]] = "running"]
      /\ epoch' = [epoch EXCEPT ![job[w]] = epoch[job[w]] + 1]
      /\ phase' = [phase EXCEPT ![w] = "running"]
      /\ heldEpoch' = [heldEpoch EXCEPT ![w] = epoch[job[w]] + 1]
      /\ UNCHANGED <<current, cancel, job, heldAttempt>>
  BY DEF Claim, Claimable, Enter
<1>2. Writers(job[w]) = {}
  BY <1>1 DEF Writers, Owns
<1>3. w \in Writers(job[w])'
  BY <1>0, <1>1 DEF Writers, Owns
<1>4. ASSUME NEW v \in Worker, v # w PROVE v \notin Writers(job[w])'
  <2>1. phase[v] = "running" /\ job[v] = job[w] => heldEpoch[v] <= epoch[job[w]]
    BY DEF TokensDistinct
  <2> QED BY <1>0, <1>1, <1>4, <2>1 DEF Writers, Owns
<1>5. Writers(job[w])' = {w}
  <2>1. Writers(job[w])' \subseteq Worker
    BY DEF Writers
  <2> QED BY <1>3, <1>4, <2>1
<1>6. \A t \in Task : t # job[w] => Writers(t)' = Writers(t)
  BY <1>0, <1>1 DEF Writers, Owns
<1>7. UNCHANGED factVars
  BY DEF Claim
<1> QED BY <1>2, <1>5, <1>6, <1>7

(* What a set of at most one writer says of the holder.                    *)
LEMMA HolderOf ==
    ASSUME TypeOK, TokensDistinct
    PROVE  /\ \A t \in Task : IF Writers(t) = {} THEN Holder[t] = Nobody ELSE Writers(t) = {Holder[t]}
           /\ \A t \in Task : Writers(t) \subseteq Worker
<1>1. ASSUME NEW t \in Task, NEW v \in Writers(t), NEW w \in Writers(t) PROVE v = w
  BY DEF Writers, Owns, TokensDistinct
<1>2. ASSUME NEW t \in Task, Writers(t) # {} PROVE Holder[t] \in Writers(t)
  BY <1>2 DEF Holder
<1>3. \A t \in Task : Writers(t) = {} => Holder[t] = Nobody
  BY DEF Holder
<1>4. ASSUME NEW t \in Task, Writers(t) # {} PROVE Writers(t) = {Holder[t]}
  BY <1>1, <1>2, <1>4
<1> QED BY <1>3, <1>4 DEF Writers

(* The holders of the next state, in terms of the writers of this one.     *)
HolderAsSet == \A t \in Task : IF Writers(t) = {} THEN Holder[t] = Nobody
                                                 ELSE Writers(t) = {Holder[t]}

LEMMA StepIsFenced ==
    ASSUME TypeOK, LeaseWhileRunning, TokensDistinct, FactsInv, HolderAsSet, HolderAsSet', [Next]_vars
    PROVE  [Fencing!Next]_<<Holder, Log, head>>
<1>0. /\ Holder = [t \in Task |-> Holder[t]] /\ Holder' = [t \in Task |-> Holder'[t]]
      /\ \A t \in Task : Writers(t) \subseteq Worker
      /\ Nobody \notin Worker
  <2>1. Holder = [t \in Task |-> Holder[t]]
    BY DEF Holder
  <2>2. Holder' = [t \in Task |-> Holder'[t]]
    BY DEF Holder
  <2> QED BY <2>1, <2>2, ConstantsAssumption DEF Writers
<1>1. ASSUME NEW w \in Worker, Claim(w) PROVE Fencing!Next
  <2>1. job[w] \in Task
    BY <1>1 DEF Claim, TypeOK
  <2>2. /\ Writers(job[w]) = {} /\ Writers(job[w])' = {w}
        /\ \A t \in Task : t # job[w] => Writers(t)' = Writers(t)
        /\ UNCHANGED factVars
    BY <1>1, ClaimGrants
  <2>3. Holder[job[w]] = Nobody /\ Holder'[job[w]] = w
    <3>1. job' = job
      BY <1>1 DEF Claim
    <3> QED BY <2>1, <2>2, <3>1 DEF HolderAsSet
  <2>4. \A t \in Task : t # job[w] => Holder'[t] = Holder[t]
    BY <2>2 DEF HolderAsSet
  <2>5. Holder' = [Holder EXCEPT ![job[w]] = w]
    BY <1>0, <2>1, <2>3, <2>4
  <2>6. UNCHANGED <<Log, head>>
    BY <2>2 DEF factVars, Log
  <2>7. Fencing!Grant(job[w], w)
    BY <2>3, <2>5, <2>6 DEF Fencing!Grant
  <2> QED BY <2>1, <2>7 DEF Fencing!Next
<1>2. ASSUME \A t \in Task : Writers(t)' = Writers(t) PROVE UNCHANGED Holder
  <2>1. \A t \in Task : Holder'[t] = Holder[t]
    BY <1>2 DEF HolderAsSet
  <2> QED BY <1>0, <2>1
<1>3. ASSUME NEW w \in Worker, NEW s \in Source, PublishNew(w, s) PROVE Fencing!Next
  <2>1. job[w] \in Task
    BY <1>3 DEF PublishNew, At, TypeOK
  <2>2. state[job[w]] = "running"
    BY <1>3, <2>1 DEF PublishNew, Fenced, LeaseWhileRunning
  <2>3. w \in Writers(job[w])
    BY <1>3, <2>1, <2>2 DEF PublishNew, At, Fenced, Writers, Owns
  <2>4. Holder[job[w]] # Nobody
    BY <1>0, <2>1, <2>3 DEF HolderAsSet
  <2>5. UNCHANGED Holder
    BY <1>2, <1>3 DEF PublishNew, StepTo, taskVars, Writers, Owns
  <2>6. \A e \in Log : e.id < published + 1
    BY DEF Log, FactsInv, IdsGivenOut, TypeOK
  <2>7. Log' = Log \cup {[id |-> published + 1, source |-> s, on |-> head[s], task |-> job[w]]}
    <3>1. rows' = rows \cup {NewRevision(w, s)} /\ base[w][s] = head[s]
      BY <1>3 DEF PublishNew, HeadUnchanged
    <3> DEFINE Entry(r) == [id |-> r.id, source |-> r.source, on |-> r.on, task |-> r.task]
    <3>2. Entry(NewRevision(w, s)) = [id |-> published + 1, source |-> s, on |-> head[s], task |-> job[w]]
      BY <3>1 DEF NewRevision
    <3>3. Log = {Entry(r) : r \in rows} /\ Log' = {Entry(r) : r \in rows'}
      BY DEF Log
    <3> HIDE DEF Entry
    <3>4. {Entry(r) : r \in rows'} = {Entry(r) : r \in rows} \cup {Entry(NewRevision(w, s))}
      BY <3>1
    <3> QED BY <3>2, <3>3, <3>4
  <2>8. head' = [head EXCEPT ![s] = published + 1] /\ published + 1 \in 1..MaxRevisions
    BY <1>3, ConstantsAssumption DEF PublishNew, TypeOK
  <2>9. Fencing!Commit(job[w], s, published + 1)
    BY <2>4, <2>5, <2>6, <2>7, <2>8 DEF Fencing!Commit
  <2> QED BY <2>1, <2>8, <2>9 DEF Fencing!Next
<1>4. ASSUME NEW s \in Source, Purge(s) PROVE Fencing!Next
  <2>1. UNCHANGED Holder
    BY <1>2, <1>4 DEF Purge, workerVars, Writers, Owns
  <2>2. Log' = {e \in Log : e.source # s}
    <3>1. rows' = rows \ RowsOf(s)
      BY <1>4 DEF Purge
    <3> QED BY <3>1 DEF Log, RowsOf
  <2>3. head[s] # 0 /\ head' = [head EXCEPT ![s] = 0]
    BY <1>4 DEF Purge
  <2> QED BY <2>1, <2>2, <2>3 DEF Fencing!Next, Fencing!Clear
<1>5. ASSUME ~AnyClaim, UNCHANGED factVars PROVE Fencing!Next
  <2> DEFINE T == {t \in Task : Holder'[t] = Nobody}
  <2>1. \A t \in Task : Writers(t)' \subseteq Writers(t)
    BY <1>5, OnlyClaimGrants
  <2>2. ASSUME NEW t \in Task, Holder'[t] # Nobody PROVE Holder'[t] = Holder[t]
    BY <2>1, <2>2 DEF HolderAsSet
  <2>3. Holder' = [t \in Task |-> IF t \in T THEN Nobody ELSE Holder[t]]
    BY <1>0, <2>2
  <2>4. UNCHANGED <<Log, head>>
    BY <1>5 DEF factVars, Log
  <2>5. Fencing!Revoke(T)
    BY <2>3, <2>4 DEF Fencing!Revoke
  <2>6. T \in SUBSET Task
    OBVIOUS
  <2> QED BY <2>5, <2>6 DEF Fencing!Next
<1> QED BY <1>1, <1>3, <1>4, <1>5, FactSteps DEF AnyClaim

(* Every behaviour of the store is one of fenced publication: one holder   *)
(* per task, commits by the holder alone and always on the latest          *)
(* revision, whatever attempts, leases, expiries and deaths lie between.   *)
THEOREM ImplementsFencedPublication == Spec => FencedSpec
<1>1. Init => Fencing!Init
  <2> SUFFICES ASSUME Init PROVE Fencing!Init
    OBVIOUS
  <2>1. \A t \in Task : Writers(t) = {}
    BY DEF Init, Writers, Owns
  <2>2. Holder = [t \in Task |-> Nobody]
    BY <2>1 DEF Holder
  <2> QED BY <2>2 DEF Init, Log, Fencing!Init
<1>2. TypeOK /\ TokensDistinct => HolderAsSet
  BY HolderOf DEF HolderAsSet
<1>3. TypeOK /\ LeaseWhileRunning /\ TokensDistinct /\ FactsInv /\ HolderAsSet /\ HolderAsSet' /\ [Next]_vars
        => [Fencing!Next]_<<Holder, Log, head>>
  BY StepIsFenced
<1>4. Init => TokensDistinct
  BY DEF Init, TokensDistinct
<1> QED BY <1>1, <1>2, <1>3, <1>4, TokenStep, FactsInit, FactsStep, TypeCorrect, LeaseExactlyWhileRunning, PTL
        DEF Spec, FencedSpec, Fencing!Spec, Fencing!vars

-----------------------------------------------------------------------------
(* What a purge misses.  A source that a task counts as done is committed  *)
(* by a revision of the task's own generation, so that its purge unbinds   *)
(* the task, unless the task skipped it; and a revision keeps its          *)
(* generation because the command of a task never changes.                 *)

Accounted(t, s) == <<t, s>> \in skipped \/ ~bound[t] \/ (Committed(t, s) /\ Owned(t, s))

SkipsInv ==
    /\ \A r \in rows : r.task \in Task /\ Exists(r.task)
    /\ \A w \in Worker, s \in Source : phase[w] = "running" /\ step[w][s] = "done" => Accounted(job[w], s)
    /\ \A t \in Task : state[t] = "completed" => \A s \in InputsOf(t) : Accounted(t, s)

LEMMA RowsKeepTheirTask ==
    ASSUME TypeOK, SkipsInv, [Next]_vars
    PROVE  \A r \in rows' : r.task \in Task /\ Exists(r.task)'
<1>1. \A t \in Task : Exists(t) => Exists(t)'
  BY CommandStays, TypeStep DEF TypeOK
<1>2. ASSUME NEW w \in Worker, NEW u \in Source, PublishNew(w, u)
      PROVE  \A r \in rows' \ rows : r.task \in Task /\ Exists(r.task)
  BY <1>2 DEF PublishNew, NewRevision, At, TypeOK
<1>3. \A r \in rows' \ rows : r.task \in Task /\ Exists(r.task)
  BY <1>2, FactSteps DEF Purge, factVars
<1> QED BY <1>1, <1>3 DEF SkipsInv

LEMMA UnboundStays ==
    ASSUME TypeOK, [Next]_vars, NEW t \in Task, Exists(t), ~bound[t]
    PROVE  ~bound'[t]
<1> USE DEF controlVars, taskVars, factVars, workerVars, storeVars
<1>1. ASSUME NEW c \in Command, SubmitCommand(c) PROVE ~bound'[t]
  BY <1>1 DEF SubmitCommand, TypeOK
<1>2. ASSUME NEW s \in Source, Purge(s) PROVE ~bound'[t]
  BY <1>2 DEF Purge
<1>3. StoreNext => bound' = bound \/ (\E c \in Command : SubmitCommand(c)) \/ \E s \in Source : Purge(s)
  BY DEF StoreNext, SetPaused, RequestCancel, AdmitRecovery, Tick, Reap
<1>4. ASSUME NEW w \in Worker, WorkerNext(w) PROVE bound' = bound
  BY <1>4 DEF WorkerNext, Start, Admit, Leave, Claim, ClaimConflict, FailQueued, Look, BeginPublish,
              PublishExisting, PublishNew, FailSource, Finish
<1>5. CASE UNCHANGED vars
  BY <1>5 DEF vars
<1> QED BY <1>1, <1>2, <1>3, <1>4, <1>5 DEF Next

LEMMA SkippedStays == [Next]_vars => skipped \subseteq skipped'
<1> SUFFICES ASSUME [Next]_vars PROVE skipped \subseteq skipped'
  OBVIOUS
<1> USE DEF controlVars, taskVars, factVars, workerVars, storeVars
<1>1. StoreNext \/ UNCHANGED vars => skipped' = skipped
  BY DEF StoreNext, SubmitCommand, SetPaused, RequestCancel, AdmitRecovery, Tick, Reap, Purge, vars
<1>2. ASSUME NEW w \in Worker, WorkerNext(w) PROVE skipped \subseteq skipped'
  BY <1>2 DEF WorkerNext, Start, Admit, Leave, Claim, ClaimConflict, FailQueued, Look, BeginPublish,
              PublishExisting, PublishNew, FailSource, Finish, Return, FindCommitted
<1> QED BY <1>1, <1>2 DEF Next

(* Accounting for a source is never undone: the purge that takes the       *)
(* revision away unbinds the task.                                         *)
LEMMA AccountedStays ==
    ASSUME TypeOK, SkipsInv, [Next]_vars, NEW t \in Task, Exists(t), NEW s \in Source, Accounted(t, s)
    PROVE  Accounted(t, s)'
<1>1. KeyOf(t, s)' = KeyOf(t, s) /\ command'[t] = command[t]
  BY CommandStays DEF KeyOf
<1>2. \A r \in rows : command'[r.task] = command[r.task]
  BY CommandStays DEF SkipsInv
<1>3. CASE <<t, s>> \in skipped \/ ~bound[t]
  BY <1>3, SkippedStays, UnboundStays DEF Accounted
<1>4. CASE Committed(t, s) /\ Owned(t, s)
  <2>1. CASE RowsOf(s) \subseteq RowsOf(s)'
    <3>1. RowsOf(s) \subseteq rows
      BY DEF RowsOf
    <3>2. Committed(t, s)'
      BY <1>1, <1>4, <2>1 DEF Committed
    <3>3. PICK r \in RowsOf(s) : SameGeneration(t, r.task)
      BY <1>4 DEF Owned
    <3>4. GenerationOf[command'[t]] = GenerationOf[command'[r.task]]
      BY <1>1, <1>2, <3>1, <3>3 DEF SameGeneration
    <3>5. Owned(t, s)'
      BY <2>1, <3>4 DEF Owned, SameGeneration
    <3> QED BY <3>2, <3>5 DEF Accounted
  <2>2. CASE Purge(s)
    <3>1. t \in Unbound(s)
      BY <1>4 DEF Owned, Unbound
    <3> QED BY <2>2, <3>1 DEF Purge, Accounted
  <2>3. ASSUME NEW u \in Source \ {s}, Purge(u) PROVE RowsOf(s) \subseteq RowsOf(s)'
    BY <2>3 DEF Purge, RowsOf
  <2>4. ASSUME NEW w \in Worker, NEW u \in Source, PublishNew(w, u) PROVE RowsOf(s) \subseteq RowsOf(s)'
    BY <2>4 DEF PublishNew, RowsOf
  <2>5. UNCHANGED factVars => RowsOf(s) \subseteq RowsOf(s)'
    BY DEF factVars, RowsOf
  <2> QED BY <2>1, <2>2, <2>3, <2>4, <2>5, FactSteps
<1> QED BY <1>3, <1>4 DEF Accounted

(* A source becomes done by a publication, or where its input is found     *)
(* committed.                                                              *)
LEMMA BecomesDone ==
    ASSUME TypeOK, [Next]_vars, NEW v \in Worker, NEW s \in Source,
           phase'[v] = "running", step'[v][s] = "done"
    PROVE  /\ phase[v] = "running" /\ job'[v] = job[v]
           /\ step[v][s] = "done" \/ PublishNew(v, s) \/ FindCommitted(v, s)
<1> DEFINE Goal == /\ phase[v] = "running" /\ job'[v] = job[v]
                   /\ step[v][s] = "done" \/ PublishNew(v, s) \/ FindCommitted(v, s)
<1> USE DEF controlVars, taskVars, factVars, workerVars, storeVars
<1>0. /\ phase \in [Worker -> {"idle", "admitting", "admitted", "running"}]
      /\ job \in [Worker -> Task \cup {NoTask}] /\ step \in [Worker -> [Source -> Step]]
  BY DEF TypeOK
<1>1. ASSUME NEW w \in Worker, NEW u \in Source, Look(w, u) \/ PublishExisting(w, u) PROVE Goal
  <2>1. CASE v = w /\ s = u
    BY <1>0, <1>1, <2>1 DEF Look, PublishExisting, FindCommitted, At, StepTo
  <2>2. CASE v # w \/ s # u
    BY <1>0, <1>1, <2>2 DEF Look, PublishExisting, FindCommitted, At, StepTo
  <2> QED BY <2>1, <2>2
<1>2. ASSUME NEW w \in Worker, NEW u \in Source, PublishNew(w, u) PROVE Goal
  <2>1. CASE v = w /\ s = u
    BY <1>2, <2>1 DEF PublishNew, At, StepTo
  <2>2. CASE v # w \/ s # u
    BY <1>0, <1>2, <2>2 DEF PublishNew, At, StepTo
  <2> QED BY <2>1, <2>2
<1>3. ASSUME NEW w \in Worker, NEW u \in Source, BeginPublish(w, u) \/ FailSource(w, u) PROVE Goal
  BY <1>0, <1>3 DEF BeginPublish, FailSource, At, StepTo
<1>4. ASSUME NEW w \in Worker, Claim(w) PROVE Goal
  BY <1>0, <1>4 DEF Claim
<1>5. ASSUME NEW w \in Worker, Return(w) \/ Admit(w) \/ \E t \in Task : Start(w, t) PROVE Goal
  BY <1>0, <1>5 DEF Return, Admit, Start
<1>6. ASSUME NEW w \in Worker,
             \/ Leave(w) \/ ClaimConflict(w) \/ (\E again \in BOOLEAN : FailQueued(w, again))
             \/ (\E outcome \in Outcome, again \in BOOLEAN : Finish(w, outcome, again))
      PROVE  Return(w)
  BY <1>6 DEF Leave, ClaimConflict, FailQueued, Finish
<1>7. CASE UNCHANGED workerVars
  BY <1>7
<1>8. StoreNext \/ UNCHANGED vars => UNCHANGED workerVars
  BY DEF StoreNext, SubmitCommand, SetPaused, RequestCancel, AdmitRecovery, Tick, Reap, Purge, vars
<1>9. ASSUME NEW w \in Worker, WorkerNext(w) PROVE Goal
  BY <1>1, <1>2, <1>3, <1>4, <1>5, <1>6, <1>9 DEF WorkerNext
<1> QED BY <1>7, <1>8, <1>9 DEF Next

LEMMA SkipsStep == TypeOK /\ SkipsInv /\ [Next]_vars => SkipsInv'
<1> SUFFICES ASSUME TypeOK, SkipsInv, [Next]_vars PROVE SkipsInv'
  OBVIOUS
<1>2. ASSUME NEW v \in Worker, NEW s \in Source, phase'[v] = "running", step'[v][s] = "done"
      PROVE  Accounted(job[v], s)'
  <2>0. /\ phase[v] = "running" /\ job'[v] = job[v]
        /\ step[v][s] = "done" \/ PublishNew(v, s) \/ FindCommitted(v, s)
    BY <1>2, BecomesDone
  <2>1. PICK t \in Task : job[v] = t /\ Exists(t)
    BY <2>0 DEF TypeOK
  <2>2. SUFFICES Accounted(t, s)'
    BY <2>0, <2>1 DEF Accounted, Committed, Owned, SameGeneration, KeyOf, RowsOf
  <2>3. CASE step[v][s] = "done"
    <3>1. Accounted(t, s)
      BY <2>0, <2>1, <2>3 DEF SkipsInv
    <3> QED BY <2>1, <3>1, AccountedStays
  <2>4. CASE FindCommitted(v, s)
    <3>1. CASE Owned(t, s)
      <4>1. Accounted(t, s)
        BY <2>1, <2>4, <3>1 DEF FindCommitted, Accounted
      <4> QED BY <2>1, <4>1, AccountedStays
    <3>2. CASE ~Owned(t, s)
      BY <2>1, <2>4, <3>2 DEF FindCommitted, Accounted
    <3> QED BY <3>1, <3>2
  <2>5. CASE PublishNew(v, s)
    <3> DEFINE new == NewRevision(v, s)
    <3>1. rows' = rows \cup {new} /\ command' = command
      BY <2>5 DEF PublishNew, taskVars
    <3>2. new.source = s /\ new.key = KeyOf(t, s) /\ new.task = t
      BY <2>1 DEF NewRevision
    <3> HIDE DEF new
    <3>3. new \in RowsOf(s)'
      BY <3>1, <3>2 DEF RowsOf
    <3>4. KeyOf(t, s)' = KeyOf(t, s)
      BY <3>1 DEF KeyOf
    <3>5. Committed(t, s)'
      BY <3>2, <3>3, <3>4 DEF Committed
    <3>6. Owned(t, s)'
      BY <3>2, <3>3 DEF Owned, SameGeneration
    <3> QED BY <3>5, <3>6 DEF Accounted
  <2> QED BY <2>0, <2>3, <2>4, <2>5
<1>3. ASSUME NEW t \in Task, state'[t] = "completed", NEW s \in InputsOf(t)' PROVE Accounted(t, s)'
  <2>1. Exists(t)
    <3>1. state[t] # "completed" => \E w \in Worker, again \in BOOLEAN : Finish(w, "completed", again) /\ job[w] = t
      BY <1>3, OnlyFinishCompletes
    <3> QED BY <3>1 DEF Finish, Exists
  <2>2. s \in InputsOf(t) /\ s \in Source
    BY <2>1, CommandStays DEF InputsOf, KeyOf
  <2>3. Accounted(t, s)
    <3>1. CASE state[t] = "completed"
      BY <2>2, <3>1 DEF SkipsInv
    <3>2. CASE state[t] # "completed"
      <4>1. PICK w \in Worker, again \in BOOLEAN : Finish(w, "completed", again) /\ job[w] = t
        BY <1>3, <3>2, OnlyFinishCompletes
      <4>2. phase[w] = "running" /\ step[w][s] = "done"
        BY <2>2, <4>1 DEF Finish, Ended
      <4> QED BY <2>2, <4>1, <4>2 DEF SkipsInv
    <3> QED BY <3>1, <3>2
  <2> QED BY <2>1, <2>2, <2>3, AccountedStays
<1>4. \A r \in rows' : r.task \in Task /\ Exists(r.task)'
  BY RowsKeepTheirTask
<1> QED BY <1>2, <1>3, <1>4 DEF SkipsInv

(* A purge misses a task only where the task counted a source as done that *)
(* another generation had committed: every other completed task that still *)
(* answers for its command has its sources committed.                      *)
THEOREM OnlySkippersStayBound == Spec => []BoundUnlessSkipped
<1>1. Init => SkipsInv
  BY DEF Init, SkipsInv
<1>2. TypeOK /\ SkipsInv => BoundUnlessSkipped
  BY DEF SkipsInv, Accounted, BoundUnlessSkipped
<1> QED BY <1>1, <1>2, SkipsStep, TypeCorrect, PTL DEF Spec
=============================================================================
