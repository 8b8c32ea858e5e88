--------------------------- MODULE IngestStore ---------------------------
(***************************************************************************)
(* The transactional ingest store (runtime/transactional_ingest.py) and    *)
(* the workers that drive it (runtime/ingest_executor.py,                  *)
(* runtime/ingest_session.py and the per-document part of                  *)
(* pipelines/ingest_auto.py).                                              *)
(*                                                                         *)
(* Every method of the store is one "begin immediate" SQLite transaction,  *)
(* so it is one action.  Workers are executor threads of any number of     *)
(* processes; between two transactions of a worker anything may happen:    *)
(* its lease runs out, the wall clock steps back, the task is cancelled,   *)
(* reaped and recovered under another attempt, or the worker dies.  The    *)
(* vault lock that publication also takes is left out here: what is shown  *)
(* is what the store's own fences guarantee.                               *)
(*                                                                         *)
(* An attempt id is the pair of a task and the attempt's ordinal; a        *)
(* revision id is a number, never reused.  A lease is "none" (the column   *)
(* is null), "live" or "expired"; Tick moves it as the clock does.         *)
(***************************************************************************)
EXTENDS Naturals, Sequences, FiniteSets

CONSTANTS
    Task, Worker, Source, Key,
    Command,        \* immutable execution commands; the command is its hash
    Generation,     \* immutable input generations
    GenerationOf,   \* the generation a command names
    InputKey,       \* fact_input_revision_key of a command and a source
    NoCommand,      \* a task row that does not exist yet
    NoKey,          \* the source is not part of the command's generation
    NoTask,         \* the task of an idle worker
    Nobody,         \* the worker of a task nobody may publish for
    MaxAttempts,    \* bound: attempts of one task
    MaxRevisions,   \* bound: revisions ever published
    MaxVersion      \* bound: changes of the admission control

ASSUME ConstantsAssumption ==
    /\ NoCommand \notin Command /\ NoKey \notin Key /\ NoTask \notin Task
    /\ Nobody \notin Worker
    /\ GenerationOf \in [Command -> Generation]
    /\ InputKey \in [Command -> [Source -> Key \cup {NoKey}]]
    /\ MaxAttempts \in Nat /\ MaxRevisions \in Nat /\ MaxVersion \in Nat

VARIABLES
    paused, version,   \* table ingest_control
    (* table tasks, one function per column *)
    state, current, cancel, epoch, lease, command,
    bound,             \* command_hash is not null
    (* table attempts: the states in ordinal order, and whether the failure *)
    (* recorded in the result of the current one is retryable               *)
    attempts, retryable,
    rows,              \* table source_revisions
    head,              \* table source_heads: a revision, 0 when there is none
    active,            \* table entity_contributions: revisions with active = 1
    published,         \* number of revisions ever published; ids are 1..published
    requestedEpoch, requestedFacts,   \* table materialization_state
    purged,            \* history: sources that were ever purged
    (* the executor threads: phase, task, lease token, admission version, *)
    (* and per source how far it is and the head it read                  *)
    phase, job, heldAttempt, heldEpoch, seenVersion, step, base,
    skipped            \* history: tasks and sources counted as done for another generation's commit

controlVars == <<paused, version>>
taskVars == <<state, current, cancel, epoch, lease, command, bound, attempts, retryable>>
factVars == <<rows, head, active, published, requestedEpoch, requestedFacts, purged>>
storeVars == <<controlVars, taskVars, factVars>>
workerVars == <<phase, job, heldAttempt, heldEpoch, seenVersion, step, base, skipped>>
vars == <<controlVars, taskVars, factVars, workerVars>>

-----------------------------------------------------------------------------
(* Definitions named ...Mutant are plausible mistakes in the definition    *)
(* that follows them, used by no action: they show which property stands   *)
(* between such a mistake and the user.                                    *)

AttemptState == {"queued", "running", "completed", "partially_failed", "failed",
                 "paused_rate_limited", "cancelled", "recovery_needed"}
LeaseState == {"none", "live", "expired"}
Outcome == {"completed", "partially_failed", "failed", "paused_rate_limited", "recovery_needed"}
Settled == {"completed", "cancelled"}
InterruptibleMutant == {"queued", "running", "failed", "partially_failed", "paused_rate_limited",
                        "recovery_needed"}
Interruptible == {"queued", "failed", "partially_failed", "paused_rate_limited", "recovery_needed"}
Step == {"none", "todo", "compiling", "publishing", "done", "failed"}
Revision == [id : Nat, source : Source, task : Task, attempt : Nat, epoch : Nat, key : Key \cup {NoKey},
             on : Nat]

KeyOf(t, s) == InputKey[command[t]][s]
InputsOf(t) == {s \in Source : KeyOf(t, s) # NoKey}
RowsOf(s) == {r \in rows : r.source = s}
Committed(t, s) == \E r \in RowsOf(s) : r.key = KeyOf(t, s)
SameGeneration(t, u) == GenerationOf[command[t]] = GenerationOf[command[u]]
Owned(t, s) == \E r \in RowsOf(s) : SameGeneration(t, r.task)
Exists(t) == state[t] # "absent"

(* A task and its current attempt change state together.                   *)
AttemptsAfterMutant(t, st) == [attempts[t] EXCEPT ![1] = st]
AttemptsAfter(t, st) == [attempts[t] EXCEPT ![current[t]] = st]
Enter(t, st) ==
    /\ state' = [state EXCEPT ![t] = st]
    /\ attempts' = [attempts EXCEPT ![t] = AttemptsAfter(t, st)]

(* _request_materialization: a new epoch for the facts the heads name.     *)
RequestMaterialization ==
    /\ requestedEpoch' = requestedEpoch + 1
    /\ requestedFacts' = head'

-----------------------------------------------------------------------------
Init ==
    /\ paused = FALSE /\ version = 1
    /\ state = [t \in Task |-> "absent"]
    /\ current = [t \in Task |-> 0]
    /\ cancel = [t \in Task |-> FALSE]
    /\ epoch = [t \in Task |-> 0]
    /\ lease = [t \in Task |-> "none"]
    /\ command = [t \in Task |-> NoCommand]
    /\ bound = [t \in Task |-> FALSE]
    /\ attempts = [t \in Task |-> <<>>]
    /\ retryable = [t \in Task |-> FALSE]
    /\ rows = {}
    /\ head = [s \in Source |-> 0]
    /\ active = [s \in Source |-> {}]
    /\ published = 0
    /\ requestedEpoch = 1 /\ requestedFacts = [s \in Source |-> 0]
    /\ purged = {}
    /\ phase = [w \in Worker |-> "idle"]
    /\ job = [w \in Worker |-> NoTask]
    /\ heldAttempt = [w \in Worker |-> 0]
    /\ heldEpoch = [w \in Worker |-> 0]
    /\ seenVersion = [w \in Worker |-> 0]
    /\ step = [w \in Worker |-> [s \in Source |-> "none"]]
    /\ base = [w \in Worker |-> [s \in Source |-> 0]]
    /\ skipped = {}

(* submit_command: a task already bound to the command is returned as it   *)
(* is, whatever its state; otherwise a task and its first attempt appear.  *)
SubmitCommand(c) ==
    /\ \A t \in Task : ~(bound[t] /\ command[t] = c)
    /\ \E t \in Task :
         /\ ~Exists(t)
         /\ state' = [state EXCEPT ![t] = "queued"]
         /\ current' = [current EXCEPT ![t] = 1]
         /\ command' = [command EXCEPT ![t] = c]
         /\ bound' = [bound EXCEPT ![t] = TRUE]
         /\ attempts' = [attempts EXCEPT ![t] = <<"queued">>]
    /\ UNCHANGED <<controlVars, cancel, epoch, lease, retryable, factVars, workerVars>>

(* set_ingest_paused: every call bumps the version, even one that changes  *)
(* nothing.                                                                *)
SetPaused(b) ==
    /\ version < MaxVersion
    /\ paused' = b
    /\ version' = version + 1
    /\ UNCHANGED <<taskVars, factVars, workerVars>>

(* request_cancel: what does not run is cancelled at once; a running task  *)
(* only gets the request, which its worker meets at the next fence.        *)
RequestCancel(t) ==
    /\ Exists(t) /\ state[t] \notin Settled
    /\ cancel' = [cancel EXCEPT ![t] = TRUE]
    /\ IF state[t] \in Interruptible THEN Enter(t, "cancelled") ELSE UNCHANGED <<state, attempts>>
    /\ UNCHANGED <<controlVars, current, epoch, lease, command, bound, retryable, factVars, workerVars>>

(* Mutant: anything that does not run or wait can be recovered.            *)
RecoverableMutant(t) ==
    \/ state[t] = "running" /\ lease[t] = "expired"
    \/ state[t] \in (Interruptible \ {"queued"}) \cup Settled

(* _recovery_assessment: interrupted and rate-limited attempts always, a   *)
(* failed one only when its recorded failure is retryable.                 *)
Recoverable(t) ==
    \/ state[t] = "running" /\ lease[t] = "expired"
    \/ state[t] \in {"recovery_needed", "paused_rate_limited"}
    \/ state[t] \in {"failed", "partially_failed"} /\ retryable[t]

(* admit_recovery: a new queued attempt becomes the current one.  The      *)
(* epoch is kept, the lease is cleared and an expired attempt is closed.   *)
Closed(t) == IF state[t] = "running" THEN AttemptsAfter(t, "recovery_needed") ELSE attempts[t]
AdmitRecovery(t) ==
    /\ Recoverable(t)
    /\ current[t] < MaxAttempts
    /\ state' = [state EXCEPT ![t] = "queued"]
    /\ attempts' = [attempts EXCEPT ![t] = Append(Closed(t), "queued")]
    /\ current' = [current EXCEPT ![t] = Len(attempts[t]) + 1]
    /\ cancel' = [cancel EXCEPT ![t] = FALSE]
    /\ lease' = [lease EXCEPT ![t] = "none"]
    /\ retryable' = [retryable EXCEPT ![t] = FALSE]
    /\ UNCHANGED <<controlVars, epoch, command, bound, factVars, workerVars>>

(* Mutants: the lease columns are left as they were, or the task goes back *)
(* to the queue under the attempt that was given up.                       *)
ClearedMutant(l) == l
Cleared(l) == "none"
InterruptedMutant == "queued"
Interrupted == "recovery_needed"

(* reap_expired_attempts: every expired running task, in one transaction.  *)
Expired == {t \in Task : state[t] = "running" /\ lease[t] = "expired"}
Reap ==
    /\ Expired # {}
    /\ state' = [t \in Task |-> IF t \in Expired THEN Interrupted ELSE state[t]]
    /\ lease' = [t \in Task |-> IF t \in Expired THEN Cleared(lease[t]) ELSE lease[t]]
    /\ attempts' = [t \in Task |-> IF t \in Expired THEN AttemptsAfter(t, Interrupted) ELSE attempts[t]]
    /\ UNCHANGED <<controlVars, current, cancel, epoch, command, bound, retryable, factVars, workerVars>>

(* A lease is a wall-clock deadline: it passes, and a clock that steps     *)
(* back makes it live again.                                               *)
Tick(t) ==
    /\ lease[t] # "none"
    /\ lease' = [lease EXCEPT ![t] = IF lease[t] = "live" THEN "expired" ELSE "live"]
    /\ UNCHANGED <<controlVars, state, current, cancel, epoch, command, bound, attempts, retryable,
                   factVars, workerVars>>

(* Mutant: only the task that published the head is asked for its          *)
(* generation.                                                             *)
UnboundMutant(s) == {t \in Task : Exists(t) /\ \E r \in RowsOf(s) : r.id = head[s] /\ SameGeneration(t, r.task)}

(* purge_source: all that one source owns goes, and the commands of the    *)
(* tasks that own its revisions, and of their generations, are unbound so  *)
(* that they may be submitted again.                                       *)
Unbound(s) == {t \in Task : Exists(t) /\ Owned(t, s)}
Purge(s) ==
    /\ head[s] # 0
    /\ rows' = rows \ RowsOf(s)
    /\ head' = [head EXCEPT ![s] = 0]
    /\ active' = [active EXCEPT ![s] = {}]
    /\ bound' = [t \in Task |-> bound[t] /\ t \notin Unbound(s)]
    /\ RequestMaterialization
    /\ purged' = purged \cup {s}
    /\ UNCHANGED <<controlVars, state, current, cancel, epoch, lease, command, attempts, retryable,
                   published, workerVars>>

-----------------------------------------------------------------------------
(* Workers: IngestTaskExecutor.execute, one thread per call.               *)

(* The call returns, or its thread dies with its process.                  *)
Return(w) ==
    /\ phase' = [phase EXCEPT ![w] = "idle"]
    /\ job' = [job EXCEPT ![w] = NoTask]
    /\ heldAttempt' = [heldAttempt EXCEPT ![w] = 0]
    /\ heldEpoch' = [heldEpoch EXCEPT ![w] = 0]
    /\ seenVersion' = [seenVersion EXCEPT ![w] = 0]
    /\ step' = [step EXCEPT ![w] = [s \in Source |-> "none"]]
    /\ base' = [base EXCEPT ![w] = [s \in Source |-> 0]]
    /\ UNCHANGED skipped

(* execute reads the current attempt of the task it was handed.            *)
Start(w, t) ==
    /\ phase[w] = "idle"
    /\ Exists(t)
    /\ phase' = [phase EXCEPT ![w] = "admitting"]
    /\ job' = [job EXCEPT ![w] = t]
    /\ heldAttempt' = [heldAttempt EXCEPT ![w] = current[t]]
    /\ UNCHANGED <<heldEpoch, seenVersion, step, base, skipped, storeVars>>

(* reserve_attempt waits until admission is open and notes its version.    *)
Admit(w) ==
    /\ phase[w] = "admitting"
    /\ ~paused
    /\ phase' = [phase EXCEPT ![w] = "admitted"]
    /\ seenVersion' = [seenVersion EXCEPT ![w] = version]
    /\ UNCHANGED <<job, heldAttempt, heldEpoch, step, base, skipped, storeVars>>

(* The thread ends: it saw the cancellation or the stop of its token       *)
(* before the claim, or its process died at any point.                     *)
Leave(w) ==
    /\ phase[w] # "idle"
    /\ Return(w)
    /\ UNCHANGED storeVars

Claimable(w) ==
    /\ ~paused
    /\ version = seenVersion[w]
    /\ current[job[w]] = heldAttempt[w]
    /\ state[job[w]] = "queued"
    /\ ~cancel[job[w]]

(* Mutant: what already runs may be claimed again, under the same epoch.   *)
ClaimMutant(w) ==
    /\ phase[w] = "admitted"
    /\ current[job[w]] = heldAttempt[w]
    /\ state[job[w]] \in {"queued", "running"}
    /\ Enter(job[w], "running")
    /\ lease' = [lease EXCEPT ![job[w]] = "live"]
    /\ phase' = [phase EXCEPT ![w] = "running"]
    /\ heldEpoch' = [heldEpoch EXCEPT ![w] = epoch[job[w]]]
    /\ UNCHANGED <<controlVars, current, cancel, epoch, command, bound, retryable, factVars,
                   job, heldAttempt, seenVersion, step, base, skipped>>

(* claim: the task runs under a new epoch with a live lease.               *)
Claim(w) ==
    LET t == job[w] IN
    /\ phase[w] = "admitted"
    /\ Claimable(w)
    /\ Enter(t, "running")
    /\ epoch' = [epoch EXCEPT ![t] = epoch[t] + 1]
    /\ lease' = [lease EXCEPT ![t] = "live"]
    /\ phase' = [phase EXCEPT ![w] = "running"]
    /\ heldEpoch' = [heldEpoch EXCEPT ![w] = epoch[t] + 1]
    /\ step' = [step EXCEPT ![w] = [s \in Source |-> IF s \in InputsOf(t) THEN "todo" ELSE "none"]]
    /\ UNCHANGED <<controlVars, current, cancel, command, bound, retryable, factVars,
                   job, heldAttempt, seenVersion, base, skipped>>

(* A claim that conflicts leaves the task as it is; execute returns.       *)
ClaimConflict(w) ==
    /\ phase[w] = "admitted"
    /\ ~Claimable(w)
    /\ Return(w)
    /\ UNCHANGED storeVars

(* Any other failure before the claim: fail_queued_task, which does        *)
(* nothing unless the attempt is still the current queued one.             *)
FailQueued(w, again) ==
    LET t == job[w] IN
    /\ phase[w] \in {"admitting", "admitted"}
    /\ current[t] = heldAttempt[w]
    /\ state[t] = "queued"
    /\ Enter(t, "failed")
    /\ retryable' = [retryable EXCEPT ![t] = again]
    /\ Return(w)
    /\ UNCHANGED <<controlVars, current, cancel, epoch, lease, command, bound, factVars>>

-----------------------------------------------------------------------------
(* A claimed worker compiles the sources of its command concurrently.      *)

At(w, s, st) == phase[w] = "running" /\ step[w][s] = st
StepTo(w, s, st) ==
    /\ step' = [step EXCEPT ![w] = [step[w] EXCEPT ![s] = st]]
    /\ UNCHANGED <<phase, job, heldAttempt, heldEpoch, seenVersion>>

(* The input is found committed and counts as done; the history notes the  *)
(* pair when no revision of the source is of the task's own generation.    *)
FindCommitted(w, s) ==
    /\ Committed(job[w], s)
    /\ StepTo(w, s, "done")
    /\ skipped' = IF Owned(job[w], s) THEN skipped ELSE skipped \cup {<<job[w], s>>}

(* find_published_fact: a source whose input is already committed is       *)
(* skipped, the others go to the model.                                    *)
Look(w, s) ==
    /\ At(w, s, "todo")
    /\ FindCommitted(w, s) \/ (~Committed(job[w], s) /\ StepTo(w, s, "compiling") /\ UNCHANGED skipped)
    /\ UNCHANGED <<base, storeVars>>

(* Mutant: the publication fence forgets the cancellation.                 *)
FencedMutant(w) ==
    /\ current[job[w]] = heldAttempt[w]
    /\ epoch[job[w]] = heldEpoch[w]
    /\ lease[job[w]] = "live"

(* What publish_revision checks of the lease.                              *)
Fenced(w) ==
    /\ current[job[w]] = heldAttempt[w]
    /\ epoch[job[w]] = heldEpoch[w]
    /\ lease[job[w]] = "live"
    /\ ~cancel[job[w]]

(* renew also asks for the running state.                                  *)
Renewable(w) == Fenced(w) /\ state[job[w]] = "running"

(* publish_fact renews the lease, then publish_revision_draft reads the    *)
(* head it will replace and stages the generation.                         *)
BeginPublish(w, s) ==
    /\ At(w, s, "compiling")
    /\ Renewable(w)
    /\ StepTo(w, s, "publishing")
    /\ base' = [base EXCEPT ![w] = [base[w] EXCEPT ![s] = head[s]]]
    /\ UNCHANGED <<skipped, storeVars>>

(* publish_revision finds its input committed meanwhile: no change.        *)
PublishExisting(w, s) ==
    /\ At(w, s, "publishing")
    /\ Fenced(w)
    /\ FindCommitted(w, s)
    /\ UNCHANGED <<base, storeVars>>

(* Mutants: the head is replaced unchecked; the contributions of the       *)
(* replaced revision stay active.                                          *)
HeadUnchangedMutant(w, s) == TRUE
HeadUnchanged(w, s) == head[s] = base[w][s]
SupersededMutant(s) == {}
Superseded(s) == {head[s]}

(* publish_revision of a document: the revision, the head, the active      *)
(* contributions and the materialization request change together.          *)
NewRevision(w, s) ==
    [id |-> published + 1, source |-> s, task |-> job[w], attempt |-> heldAttempt[w],
     epoch |-> heldEpoch[w], key |-> KeyOf(job[w], s), on |-> base[w][s]]
PublishNew(w, s) ==
    /\ At(w, s, "publishing")
    /\ Fenced(w)
    /\ ~Committed(job[w], s)
    /\ HeadUnchanged(w, s)
    /\ published < MaxRevisions
    /\ rows' = rows \cup {NewRevision(w, s)}
    /\ head' = [head EXCEPT ![s] = published + 1]
    /\ active' = [active EXCEPT ![s] = (active[s] \ Superseded(s)) \cup {published + 1}]
    /\ published' = published + 1
    /\ RequestMaterialization
    /\ StepTo(w, s, "done")
    /\ UNCHANGED <<controlVars, taskVars, purged, base, skipped>>

(* Compiling fails, the renewal is refused, or the publication is refused  *)
(* by a fence or by the head: the source is recorded as failed.            *)
Refused(w, s) == ~Fenced(w) \/ (~Committed(job[w], s) /\ ~HeadUnchanged(w, s))
FailSource(w, s) ==
    /\ At(w, s, "compiling") \/ (At(w, s, "publishing") /\ Refused(w, s))
    /\ StepTo(w, s, "failed")
    /\ UNCHANGED <<base, skipped, storeVars>>

(* Mutant: a run with failed sources counts as completed.                  *)
EndedMutant(w, outcome) ==
    outcome \in {"completed", "partially_failed"} =>
        \A s \in InputsOf(job[w]) : step[w][s] \in {"done", "failed"}

(* The run ended with this outcome: completed needs every source done, a   *)
(* run that returned with a failed source is partially failed, and an      *)
(* exception (rate limit, cancellation, any other) may end it at any time. *)
Ended(w, outcome) ==
    /\ outcome = "completed" => \A s \in InputsOf(job[w]) : step[w][s] = "done"
    /\ outcome = "partially_failed" =>
          /\ \A s \in InputsOf(job[w]) : step[w][s] \in {"done", "failed"}
          /\ \E s \in InputsOf(job[w]) : step[w][s] = "failed"

(* Mutant: the result overrides a cancellation requested meanwhile.        *)
FinalStateMutant(t, outcome) == outcome
FinalState(t, outcome) == IF cancel[t] THEN "cancelled" ELSE outcome

(* finish: recorded under the fence, and as cancelled when a cancellation  *)
(* was requested.  A stale worker's result is dropped: it leaves.          *)
Finish(w, outcome, again) ==
    LET t == job[w] IN
    /\ phase[w] = "running"
    /\ Ended(w, outcome)
    /\ current[t] = heldAttempt[w]
    /\ state[t] = "running"
    /\ epoch[t] = heldEpoch[w]
    /\ lease[t] = "live"
    /\ Enter(t, FinalState(t, outcome))
    /\ lease' = [lease EXCEPT ![t] = "none"]
    /\ retryable' = [retryable EXCEPT ![t] = again /\ FinalState(t, outcome) \in {"failed", "partially_failed"}]
    /\ Return(w)
    /\ UNCHANGED <<controlVars, current, cancel, epoch, command, bound, factVars>>

-----------------------------------------------------------------------------
StoreNext ==
    \/ \E c \in Command : SubmitCommand(c)
    \/ \E b \in BOOLEAN : SetPaused(b)
    \/ \E t \in Task : RequestCancel(t) \/ AdmitRecovery(t) \/ Tick(t)
    \/ Reap
    \/ \E s \in Source : Purge(s)

WorkerNext(w) ==
    \/ \E t \in Task : Start(w, t)
    \/ Admit(w) \/ Leave(w) \/ Claim(w) \/ ClaimConflict(w)
    \/ \E again \in BOOLEAN : FailQueued(w, again)
    \/ \E s \in Source : \/ Look(w, s) \/ BeginPublish(w, s) \/ PublishExisting(w, s)
                         \/ PublishNew(w, s) \/ FailSource(w, s)
    \/ \E outcome \in Outcome, again \in BOOLEAN : Finish(w, outcome, again)

Next == StoreNext \/ \E w \in Worker : WorkerNext(w)

Spec == Init /\ [][Next]_vars

-----------------------------------------------------------------------------
(* Properties.                                                             *)

TypeOK ==
    /\ paused \in BOOLEAN /\ version \in Nat
    /\ state \in [Task -> AttemptState \cup {"absent"}]
    /\ current \in [Task -> Nat]
    /\ cancel \in [Task -> BOOLEAN]
    /\ epoch \in [Task -> Nat]
    /\ lease \in [Task -> LeaseState]
    /\ command \in [Task -> Command \cup {NoCommand}]
    /\ \A t \in Task : Exists(t) <=> command[t] # NoCommand
    /\ bound \in [Task -> BOOLEAN]
    /\ attempts \in [Task -> Seq(AttemptState)]
    /\ retryable \in [Task -> BOOLEAN]
    /\ rows \subseteq Revision
    /\ head \in [Source -> Nat]
    /\ active \in [Source -> SUBSET Nat]
    /\ published \in Nat
    /\ requestedEpoch \in Nat /\ requestedFacts \in [Source -> Nat]
    /\ purged \subseteq Source
    /\ phase \in [Worker -> {"idle", "admitting", "admitted", "running"}]
    /\ job \in [Worker -> Task \cup {NoTask}]
    /\ \A w \in Worker : IF phase[w] = "idle" THEN job[w] = NoTask ELSE job[w] \in Task /\ Exists(job[w])
    /\ heldAttempt \in [Worker -> Nat]
    /\ heldEpoch \in [Worker -> Nat]
    /\ seenVersion \in [Worker -> Nat]
    /\ step \in [Worker -> [Source -> Step]]
    /\ base \in [Worker -> [Source -> Nat]]
    /\ skipped \subseteq Task \X Source

Owns(w, t) ==
    /\ phase[w] = "running"
    /\ job[w] = t
    /\ state[t] = "running"
    /\ heldAttempt[w] = current[t]
    /\ heldEpoch[w] = epoch[t]

(* Whatever the order of claims, expiries, recoveries and deaths, at most  *)
(* one worker holds the token of a task: no two executors can both renew,  *)
(* publish or finish for it (claim, the lease epoch).                      *)
OneOwner ==
    \A t \in Task, v, w \in Worker : Owns(v, t) /\ Owns(w, t) => v = w

(* The tasks table and the attempts table tell one story: the current      *)
(* attempt is the last one and has the task's state, and every earlier     *)
(* attempt is closed.  Each transaction updates the two by separate        *)
(* statements; status pages read attempts, the fences read tasks.          *)
AttemptsMirrorTask ==
    \A t \in Task : Exists(t) =>
        /\ current[t] = Len(attempts[t])
        /\ attempts[t][Len(attempts[t])] = state[t]
        /\ \A i \in 1..(Len(attempts[t]) - 1) :
              attempts[t][i] \in Interruptible \ {"queued"}

(* A lease is recorded exactly while the task runs.  publish_revision      *)
(* relies on it: it never looks at the task's state, and a lease left on   *)
(* a recovered task would come alive when the clock steps back.            *)
LeaseWhileRunning ==
    \A t \in Task : lease[t] # "none" <=> state[t] = "running"

(* A revision is only ever added for a task that runs, under its current   *)
(* attempt, with no cancellation requested.                                *)
PublishWhileRunning ==
    [][\A r \in rows' \ rows :
          /\ state[r.task] = "running"
          /\ current[r.task] = r.attempt
          /\ epoch[r.task] = r.epoch
          /\ ~cancel[r.task]]_vars

(* A requested cancellation sticks to its attempt: nothing is published,   *)
(* and the attempt ends as cancelled, or as recovery_needed when its       *)
(* worker was lost; only an explicit recovery lifts it.                    *)
CancelSticks ==
    [][\A t \in Task : cancel[t] =>
          \/ /\ current'[t] = current[t]
             /\ cancel'[t]
             /\ state'[t] \in {state[t], "cancelled", "recovery_needed"}
          \/ current'[t] = current[t] + 1]_vars

(* History is append-only: earlier attempts keep what they ended with, a   *)
(* completed or cancelled task stays so for ever, and the epoch of a task  *)
(* never goes back, so an old token can never match again.                 *)
HistoryIsFrozen ==
    [][\A t \in Task :
          /\ \A i \in 1..(Len(attempts[t]) - 1) : attempts'[t][i] = attempts[t][i]
          /\ Len(attempts'[t]) \in {Len(attempts[t]), Len(attempts[t]) + 1}
          /\ state[t] \in Settled => state'[t] = state[t]
          /\ epoch'[t] >= epoch[t]]_vars

(* The epoch requested of the materializer names exactly the heads: there  *)
(* is no change of the facts that the index is not asked to follow.        *)
RequestCoversFacts == requestedFacts = head

(* The head of a source is its newest revision, that revision alone        *)
(* contributes entities, and it is the one the index is asked to follow; a *)
(* source without a head owns nothing.                                     *)
HeadIsNewest ==
    /\ RequestCoversFacts
    /\ \A s \in Source :
          /\ head[s] = 0 => RowsOf(s) = {} /\ active[s] = {}
          /\ head[s] # 0 => /\ active[s] = {head[s]}
                            /\ \E r \in RowsOf(s) : r.id = head[s]
                            /\ \A r \in RowsOf(s) : r.id <= head[s]

(* The revisions of a source form one line, without a fork or a gap: each  *)
(* was built on the one before it, and no input was committed twice.       *)
LinearHistory ==
    \A s \in Source : \A r \in RowsOf(s) :
        /\ \/ r.on = 0 /\ \A q \in RowsOf(s) : q.id >= r.id
           \/ /\ \E q \in RowsOf(s) : q.id = r.on
              /\ r.on < r.id
              /\ \A q \in RowsOf(s) : q.id <= r.on \/ q.id >= r.id
        /\ \A q \in RowsOf(s) : q.key = r.key => q = r

(* A completed task committed every source of its command, unless that     *)
(* source was purged since: no source is skipped because of a revision     *)
(* that is not there, and no failed one is counted as done.                *)
CompletedIsCommitted ==
    \A t \in Task : state[t] = "completed" =>
        \A s \in InputsOf(t) \ purged : Committed(t, s)

(* What delete_page promises its caller: a deleted source is processed     *)
(* again when the same request is submitted again.  So a completed task    *)
(* that still answers for its command must have its sources committed.     *)
PurgedIsResubmittable ==
    \A t \in Task : state[t] = "completed" /\ bound[t] =>
        \A s \in InputsOf(t) : Committed(t, s)

(* What delete_page promises can fail by a skipped source only: a          *)
(* completed task that still answers for its command has each source       *)
(* committed that it did not find committed for another generation, also   *)
(* when sources were purged while it ran (purge_source unbinds the tasks   *)
(* that own revisions, and of their generations).                          *)
BoundUnlessSkipped ==
    \A t \in Task : state[t] = "completed" /\ bound[t] =>
        \A s \in InputsOf(t) : <<t, s>> \in skipped \/ Committed(t, s)

(* The store implements fenced publication.                                *)
Writers(t) == {w \in Worker : Owns(w, t) /\ ~cancel[t]}
Holder == [t \in Task |-> IF Writers(t) = {} THEN Nobody ELSE CHOOSE w \in Writers(t) : TRUE]
Log == {[id |-> r.id, source |-> r.source, on |-> r.on, task |-> r.task] : r \in rows}

Fencing == INSTANCE FencedPublication
           WITH holder <- Holder, log <- Log, latest <- head, Revision <- 1..MaxRevisions

(* Every behaviour of the store is one of fenced publication: one holder   *)
(* per task, commits by the holder only and always on the latest revision. *)
FencedSpec == Fencing!Spec

(* The state of a task, without the ways in which an attempt can be over.  *)
StateOf(t) == IF ~Exists(t) THEN "none" ELSE IF state[t] \in {"queued", "running"} THEN state[t] ELSE "over"
Working == {[by |-> w, task |-> job[w], attempt |-> heldAttempt[w]] : w \in {w \in Worker : phase[w] = "running"}}

Lifecycle == INSTANCE AttemptLifecycle
             WITH Executor <- Worker, state <- [t \in Task |-> StateOf(t)], attempt <- current, working <- Working

(* The store keeps the contract its clients rely on: an attempt is claimed *)
(* once and over once, and a worker that lost its attempt records nothing  *)
(* on the next one (specs/1.37-local-first-ingest-simplification).         *)
LifecycleSpec == Lifecycle!Spec
=============================================================================
