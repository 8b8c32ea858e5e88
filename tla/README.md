# KnoArbor: specifications, model checks and proofs

KnoArbor keeps a local knowledge base. Documents go in, facts that a language
model compiled from them are committed to an SQLite store, and from the facts it
derives a tree of Markdown pages and an immutable search index that readers
open. Several processes (desktop back end, API server, command line) may work on
one vault at a time, each may end at any moment, and the user's editor writes to
the same Markdown tree. This directory specifies the protocols that keep such a
vault consistent: TLA+ modules translated from the Python sources, instances
checked with TLC, and theorems checked with TLAPS.

Paths below are relative to `src/knoarbor/` unless they start with `specs/`,
`tests/` or `docs/`. `PROJECT.json` holds the exact table from each definition
to the lines it models, the list of components, and the list of hazards with the
properties that cover them.

1. Inventory of the system
2. Modules, and how they correspond to the code
3. Runs: questions, instances, answers
4. Disagreements between code and documentation
5. Fairness
6. Theorems and their proofs
7. What is only model-checked
8. What is not modelled
9. Plan


## 1. Inventory of the system

### Components, their state and their operations

| Component | State it keeps | Operations | What makes it correct |
|---|---|---|---|
| Ingest store, `runtime/transactional_ingest.py` | SQLite: `tasks`, `attempts`, `ingest_control`, `source_revisions`, `source_heads`, `entity_contributions`, `session_streams`, `materialization_state` | submit, claim, renew, publish a revision, finish, fail a queued task, cancel, recover, reap, pause, purge, and the four materialization transactions | one owner per task; nothing published by a stale or cancelled owner; tasks and attempts agree; linear history per source; every change of facts requests a materialization |
| Executor and session, `runtime/ingest_executor.py`, `ingest_session.py` | thread-local: attempt, lease token, admission version | one `execute` call per task | gives up rather than write under a lost token; the outcome follows from the sources |
| Ingest pipeline, `pipelines/ingest_auto.py` and compilers | per source: skipped, compiled, published or failed | concurrent compilation, publication under the vault lock | a run counts as completed only when every source is committed |
| Fact files, `storage/source_revisions.py`, `ingest_inputs.py` | fact directories, staging directories, retained images | stage, rename, commit, release images, prune at startup | registered revisions keep their files; garbage is reclaimed |
| Materialization, `storage/materialization.py`, `wiki_index.py` | pages, index generations, the pointer `CURRENT`, the row `materialization_state` | reconcile, resume, prepare, publish, discard, prune | `CURRENT` sound and never moved backwards; clean is true; recovery from any crash |
| Scheduler, `runtime/local_operations.py` | a future and a token per task, closed flag, thread pool | submit, done callback, shutdown | no double execution; shutdown reaches everything |
| Coordinator and startup, `services/ingest_coordinator.py`, `services/startup_reconciler.py` | none of its own | commit then submit, resubmit after startup; prune, reap, reconcile, resume | every queued attempt is scheduled |
| Page service, `services/wiki_pages.py` | none of its own | delete a page: purge, unlink, forced rebuild | a deleted page stays deleted and its source can be ingested again |
| Vault lock, `runtime/locks.py` | a file lock, re-entrant per context | enter, leave | mutual exclusion between processes |
| Admission control, `runtime/ingest_control.py` | pause flag and version | pause, resume, checked claim | no claim across a pause |
| Provider permits and cooldowns, `runtime/provider_permits.py`, `provider_control.py` | per provider: active requests, the attempt that reserved it, the limit, a cooldown | reserve an attempt, acquire, release, change a limit, cool down | never more requests than the contract of their attempt froze; no permit lost; every wait ends |
| Run monitor and run queue, `runtime/run_monitor.py`, `runtime/queue.py`, `services/run_manager.py` | one JSON record and one event file per run; a queue and a worker thread per vault | start, heartbeat, event, cancel, finish, finalize stale runs | the record shows what the workflow did; a cancellation is not overwritten; every run settles, announced |
| Chat sessions and agent, `services/chat_sessions.py`, `chat_agent.py`, `chat_persistence.py` | one JSON document per session with a revision; images per request id | answer, regenerate, remove, rename, close, delete, mark | no committed turn is lost, none recorded twice, no shown image removed |
| Edits, `services/projection_edits.py`, `raw_revision_edits.py` | tasks and revisions of the ingest store | open an editor, save a projection, submit a raw edit | an edit replaces what its editor showed and nothing else |
| Retrieval, lint, lexical snapshot, entity registry | none that persists, or a function of the facts | read | (pure functions) |
| Ledgers, reports, memory; configuration; connectors; model access; shells | append-only files, settings, external formats | see `PROJECT.json` | no protocol among concurrent actors |

### Interaction

A request arrives at the coordinator, which freezes its input (an *input
generation*, with the images it retains), commits a task and an attempt in the
store and hands the task to the scheduler. A pool thread runs the executor. It
reads the current attempt, waits for admission, *claims* the attempt under a
fresh lease epoch, compiles the sources concurrently and, under the vault lock,
publishes one revision per source: staged directory, rename, SQLite transaction,
release of images nothing refers to any more. The transaction that moves a head
also requests a materialization. Afterwards the executor finishes the attempt
and, still against the same row, reconciles the vault: projections, fingerprint,
index build, fingerprint again, prepare, replace `CURRENT`, finish. At startup
each process prunes fact files, reaps expired attempts, reconciles, prunes index
generations and resubmits what is queued.

A request to a model takes a *permit* of its provider; while one attempt holds
the reservation of a provider no other attempt of it is claimed. Runs that are
not ingests go through a queue per vault and leave a record that the desktop and
the command line list, cancel and, when its heartbeat is stale, finalize. A chat
is a loop of model calls and tools that ends in one commit to the record of its
session, which editors and other executions change meanwhile.

### What is hard

* *Interleavings*: executors of one task after an expiry; publications of one
  source by two tasks; a startup of one process beside a worker of another; an
  editor beside a build; a done callback beside a resubmission.
* *Stale reads*: the head read before staging, the attempt read before the
  claim, the registered revisions read before the lock, the fingerprint taken
  before the build, the admission version taken before the claim.
* *Partial failure and process ends* between any two files or transactions.
* *Time*: leases compare with the wall clock, which may step back.
* *Optimistic writes*: a chat that answers for minutes on a record others change,
  an editor that stays open, a record of a run that several monitors read, change
  and write back under different locks.
* *Shared names*: images of a request id that is sent twice, a provider that two
  modules know by different keys.
* *Liveness*: recovery of a vault, shutdown joining a pool, attempts waiting for
  permits, runs whose process is gone.

`hazards` in `PROJECT.json` lists each at the line where it bites.


## 2. Modules, and how they correspond to the code

| Module | What it specifies |
|---|---|
| `FencedPublication` | abstract: at most one holder of a task, commits by holders only and always on the latest revision, clearing a source |
| `AttemptLifecycle` | abstract: what the store, the scheduler and admission agree on about a task: an attempt is opened, claimed once, over once, and recorded only while it is current and running |
| `IngestStore` | the store and the executors that drive it |
| `IngestStoreProofs`, `IngestFactsProofs` | its theorems |
| `ServedView` | abstract: what readers are served changes only to the facts asked for last, and an epoch is confirmed only while they are served |
| `Materialization` | the materializer, the index directories, deletion of a page, external edits, failures |
| `MaterializationProofs` | its theorems |
| `FactFiles` | fact directories and images against the rows that name them |
| `PageEdits` | editors and edits of published sources; extends `FactFiles` and runs beside its ingests, deletions and startups |
| `PageEditsProofs` | theorems about both |
| `OperationScheduler`, `SchedulerProofs` | callers, scheduler, pool and operations; theorems |
| `ModelAdmission`, `AdmissionProofs` | reservations, permits, cooldowns, waves of requests and what their failures leave; theorems |
| `RunMonitor`, `RunProofs` | records of runs, their queue, worker, heartbeats and clients; theorems |
| `Conversation` | abstract: a list of turns, one per request, in which an answer is recorded only on the conversation it was thought out on |
| `ChatSessions`, `ChatSessionsProofs` | one chat session: executions, editors, marks, images; theorems |
| `MC...` | instances for TLC |

Definitions called `...Mutant` are plausible mistakes in the definition they
precede. No specification uses them. `PROJECT.json` pairs each property with one
that it catches: replacing the definition by its mutant makes TLC report a
violation of that property.

### `IngestStore`

*Granularity.* Every method of the store opens a `begin immediate` transaction,
so each is one action: `SubmitCommand`, `SetPaused`, `RequestCancel`,
`AdmitRecovery`, `Reap`, `Purge`, `Claim`, `PublishNew`/`PublishExisting`,
`Finish`, `FailQueued`. An executor is a worker with the local variables of
`execute`: attempt read at the beginning (`Start`), admission version (`Admit`),
token (`Claim`), and for each source how far it is (`Look`, `BeginPublish`,
`FailSource`). Between two transactions anything may happen. `Leave` is both the
silent return on a stop and the death of a process.

*Data.* A command stands for its hash; an attempt id is a task and an ordinal; a
revision id is a number never reused. `InputKey` gives the identity of the input
a command has for a source, which is how the same file in two commands, or one
file before and after an edit, is expressed. A lease is `none`, `live` or
`expired`, and `Tick` moves it in *both* directions, because the code compares
wall-clock times.

*Left out on purpose.* The vault lock around a publication: what is shown is
what the fences of the store guarantee alone. `retryable` is the one bit of a
recorded result that `_recovery_assessment` looks at.

### `Materialization`

`pc` is where the holder of the vault lock stands in `reconcile`,
`_resume_prepared`, `_build`, `delete_page` and the last step of startup; `idle`
means that the lock is free. One variable per column of `materialization_state`,
plus the disk: pages, generations, `CURRENT`. A fingerprint *is* the pages and a
content-derived generation id *is* the content, so a rebuild of the same content
meets the same directory, as in the code. `EditExternally` ignores the lock;
`Fail` is an exception in any step (recorded as `failed` exactly where the code
has the `except`), `Crash` the end of the process in any step, after which
startup has to run again (`up`).

### `FactFiles`

The steps of `publish_revision_draft` and `delete_page` between two file or
database operations, `write_input_generation` (which runs without the lock),
and `prune_unreachable_fact_artifacts` of another process, split where the code
splits it: the registered revisions are read, *then* the lock is taken. History
variables `lost` and `abandoned` (and `stolen` of `PageEdits`) name what each
race may take, so that the invariants can say that nothing else takes anything.
The module has no next-state relation of its own: `PageEdits` composes it.

### `PageEdits`

An editor is opened without a lock and shows the head of its source (`base`).
Saving a projection (`SaveProjection`) is one call under the vault lock, so it
goes from the check of the head through `Stage`, `Rename` and `Commit` of
`FactFiles` without giving the lock back. A raw edit (`SubmitRaw`) becomes an
ordinary queued ingest, and checks its parent a second time when it has the lock
(`Publish`, `ParentReplaced`). Both name the images of the revision they replace
and retain nothing. A save that is refused, or changes nothing, closes the
editor. `EndEdit` is the end of the process: a queued raw edit is run again after
it, the task of a projection edit is not, as in the code. The tasks themselves
are those of `IngestStore` and are not repeated here.

### `OperationScheduler`

The lock of the scheduler, the two dictionaries, the futures and their callbacks,
the pool, and the store as far as scheduler and executor depend on it. A caller
commits (`Start`, `Recover`, `Repeat`; an exception in the projection of the run may
end it there) or lists what is queued (`List`, by startup
or behind `Resume`) and then submits one task after the other. Registering a
callback on a future that is already finished runs it in the registering thread,
which holds the lock: `RegisterLate`. An operation reads the attempt (`Read`),
waits for admission (`Ask`), for the reservation of its provider (`Reserve`) and
for admission again (`Note`), as long as that takes, and claims what it read. A
claim under a control or a task that changed since is refused and the operation
returns (`Conflict`); a stopped token or a cancellation ends a wait (`GiveUp`);
another exception up to the claim fails the attempt (`Raise`, `FailUnclaimed`);
one outside the handlers ends in the future (`Break`). A task that is over is
`recoverable`, `failed` for good, or `settled` (completed or cancelled), and only
the first may be recovered. `shutdown` closes and takes the tokens under the lock
and stops them one by one behind it (`signals`).

### `ModelAdmission`

One process and one provider, which the code knows by *two* keys: the executor
computes `name:model:base_url`, the extractor asks its gateway, which has no
`base_url`, and gets `name:model:`. The state of the pool is a function of the key,
as in the code, so what the two keys separate is visible. A task goes from `Execute`
through `Reserve`, `Admit` (the last wait, which notes the version of the control)
and `Claim` to `Finish`; `Conflict` is the claim that is refused because ingest was
paused, or paused and resumed, since, and `GiveUp` the cancellation seen in a wait.
Its sources are opened by as many threads as `run_generation` starts; a source sends
its segments in waves whose width grows by one (`StartWave`, `EndWave`); a request
asks (`AskCall`), enters (`EnterCall`), is admitted or deferred (`AdmitCall`) and
ends in an answer, a failure or a cooldown. `Outcomes` is what the failures of a
wave leave of the source, in whichever order they came. Leases and versions are
those of `IngestStore`; the retries inside one permit, the length of a backoff and
the failure of a lease renewal are left out. `slots` is in the model, and nobody
ever uses it: no caller passes request slots (`provider_permits.py:41-48`).

### `RunMonitor`

A record is read, changed and written back in separate steps by every party
(`BeatRead`/`BeatWrite`, `FinishRead` ... `FinishReturn`, `CancelRead`/`CancelWrite`,
`Look`/`Truncate`/`Rewrite`). The threads of the owning process share a monitor
and its lock (`LockFree`), a client makes a monitor of its own, whose lock
excludes nobody. Monitors install a new file by rename; the finalization of a
stale run rewrites the file in place, so it is `empty` for a moment and `Raised`
says what a reader does then, `Escapes` where the exception ends the worker
thread. History variables name the runs somebody asked to cancel or found
stale, and those whose cancellation was written without overlap.

### `ChatSessions`

`file` is the record, `lock` the file lock with what its holder has read. An
execution of `chat()` reads the record (`Load`; for a retry `Prepare` before),
draws and composes for as long as it likes, looks for a recorded turn of its
request without the lock (`Look`), takes the lock (`LockToCommit`), writes
(`Write`), removes the images of what it replaced (`Unlock`), writes the ledger
and returns. `Fail`, `Conflict`, `FailCommitted` and `DrawFails` are the error
paths that remove *all* images of the request id. Editors take the lock, write
and remove images behind the record; marks read and write without it. `gone`,
`swept` and `clobbered` record what was taken back on request, whose images went
with a failure or behind a replaced record, and that a mark overwrote a newer
record. Not in the model: what is answered, previews, candidates for ingest, the
stream of deltas.


## 3. Runs: questions, instances, answers

| Run | Question | Instance |
|---|---|---|
| `IngestLeases` | Is there one owner, one story in two tables, and no write by a stale or cancelled attempt? Does the store implement `AttemptLifecycle`? | 1 task, 2 executors, 1 source, 3 attempts, 2 revisions, admission versions 1..2 |
| `IngestFacts` | Do heads, contributions and histories stay consistent when two tasks publish, with purges? Does completed mean committed? Does the store implement `FencedPublication`? | 2 tasks (a folder of two files, then one of the files edited), 2 executors, 2 sources, 1 attempt each, 3 revisions |
| `IngestPurge` (violated) | Can a deleted source always be ingested again? | 2 tasks (a file, then the folder that holds it), else as `IngestFacts` |
| `MaterializationRecovery` | Is `CURRENT` sound and forward, is clean true, does the vault recover? | 1 source, 2 revisions, 2 external edits, 1 forced rebuild, 2 faults |
| `PageEdits` | Do files follow rows with process ends anywhere, and do edits replace what they showed? | 2 workers, 2 sources sharing 1 image, 3 revision ids, 1 pruning startup |
| `Scheduler` | No attempt twice; in which ways does a queued attempt lose its operation; does shutdown reach everything and end? | 1 task, 2 callers, 2 threads, 3 operations, 2 attempts, with pauses and escaping exceptions |
| `SchedulerQueued` (violated) | Is a queued attempt always scheduled? | as `Scheduler`, without pauses and escaping exceptions |
| `Admission` | Are ceilings kept and permits exact, do waves stop behind a failure, stays what may be retried recoverable, do attempts end? | 2 tasks with ceilings 3 and 2; 3 sources of 1, 3 and 1 segments, one committed already; 1 and 2 attempts, 1 cancellation |
| `AdmissionCooldown` (violated) | Is a task claimed only when its provider does not cool down? | as `Admission` |
| `AdmissionRecovery` (violated) | May a task that met a rate limit be recovered? | as `Admission` |
| `Runs` | Does the record show the outcome, stick to a cancellation, end announced, and settle? | 1 run, 2 clients, 3 reports, 1 cancellation, 1 end of a process |
| `Chat` | Is a session a `Conversation`; do turns, answers and images survive? | 3 executions, 1 mark, 3 request ids, 3 revisions, and the five plans below |

*Bounds.* `MaxAttempts` = 3 gives an attempt that is lost, one that recovers it
and one that recovers the recovery, so a stale executor can be two attempts
behind. `MaxRevisions` = 2 lets one revision supersede another, or be purged and
followed by another, and 3 lets both sources of a folder be committed and one of
them again. `MaxVersion` = 2 is one pause, which is what makes a version stale.
Two executors are enough for every property stated about pairs of them. Two
external edits are the smallest number that can undo each other between two
fingerprints, and two faults the smallest number that can hit the recovery from
the first. In `PageEdits`, three revision ids are a revision, its replacement
under an open editor, and a third that makes the editor's one stale again or
belongs to the other source; the shared image is what one source's release can
take from the other. In the scheduler, three operations are the one that is
finishing, its successor, and a third that a popped entry fails to deduplicate;
two attempts are the one an operation read and the one it does not look at.
`SchedulerQueued` sets `Pauses` and `Escapes` to `FALSE`, so that what it shows
owes nothing to a pause or an exception.

In `Admission` the ceilings differ, so that limits move in both directions while
requests are active; three segments of a ceiling of two are a first wave of two
and a second that must not start behind a failure; the committed source is one
that opens no wave. The limit of the key of the requests hardly moves there,
since one task's sources make them all; that a ceiling holds while limits move is
proved (`ContractKept`). In `IngestFacts` no source is skipped whose revisions are
all of other generations, so the exception of `BoundUnlessSkipped` is not used;
in the instance of `IngestPurge` it is, and `OnlySkippersStayBound` holds for all.
In `Runs` three reports are those of the start, of the work
and of the end, two clients can finalize and cancel one run at once, and the one
process that ends can be the worker's; two runs, where one waits in the queue of
a dead worker, were explored apart from these runs (10.4 million states, no
violation), and the theorems hold for any number. `Chat` begins with one of five
kinds of plans, those in which two executions can meet: a session that is created
and continued while it is being created; one request sent twice; a continuation
beside a regeneration; a regeneration sent twice; and a regeneration beside the
resending of the request it replaces. The constraint `Unclobbered` stops behind a
mark that overwrote a newer record, because from there on each property of the
run is true by its first disjunct.

The theorems of section 6 remove these bounds: they hold for any sets and any
bounds.

*Symmetry* is used for tasks and executors in `IngestLeases` and `IngestFacts`
(the values of `InputKey` are the same for every task), for workers and sources
in `PageEdits`, and for the two later executions in `Chat` (each plan is there in
both orders): only in runs without liveness.

*Deadlock* is checked in the runs of `IngestStore`, `Materialization` and
`ModelAdmission`: in the store an executor can always leave and a clock can
always move, in the materializer somebody can always ask again, and ingest can
always be paused. It is not checked in `PageEdits` and `Chat`, where using up
revision ids ends a behaviour, in the scheduler, where a closed scheduler with
nothing left to do is a proper end, and in `Runs`, where all runs have settled at
last.

### What the properties say

Store. `OneOwner`: no two executors hold the token of one task.
`AttemptsMirrorTask`: the two tables tell one story. `LeaseWhileRunning`: a lease is
recorded exactly while the task runs; `publish_revision` depends on it, since it
looks at the lease and never at the state. `PublishWhileRunning`: each new row
carries the current attempt and epoch of a running task that nobody cancelled.
`CancelSticks`: a cancellation is lifted only by a recovery. `HistoryIsFrozen`:
settled is settled and old attempts keep their outcome. `HeadIsNewest`,
`LinearHistory`: the tables of facts agree with each other and with what the
materializer was asked for. `CompletedIsCommitted`: no completed task left a source
behind, not even one it skipped because another task had committed it.
`BoundUnlessSkipped`: a deleted source can be ingested again by the same request
unless the task skipped it; the history variable `skipped` records for which sources
an executor found its input committed, and no revision of its own generation among
those of the source. `FencedSpec` and `LifecycleSpec`: refinements of
`FencedPublication` and of `AttemptLifecycle`.

Materializer. `CurrentIsOnDisk`, `CleanIsServed`, `SwitchIsPrepared`: the pointer
is sound, clean means served, and a switch goes only to what was prepared and to
the facts that are active at that moment. `SingleEditDetected`: one external
write between the fingerprints is never missed. `ViewSpec`: refinement of
`ServedView`. `Recovers`: from any fault the vault becomes clean, or the prepared
generation was lost (section 4).

Files and edits. `FactsLostOnlyToStaleLook`, `GarbageOnlyFromCrashes` and
`ImagesLostOnlyToRequests` say that each kind of loss has the one cause named, and
no other, edits included. `EditsReplaceWhatTheyShowed`: when an edit moves a head,
the head was the revision its editor had shown.

Scheduler. `OneRunnerPerAttempt`, `LiveIsTracked`, `ShutdownSignals`.
`StrandedInKnownWays`: while the scheduler is open, a queued attempt is left
without anybody who will look at it in three ways only: a submission answered with
an operation that looks at an older attempt or is past its look (disagreement 2 of
section 4); a claim refused because ingest was paused, or was paused and resumed,
since the admission was noted; an exception that leaves `execute`, or the caller
before it submits. `ShutdownEnds`: shutdown returns, ingest paused or not, except
when a thread waits for its own lock or a pause that does not end holds an
operation whose token a finished one popped, and which therefore cannot be stopped.

Admission. `WithinContract`: the requests of an attempt that hold a permit are
not more than its contract froze, although sources run in threads and each sends
a wave. `PermitsExact`: the counter is the number of requests that hold a permit,
and the reservation is held exactly while an attempt is between reserving and
leaving. `WaveDiscipline`: nothing is asked behind a wave that did not succeed
as a whole. `RetryableStaysRecoverable`: a retryable failure beside no final one
leaves the task recoverable. `AttemptsEnd`: once nobody pauses or resumes any
more, every attempt ends, or ingest is paused and the attempt is not cancelled.
Without the first condition one task that is paused, resumed and submitted again
for ever could take the reservation each time before another one looks.

Runs. `OutcomeReported`: unless a run was asked to cancel or found stale, what its
workflow returned stays in the record. `CancelSticks`: a cancellation that was
written while nobody was between reading and writing stays. `EndIsAnnounced`: who
reads a terminal record finds a terminal event. `EveryRunSettles`: each run is
settled at last, or a process ended in the middle of rewriting its record.

Chat. `TalkSpec`: refinement of `Conversation`, in which any change ends all
thinking that has begun. `TurnsSurvive`: the record is what was committed and not taken back.
`AnsweredIsRecorded`: a client gets a turn that is recorded for its request.
`ImagesLostOnlyToSweeps`: an image a recorded turn shows goes only with a failing
execution of its request, or behind a turn of that request that was replaced or
removed.


## 4. Disagreements between code and documentation

Four have a run of their own whose counterexample shows the steps; the quotations
are under `findings` in `PROJECT.json`.

1. **A skipped source cannot be restored** (`IngestPurge`,
   `runtime/transactional_ingest.py:445`). Ingest a file, then the folder that
   holds it, then delete the page. Resubmitting the folder is answered with the
   completed task, because purging unbinds only the tasks that own revisions of
   the source and those of their generations. It is the only way
   (`OnlySkippersStayBound`).
2. **A queued attempt nobody looks at** (`SchedulerQueued`,
   `runtime/local_operations.py:37`). The lease of an attempt runs out, the task is
   recovered and submitted while the operation that runs the old attempt has not
   finished; the submission is answered with that operation.
3. **A cooldown that does not hold back a claim** (`AdmissionCooldown`,
   `pipelines/ingest_auto.py:109`). The extractor cools down one key, the executor
   waits for another.
4. **A rate limit that ends the task** (`AdmissionRecovery`,
   `pipelines/ingest_auto.py:229`). The last handler of `run_document` makes a failed
   source of it, and the handler that would leave the task recoverable is not
   reached.

Three more are exceptions that a passing property names, and that a run without
the exception would report:

5. **A lost prepared generation** (`storage/materialization.py:126`; `Stuck` in
   `Recovers`). `_resume_prepared` removes the directory before it replaces the row
   that names it. A failure between the two makes each later reconciliation raise
   until something else requests a rebuild.
6. **An image released under a waiting input** (`storage/source_revisions.py:259`;
   `stolen` in `ImagesLostOnlyToRequests`). The input retained the image, but only
   active revisions protect it.
7. **Pruning by a stale look** (`storage/source_revisions.py:411`; `lost` in
   `FactsLostOnlyToStaleLook`). The registered revisions are read before the lock is
   taken.

What else was seen while modelling, and is in the models as the code does it:

* A finished operation pops the entries of its successor in the scheduler
  (`orphaned`), and a thread can wait for its own lock there. Shutdown cannot stop
  an operation without an entry, and waits for it as long as a pause lasts
  (`OrphanWaits`).
* A claim refused on account of a pause leaves the attempt queued, and the operation
  ends (`Conflict`); resuming submits it again. A pause and resume around the claim
  leaves it to a later submission or startup when the resume came first.
* An exception in `fail` of a run ends the worker thread of the vault
  (`runtime/queue.py:85`); a run finalized in place is empty for a moment.
* `mark_ingest_started` reads and writes a session without its lock, so it can
  drop a turn, or bring a deleted session back (`clobbered`).
* `docs/API.md:239-240` says that a failed retry leaves the previous answer. When
  the ledger cannot be written or the cancellation arrives behind the commit
  (`chat_persistence.py:70-73`, `chat_agent.py:179-181`), the call fails and the
  answer is replaced; its image is removed (`FailCommitted`).
* `docs/API.md:142-144` says that a request sent again returns the persisted
  turn. With the revision it was first sent with, it is refused when it loads.
* `chat_agent.py:304` catches `RuntimeError`, of which the cancellation is one:
  one cancellation is read as a failed model call.
* Images of a replaced or removed turn go behind its record
  (`chat_sessions.py:180`), those of an execution that resends the request of that
  turn with them (`Overtaken`).
* An ingest that was compiled before a projection edit and is published after it
  replaces the edit; `docs/API.md:815` promises nothing else. A projection edit
  whose claim is refused leaves a queued task that no executor will run.
* A publication whose release of images raises is reported as failed although it
  is durable.
* The page graph resolves `CURRENT` twice (`services/wiki_graph.py:58`, `:148`),
  where `specs/1.37-local-first-ingest-simplification/verification.md:71` speaks of
  one snapshot.
* The second materialization after a crash behind the switch of `CURRENT`, a page
  left behind by a failure between purge and unlink, images leaked by the end of a
  process.


## 5. Fairness

Safety properties are checked under `Spec`, or under `FairSpec` when the run also
checks liveness; fairness does not restrict finite prefixes.

* `Materialization`: `WF(Holder)`: the thread that holds the vault lock goes on
  (its steps are local file and database operations). `WF(Wanted)`: while the
  system is not up, or the row is not clean, somebody eventually reconciles.
  A process whose startup has not finished is started again by its user, and
  once it is up each ingest task that finds the row not clean reconciles
  (`runtime/ingest_executor.py:110`). Nothing is assumed about edits, faults and
  requests, which are bounded.
* `OperationScheduler`: weak fairness only. As long as some thread of the pool can
  go on, one does; so does the caller that holds the lock, and so does shutdown.
  An operation that waits for admission cannot go on while ingest is paused, and
  nobody has to resume it, nor to submit, recover or fail. A claimed operation ends
  when ingest is not paused or it was stopped or cancelled: its requests have
  timeouts, and the waits between them see the token. That nobody overtakes others
  for ever is not assumed: the number of operations is finite.
* `ModelAdmission`: weak fairness of the end of a cooldown, of each task, of the
  threads of each source and of each request: threads run, the timeouts of the
  client end a request, a deadline passes; nobody has to submit a task. Waiting for
  a permit is a condition with timed waits, which looks again, and weak fairness is
  enough because the reservation is held by one attempt and permits return to it.
  Nobody has to resume ingest, cancel or recover.
* `RunMonitor`: strong fairness of the worker, which takes the lock of a monitor
  that its heartbeat thread takes and gives back: that thread sleeps for five
  seconds between two beats, so the lock is free again and again for long. Weak
  fairness of the submitter, of each heartbeat loop, of the passing of time, of
  the steps a client has begun, and of looking: somebody keeps listing the runs,
  as the desktop does. Nobody has to cancel and nothing has to crash.
* `IngestStore`, `PageEdits` and `ChatSessions` state no liveness property.


## 6. Theorems and their proofs

All theorems are of the specification of their module, for every value of the constants
that satisfies the `ASSUME` of the module: no size of a set and no bound is fixed.

### The store (`IngestStoreProofs`, `IngestFactsProofs`)

Assumption: `ConstantsAssumption` (the special values are not members of the sets
they complete; `GenerationOf` and `InputKey` are functions of the right type).

* `TypeCorrect`: `[]TypeOK`. The conjunct that is needed below says that an
  executor that is not idle works for a task that exists.
* `KeepsLifecycle`: `Spec => LifecycleSpec`. A lease that expires under a running
  worker and a recovery that opens another attempt are an interruption and an
  opening; the worker goes on under the old attempt and can only abandon it,
  because `finish` compares the attempt.
* `LeaseExactlyWhileRunning`: inductive given `TypeOK`.
* `OneOwnerAlways`: `OneOwner` is not inductive, since two executors of one task
  with the same old epoch would be no contradiction until the epoch matched.
  `TokensDistinct` says that an executor's epoch is at most that of its task and
  that two that claimed the same task hold different epochs; a claim draws one
  above all of them.
* `PublicationIsFenced`: a step that adds a row is a publication, which is
  fenced; the running state, which it does not check, follows from
  `LeaseExactlyWhileRunning`.
* `TablesAgree`: `Mirror` adds that an existing task has an attempt. Each
  transaction either enters a state in both tables or appends an attempt.
* `CancellationSticks`: needs `WaitingIsWanted`: a queued task has no cancellation
  pending, so a claim never starts a cancelled attempt.
* `HistoryNeverChanges`: needs that the row of a task that does not exist is
  blank; then each action enters a state, appends an attempt or touches neither.
* `HeadAlwaysNewest`, `HistoryIsLinear`: inductive together once
  `IdsGivenOut` bounds every id by the number of revisions published
  (`FactsInv`): the id a publication takes is above all others. Only a publication
  and a purge change facts (`FactSteps`), and each requests in the same transaction.
* `CompletedLeavesNothing`: the task alone does not remember its sources. The
  inductive part is `DoneIsCommitted`, about the executors: what one counts as done
  has its row, until the source is purged. Only a finish completes a task
  (`OnlyFinishCompletes`), and rows of other tasks under the same key count.
* `OnlySkippersStayBound`: the same induction with `SkipsInv`, in which a source is
  accounted for when it was skipped, when the task is no longer bound, or when it is
  committed and a revision of it is of the task's own generation. A purge takes the
  third away and grants the second in the same step (`AccountedStays`); for that a
  revision must keep its generation, and the command of an existing task never
  changes.
* `ImplementsFencedPublication`: `Spec => FencedSpec`. The holder of a task is
  the one executor that owns it while no cancellation is requested. Only a claim
  makes an executor a holder (`OnlyClaimGrants`), and it grants a task nobody held;
  every other step revokes a set of tasks, commits, clears or stutters.

### The materializer (`MaterializationProofs`)

Assumption: `MaterializationAssumption`. The inductive invariant is
`IInv == TypeOK /\ HeldRow /\ CurrentIsOnDisk /\ CleanIsServed`. `HeldRow`
relates the row to the place of the holder of the lock: while it builds, its token
names the open request; from `publish` on, the row has recorded as prepared what
`CURRENT` moves to; what is prepared was built from the active facts.
Without it nothing forbids a `finish` that records another generation
than the one `CURRENT` names. From `IInv` follow `TypeCorrect`, `PointerIsSound`,
`CleanMeansServed`, `SwitchesArePrepared` (only `Publish` moves `CURRENT`) and
`ImplementsServedView`: each request is an `Ask`, the switch a `Serve`, the finish
a `Confirm`, and all other steps stutter.

`SingleEditsAreSeen` needs a second invariant, `Watched`: with no write since the
first fingerprint the pages are the ones it saw; with one they are not, and what
was built in between is either what the fingerprint saw or will be discarded,
since nothing but a second write makes the pages equal again. `PreparedSurvives`
needs `Kept` (what is built is on disk until it is recorded): the prepared
generation is lost, and reconciliation raises for ever, only when the holder fails
or ends between `Discard` and `RequestAgain`, and a request alone ends it. That is
all there is to disagreement 5 of section 4.

### The scheduler (`SchedulerProofs`)

Assumption: `SchedulerAssumption`. `IInv` adds to the five properties `Assigned` (a
caller that is about to submit has a task, and behind the submission the operation
it made; the futures and the tokens name operations that were submitted),
`ReadIsPast` (what an operation has read is an attempt the task had; if it is the
current one and claimed, the task is no longer queued) and `Closing`. `ReadIsPast`
is what makes `OneRunnerPerAttempt` inductive: the claim, not the bookkeeping of the
scheduler, keeps an attempt from being run twice, even when entries were popped.
From it follow `OneRunner`, `LiveAlwaysTracked`, `ShutdownReachesTracked`,
`ShutdownOutlives`.

`KeepsLifecycle` shows that the scheduler and its operations stay within the
contract which the store implements, so the store this module reduces to two
variables does nothing the real one forbids. `OnlyKnownWaysStrand` needs
`Entered` (the entry of a task is an operation of this task; nothing is told to
stop while the scheduler is open; a queued task has no cancellation requested). An
attempt becomes queued under a caller that will submit it, unless an exception stops
it (`QueuedBySubmitter`), and that goes on to do so (`StaysSubmitting`); a new
operation looks at it (`SubmittedIsScheduled`); an operation that is going to look
does, unless the control refuses its claim or an exception leaves it
(`StaysScheduled`); what remains is a submission answered with an operation that
has an older attempt or is past its look.

### Admission (`AdmissionProofs`)

Assumption: `AdmissionAssumption`. `WithinContract` is not inductive: that a new
permit fits depends on the counter, the limit and who else holds one. `Counted`
says that the counter is the number of requests that hold a permit (a statement
about the cardinality of a set that grows and shrinks by one), `UnderCeiling` that
whoever asked keeps the limit down to the ceiling of its task, `OneHolder` that no
attempt reserves the key of the requests. `UnsettledInWave`, `WavesOrdered`,
`Fits`, `CallsOfRunning` and `Blank` say which requests a source can have at its
cursor, and `HopeKept` that a retryable failure without a final one has made its
source retryable: `ContractKept`, `PermitsNeverDrift`, `WavesDisciplined`,
`RetryableNeverHidden`.

`KeepsLifecycle` is the counterpart of the scheduler's. `ReservedKeyNeverCools`
is the other half of disagreement 3: the key under which attempts are reserved
never cools down, so no claim ever waits for a cooldown. `AttemptsGoOn` is the
safety kernel of `AttemptsEnd`: while an attempt is under way and ingest is not
paused, some attempt can go on (`Goes`), and a cancelled one can by itself. Its
invariant `GoInv` adds that no request counts against the reserved key, that a
request waits for a permit only when there is a limit, and that every request of
an open wave has been asked. TLC checked on the instance of the run that `Goes`
is `ENABLED` of the steps it stands for. What liveness needs beyond it is
fairness, and stays with TLC.

### Runs (`RunProofs`)

Assumption: `RunsAssumption`. What makes it hard is that every actor carries a
copy. `Roles` says where each kind of actor may be, `Known` that whoever works on
a run works on one that has a record, `Asked` that a cancellation in a record or
a copy was asked for and an empty file found stale, `Seen` that behind a
cancellation nobody overlapped each copy that will be written has it,
`Announced` that a copy with a terminal status is of a run whose event is
written, `Once` that a run is queued and taken once, and `Reported` that a
heartbeat which will write behind the end has read that end. From them
`OutcomeAlwaysReported`, `CancellationSticks` and `EndsAnnounced`.

Two more theorems are about the moment in which a record is empty. `Rewriting`
says that who has a file open for writing is the client that is rewriting this
run; so an empty record comes back, unless that very client's process ends
(`RecordsComeBack`), and the worker thread of the vault, which an empty record
can kill, dies only over a run somebody found stale (`WorkerSurvives`).

### Files and edits (`PageEditsProofs`)

Assumption: `FactFilesAssumption`. `Numbered`: ids are drawn once, so that two
rows differ and an open editor names none that is still to come. `Held`: where
the revisions of the lock holder are at each of its steps. `Accounted`: what is
not registered was left by a crash or is in a worker's hands; with the lock free
no hands hold any. `Looked`: a startup protects what it saw. `Edited`: from the
lock to the commit of an edit its source has the head its editor showed.
`Retained`: what a waiting request names is on disk or was taken by a recorded
release. From them `FactsKeepTheirFiles`, `GarbageIsOfCrashes`, `ImagesAreKept`
and the action property `EditsAreFenced`, for which `HeadMoves` shows that only
commits and purges move a head.

`LockFencesFacts`: `EditSpec => FencedSpec`. Ingests, edits, deletions and startups,
which here have no tasks, leases or epochs, implement `FencedPublication` with the
vault lock as the only token: the parent of a row is derived from the rows (the
newest id of its source below its own), and each commit is the holder's, on the
head. The store keeps the same contract by its fences alone (`IngestStore` leaves
the lock out), so either mechanism suffices for it.

### Chat sessions (`ChatSessionsProofs`)

Assumptions: `ShapeAssumption` (a session is created once, the turns it may begin
with are of different requests, executions are finite in number) and
`SpecialAssumption` (what stands for nothing is not something). The parts of
`IInv`, each because the next needs it:

* `Locked`: who is at the step of the lock holds it, and what the guards left it
  with. `Views`: only the execution that creates the session answers without a
  record; `Unborn`: until it has written, nobody has read anything.
* `Fresh`: what was read is the record, or has a smaller revision, or the record
  was deleted. With it, equal revisions are equal records: `CommitsAreFresh`.
  Without `Unborn` it fails, since a session that is created restarts at revision 1.
* `Once`: a turn that is in the record or was is not written again, and a request
  has one turn there. `Unanswered`: who has looked for its request in vain and is
  up to date may append. `Answers`: what an execution is about to answer is
  recorded: `AnswersAreRecorded`, `TurnsAlwaysSurvive`.
* `Dropping`: the images that go behind a record are of no turn that stays.
  `Drawn`: the image an up-to-date execution is going to show is on disk, unless
  its request was swept: `ImagesKept`.

`ImplementsConversation`: `Spec => TalkSpec`. An execution thinks as long as it may
still record its answer and the record has the revision it saw (`StageOf`); a write
of anybody raises the revision and so ends all thinking, and a deletion does too.
A retry replaces the last turn because it held the lock on an active record
(`TalkInv`). A mark that overwrites a newer record loses the conversation, which is
the only promise `Conversation` does not make.

Lemmas about sequences (`Appended`, `Fronted`, `Removed`, `Listed`) say what the
operators of the record do with its turns.

TLC checked every theorem's property on the instances of section 3 first, and each
`IInv` as an invariant of such an instance. Not in a run, but checked on the
instance of the same name, are `LifecycleSpec` of the scheduler and of admission,
`NobodyIsStuck`, `FencedSpec` of `PageEdits`, `LostOnlyBetweenDiscardAndRequest`,
`RecordsLostOnlyByDyingRewriter`, `WorkerDiesOnlyOverStale`, `ReturnedIsQuiet` and
`CommitsOnWhatItSaw`: their theorems cover what the instances would.


## 7. What is only model-checked

* Liveness: `Recovers`, `ShutdownEnds`, `AttemptsEnd`, `EveryRunSettles`. Fairness
  is stated with `ENABLED`, which the provers do not reason about. The safety halves
  that do not need it are proved: `AttemptsGoOn`, `PreparedSurvives`,
  `RecordsComeBack`.
* Nothing here depends on an induction over data, and no module is recursive.

The type invariants are proved and not listed in a run: the proofs cover what the
instances would.


## 8. What is not modelled

* **Language-model work** (compilation, segmentation, the decisions of the chat
  agent): its results are data and its failures are failed requests.
* **Session windows and source cursors** of `publish_revision`: no connector in
  `src/` produces an incremental document, and nothing calls `source_cursor`, so
  the branch cannot be reached. **Schema migrations**: run once, before anything
  else opens the store.
* **Contents** of fact directories, pages and index generations: hashes and
  verification are taken as the existence of a complete directory, because a
  rename installs them complete.
* **Index staging and readers**: `.staging` of a build is invisible to readers,
  and readers keep no state; what they could see is stated by `ServedView`.
* **The vault lock** is mutual exclusion; its re-entrance per context is visible
  only in that nested calls are one call here.
* **Retrieval, query and lint** read one snapshot and rank or report: functions of
  their input. Their repairs are ingest tasks and forced rebuilds, which are
  modelled.
* **Ledgers, reports, memory, configuration, connectors, shells**: append-only,
  written by one user, or without shared state; `PROJECT.json` gives the reason
  for each.


## 9. Plan

Done: the store, the materializer, files and edits, the scheduler, admission, runs
and chat sessions, each with an inductive invariant. What is left, in the order of
its weight:

1. A composition of `IngestStore` with `PageEdits`, in which the fences of the
   store and the vault lock work together; edits would then publish through tasks.
   Both sides implement `FencedPublication` already.
2. Leases in `ModelAdmission`: a lease that expires during a long wait for a permit,
   and its renewal.
3. Candidates for ingest and previews in `ChatSessions`; the run record an ingest
   writes for the desktop in `RunMonitor`.
4. Pure algorithms checked against a reference definition: evidence selection of
   the retriever, segmentation of a document.
