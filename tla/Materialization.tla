-------------------------- MODULE Materialization --------------------------
(***************************************************************************)
(* Materialization of a vault: storage/materialization.py, the row         *)
(* materialization_state of runtime/transactional_ingest.py, the index     *)
(* directories of storage/wiki_index.py and what delete_page of            *)
(* services/wiki_pages.py does around it.                                  *)
(*                                                                         *)
(* Facts live in SQLite.  From them the materializer writes one Markdown   *)
(* page per source, builds an immutable index generation of the facts and  *)
(* the pages, and moves the pointer file CURRENT to it.  All of this runs  *)
(* under the vault lock, so one caller at a time is inside and pc is the   *)
(* place it is at; "idle" means the lock is free.  Three things ignore the *)
(* lock: an external editor, a failing step and the end of the process.    *)
(*                                                                         *)
(* The fingerprint of the pages is the pages themselves, and the content   *)
(* derived id of a generation is the content.  Staging directories are     *)
(* invisible to every reader and left out: a generation appears with the   *)
(* rename that installs it.  The pages are read at one moment between the  *)
(* two fingerprints.                                                       *)
(***************************************************************************)
EXTENDS Naturals, FiniteSets

CONSTANTS
    Source,
    Edit,            \* what an external editor may leave in a page
    NoIndex,         \* no generation: CURRENT is missing, a column is null
    NoPages,         \* no fingerprint: the column is null
    MaxRevisions,    \* bound: revisions ever published
    MaxEdits,        \* bound: writes of the external editor
    MaxForced,       \* bound: rebuilds somebody forces
    MaxFaults        \* bound: failing steps and process ends

Facts == [Source -> Nat]                  \* active revision, 0 for none
Pages == [Source -> Nat \cup Edit]        \* page of a revision, an edit, 0 for none
Index == [facts : Facts, wiki : Pages]

ASSUME MaterializationAssumption ==
    /\ Edit \cap Nat = {}
    /\ NoIndex \notin Index /\ NoPages \notin Pages
    /\ MaxRevisions \in Nat /\ MaxEdits \in Nat /\ MaxForced \in Nat /\ MaxFaults \in Nat

VARIABLES
    facts,           \* table source_heads
    revisions,       \* revisions ever published; their ids are 1..revisions
    pages,           \* the Markdown tree
    (* the row materialization_state, one variable per column *)
    requestedEpoch, requestedFacts, publishedEpoch, publishedFacts,
    publishedIndex, publishedPages, preparedIndex, preparedPages, phase,
    generations,     \* the index generations on disk
    current,         \* the pointer file CURRENT
    up,              \* startup is over and requests are admitted
    pc,              \* where the holder of the vault lock is
    (* its local variables *)
    todo, before, snapshot, tokenEpoch, tokenFacts, target,
    touched,         \* history: external writes since the first fingerprint
    edits, forced, faults   \* how much of each bound is used

requested == <<requestedEpoch, requestedFacts>>
published == <<publishedEpoch, publishedFacts, publishedIndex, publishedPages>>
prepared == <<preparedIndex, preparedPages>>
row == <<requested, published, prepared, phase>>
disk == <<pages, generations, current>>
locals == <<todo, before, snapshot, tokenEpoch, tokenFacts, target, touched>>
bounds == <<edits, forced, faults>>
vars == <<facts, revisions, disk, row, up, pc, locals, bounds>>

Phase == {"dirty", "building", "prepared", "failed", "clean"}
Place == {"idle", "resume", "begin", "project", "build", "compare", "prepare",
          "publish", "finish", "discard", "again", "unlink", "force", "prune"}

NoFacts == [s \in Source |-> 0]

-----------------------------------------------------------------------------
(* Definitions named ...Mutant are plausible mistakes in the definition    *)
(* that follows them, used by no action.                                   *)

Init ==
    /\ facts = NoFacts /\ revisions = 0
    /\ pages = NoFacts
    /\ requestedEpoch = 1 /\ requestedFacts = NoFacts
    /\ publishedEpoch = 0 /\ publishedFacts = NoFacts
    /\ publishedIndex = NoIndex /\ publishedPages = NoPages
    /\ preparedIndex = NoIndex /\ preparedPages = NoPages
    /\ phase = "dirty"
    /\ generations = {} /\ current = NoIndex
    /\ up = FALSE /\ pc = "idle"
    /\ todo = {} /\ before = NoPages /\ snapshot = NoIndex
    /\ tokenEpoch = 0 /\ tokenFacts = NoFacts /\ target = {}
    /\ touched = 0 /\ edits = 0 /\ forced = 0 /\ faults = 0

(* A call returns and releases the lock; at startup, pruning comes next.   *)
Forget ==
    /\ todo' = {} /\ before' = NoPages /\ snapshot' = NoIndex
    /\ tokenEpoch' = 0 /\ tokenFacts' = NoFacts /\ target' = {} /\ touched' = 0
Return == pc' = (IF up THEN "idle" ELSE "prune") /\ Forget
Raise == pc' = "idle" /\ Forget

(* _request_materialization: every request also forgets what is prepared.  *)
Forgotten == preparedIndex' = NoIndex /\ preparedPages' = NoPages
Request ==
    /\ requestedEpoch' = requestedEpoch + 1
    /\ requestedFacts' = facts'
    /\ phase' = "dirty"
    /\ Forgotten
    /\ UNCHANGED published

-----------------------------------------------------------------------------
(* Facts change: publish_revision and purge_source request in the same     *)
(* transaction, under the vault lock.                                      *)
UnrequestedMutant(s) ==
    /\ up /\ pc = "idle" /\ revisions < MaxRevisions
    /\ revisions' = revisions + 1
    /\ facts' = [facts EXCEPT ![s] = revisions']
    /\ UNCHANGED <<disk, row, up, pc, locals, bounds>>
UnlockedMutant(s) ==
    /\ up /\ revisions < MaxRevisions
    /\ revisions' = revisions + 1
    /\ facts' = [facts EXCEPT ![s] = revisions']
    /\ Request
    /\ UNCHANGED <<disk, up, pc, locals, bounds>>
PublishFacts(s) ==
    /\ up /\ pc = "idle" /\ revisions < MaxRevisions
    /\ revisions' = revisions + 1
    /\ facts' = [facts EXCEPT ![s] = revisions']
    /\ Request
    /\ UNCHANGED <<disk, up, pc, locals, bounds>>

(* delete_page: purge the source of the page, unlink the page, then force  *)
(* a rebuild, all under one lock.                                          *)
DeletePage(s) ==
    /\ up /\ pc = "idle" /\ pages[s] # 0 /\ forced < MaxForced
    /\ target' = {s} /\ pc' = "unlink" /\ forced' = forced + 1
    /\ facts' = [facts EXCEPT ![s] = 0]
    /\ IF facts[s] # 0 THEN Request ELSE UNCHANGED row
    /\ UNCHANGED <<revisions, disk, up, todo, before, snapshot, tokenEpoch, tokenFacts, touched, edits, faults>>

Unlink ==
    /\ pc = "unlink" /\ pc' = "force"
    /\ pages' = [s \in Source |-> IF s \in target THEN 0 ELSE pages[s]]
    /\ target' = {}
    /\ UNCHANGED <<facts, revisions, generations, current, row, up, todo, before, snapshot,
                   tokenEpoch, tokenFacts, touched, bounds>>

(* reconcile, first part: request a rebuild when forced, when CURRENT is   *)
(* not the published generation or cannot be opened, or when the pages are *)
(* not the published ones.                                                 *)
NeedsRebuild ==
    publishedIndex # NoIndex /\ (current \notin generations \/ current # publishedIndex)
ExternalChange == publishedPages # NoPages /\ publishedPages # pages
Look(force) ==
    /\ facts' = facts
    /\ IF force \/ NeedsRebuild \/ ExternalChange THEN Request ELSE UNCHANGED row
    /\ pc' = "resume"
    /\ UNCHANGED <<revisions, disk, up, locals, edits, faults>>

Reconcile == pc = "idle" /\ Look(FALSE) /\ UNCHANGED forced
Rebuild == pc = "idle" /\ up /\ forced < MaxForced /\ forced' = forced + 1 /\ Look(TRUE)
ForceAfterUnlink == pc = "force" /\ Look(TRUE) /\ UNCHANGED forced

(* _resume_prepared: finish what an earlier caller prepared, unless the    *)
(* pages changed since.  A generation that cannot be opened raises.        *)
ResumeStale == preparedPages # pages
Resume ==
    /\ pc = "resume"
    /\ IF phase # "prepared"
       THEN pc' = "begin" /\ UNCHANGED <<snapshot, tokenEpoch, tokenFacts>>
       ELSE /\ preparedIndex \in generations
            /\ pc' = IF ResumeStale THEN "discard" ELSE "publish"
            /\ snapshot' = preparedIndex
            /\ tokenEpoch' = requestedEpoch /\ tokenFacts' = requestedFacts
    /\ UNCHANGED <<facts, revisions, disk, row, up, todo, before, target, touched, bounds>>
ResumeRaises ==
    /\ pc = "resume" /\ phase = "prepared" /\ preparedIndex \notin generations
    /\ Raise
    /\ UNCHANGED <<facts, revisions, disk, row, up, bounds>>

(* begin_materialization                                                   *)
NothingToDoMutant == phase # "dirty"
NothingToDo == phase = "clean" /\ publishedEpoch = requestedEpoch
BeginNothing ==
    /\ pc = "begin" /\ NothingToDo /\ Return
    /\ UNCHANGED <<facts, revisions, disk, row, up, bounds>>
Begin ==
    /\ pc = "begin" /\ ~NothingToDo /\ pc' = "project"
    /\ phase' = "building" /\ preparedIndex' = NoIndex /\ preparedPages' = NoPages
    /\ tokenEpoch' = requestedEpoch /\ tokenFacts' = requestedFacts
    /\ todo' = {s \in Source : facts[s] # 0}
    /\ UNCHANGED <<facts, revisions, disk, requested, published, up, before, snapshot, target, touched,
                   bounds>>

(* _write_projections: one page of an active source at a time; the page of *)
(* a source without facts is left alone.                                   *)
Project(s) ==
    /\ pc = "project" /\ s \in todo
    /\ pages' = [pages EXCEPT ![s] = facts[s]]
    /\ todo' = todo \ {s}
    /\ UNCHANGED <<facts, revisions, generations, current, row, up, pc, before, snapshot, tokenEpoch,
                   tokenFacts, target, touched, bounds>>

Fingerprint ==
    /\ pc = "project" /\ todo = {} /\ pc' = "build"
    /\ before' = pages /\ touched' = 0
    /\ UNCHANGED <<facts, revisions, disk, row, up, todo, snapshot, tokenEpoch, tokenFacts, target,
                   bounds>>

(* prepare_machine_index: a generation of the same content is kept.        *)
Build ==
    /\ pc = "build" /\ pc' = "compare"
    /\ snapshot' = [facts |-> tokenFacts, wiki |-> pages]
    /\ generations' = generations \cup {snapshot'}
    /\ UNCHANGED <<facts, revisions, pages, current, row, up, todo, before, tokenEpoch, tokenFacts,
                   target, touched, bounds>>

StableMutant == TRUE
Stable == before = pages
UnpreparedMutant ==
    /\ pc = "compare"
    /\ pc' = IF Stable THEN "publish" ELSE "discard"
    /\ UNCHANGED <<facts, revisions, disk, row, up, locals, bounds>>
Compare ==
    /\ pc = "compare"
    /\ pc' = IF Stable THEN "prepare" ELSE "discard"
    /\ UNCHANGED <<facts, revisions, disk, row, up, locals, bounds>>

(* prepare_materialization records what will be published; the token still *)
(* names the request, because nobody else holds the lock.                  *)
Prepare ==
    /\ pc = "prepare" /\ pc' = "publish"
    /\ tokenEpoch = requestedEpoch /\ tokenFacts = requestedFacts
    /\ phase' = "prepared" /\ preparedIndex' = snapshot /\ preparedPages' = before
    /\ UNCHANGED <<facts, revisions, disk, requested, published, up, locals, bounds>>

(* _publish_machine_index: verify the generation, replace CURRENT.         *)
Publish ==
    /\ pc = "publish" /\ snapshot \in generations /\ pc' = "finish"
    /\ current' = snapshot
    /\ UNCHANGED <<facts, revisions, pages, generations, row, up, locals, bounds>>

(* finish_materialization                                                  *)
Finish ==
    /\ pc = "finish" /\ Return
    /\ phase = "prepared" /\ preparedIndex = snapshot
    /\ publishedEpoch' = tokenEpoch /\ publishedFacts' = tokenFacts
    /\ publishedIndex' = preparedIndex /\ publishedPages' = preparedPages
    /\ phase' = IF tokenEpoch = requestedEpoch /\ tokenFacts = requestedFacts THEN "clean" ELSE "dirty"
    /\ preparedIndex' = NoIndex /\ preparedPages' = NoPages
    /\ UNCHANGED <<facts, revisions, disk, requested, up, bounds>>

(* _discard_machine_index spares the generation CURRENT names; then the    *)
(* caller requests again and returns without retrying.                     *)
SparedMutant == {}
Spared == {current}
Discard ==
    /\ pc = "discard" /\ pc' = "again"
    /\ generations' = generations \ ({snapshot} \ Spared)
    /\ UNCHANGED <<facts, revisions, pages, current, row, up, locals, bounds>>

RequestAgain ==
    /\ pc = "again" /\ Return
    /\ facts' = facts
    /\ Request
    /\ UNCHANGED <<revisions, disk, up, bounds>>

(* prune_unreachable_index_generations, the last step of startup.          *)
Protected == {current, publishedIndex, preparedIndex}
Prune ==
    /\ pc = "prune" /\ pc' = "idle" /\ up' = TRUE
    /\ generations' = generations \cap Protected
    /\ UNCHANGED <<facts, revisions, pages, current, row, locals, bounds>>

-----------------------------------------------------------------------------
(* A step of the holder fails.  While it builds, the failure is recorded;  *)
(* before and after that the row is left as it is.  At startup the         *)
(* exception ends the process, which is not up anyway.                     *)
Building ==
    \/ pc \in {"project", "build", "compare", "prepare"}
    \/ pc \in {"discard", "again"} /\ phase = "building"
Fail ==
    /\ faults < MaxFaults /\ faults' = faults + 1
    /\ pc # "idle" /\ Raise
    /\ phase' = IF Building THEN "failed" ELSE phase
    /\ UNCHANGED <<facts, revisions, disk, requested, published, prepared, up, edits, forced>>

(* The process ends: the lock is free and the local variables are gone.    *)
Crash ==
    /\ faults < MaxFaults /\ faults' = faults + 1
    /\ pc # "idle" \/ up
    /\ up' = FALSE /\ Raise
    /\ UNCHANGED <<facts, revisions, disk, row, edits, forced>>

(* An editor or a synchronisation tool writes or deletes a page, whatever  *)
(* KnoArbor is doing.                                                      *)
EditExternally(s) ==
    /\ edits < MaxEdits /\ edits' = edits + 1
    /\ touched' = IF before = NoPages THEN 0 ELSE touched + 1
    /\ \E e \in Edit \cup {0} : e # pages[s] /\ pages' = [pages EXCEPT ![s] = e]
    /\ UNCHANGED <<facts, revisions, generations, current, row, up, pc, todo, before, snapshot,
                   tokenEpoch, tokenFacts, target, forced, faults>>

Holder ==
    \/ Unlink \/ ForceAfterUnlink \/ Resume \/ ResumeRaises \/ BeginNothing \/ Begin
    \/ \E s \in Source : Project(s)
    \/ Fingerprint \/ Build \/ Compare \/ Prepare \/ Publish \/ Finish \/ Discard \/ RequestAgain \/ Prune

Next ==
    \/ \E s \in Source : PublishFacts(s) \/ DeletePage(s) \/ EditExternally(s)
    \/ Reconcile \/ Rebuild \/ Holder \/ Fail \/ Crash

(* The holder of the lock goes on.  While something is left to do somebody *)
(* asks for reconciliation: at startup, and after that every ingest task   *)
(* that finds the vault not clean.                                         *)
Wanted == (~up \/ phase # "clean") /\ Reconcile
Fairness == WF_vars(Holder) /\ WF_vars(Wanted)

Spec == Init /\ [][Next]_vars
FairSpec == Spec /\ Fairness

-----------------------------------------------------------------------------
(* Types, and what the place of the holder says about the row.             *)
TypeOK ==
    /\ facts \in Facts /\ revisions \in Nat
    /\ pages \in Pages
    /\ requestedEpoch \in Nat /\ publishedEpoch \in Nat /\ tokenEpoch \in Nat
    /\ {requestedFacts, publishedFacts, tokenFacts} \subseteq Facts
    /\ {publishedIndex, preparedIndex, current, snapshot} \subseteq Index \cup {NoIndex}
    /\ {publishedPages, preparedPages, before} \subseteq Pages \cup {NoPages}
    /\ phase \in Phase
    /\ phase = "prepared" <=> preparedIndex # NoIndex
    /\ preparedIndex # NoIndex <=> preparedPages # NoPages
    /\ generations \subseteq Index
    /\ up \in BOOLEAN /\ pc \in Place
    /\ todo \subseteq Source /\ target \subseteq Source
    /\ touched \in Nat /\ edits \in Nat /\ forced \in Nat /\ faults \in Nat

(* The pointer file never names a directory that is gone, whatever is      *)
(* discarded while builds collide with edits and pruned at startup.        *)
CurrentIsOnDisk == current # NoIndex => current \in generations

(* "clean" is a promise to every caller that stops there: readers are      *)
(* served the generation the row names, it was built from exactly the      *)
(* facts that are active now, and no request is open.                      *)
CleanIsServed ==
    phase = "clean" =>
        /\ current = publishedIndex /\ current # NoIndex
        /\ current.facts = facts
        /\ publishedEpoch = requestedEpoch

(* CURRENT moves only to what the row has recorded as prepared, and never  *)
(* to an index of facts that were superseded while it waited, not even by  *)
(* the recovery that finishes another caller's work after a restart.       *)
SwitchIsPrepared ==
    [][current' # current =>
         /\ phase = "prepared" /\ preparedIndex = current' /\ current' \in generations
         /\ current'.facts = facts]_vars

(* One write of an editor between the two fingerprints is never missed:    *)
(* what is recorded as prepared indexes other pages than the ones whose    *)
(* fingerprint it carries only if a second write undid the first.          *)
SingleEditDetected ==
    [][phase # "prepared" /\ phase' = "prepared" =>
         snapshot.wiki = preparedPages' \/ touched > 1]_vars

(* The prepared generation is gone: nobody can finish it, and every        *)
(* reconciliation, the one at startup included, raises.                    *)
Stuck == phase = "prepared" /\ preparedIndex \notin generations

(* The vault gets there, with the lock free or taken by somebody else, in  *)
(* one way only: the holder fails or its process ends between removing the *)
(* generation it found stale and replacing the row that names it.  And it  *)
(* gets out in one way only: somebody requests a rebuild.                  *)
Lost == Stuck /\ pc # "again"
LostOnlyBetweenDiscardAndRequest ==
    [][ /\ ~Lost /\ Lost' => pc = "again" /\ (Fail \/ Crash)
        /\ Stuck /\ ~Stuck' => requestedEpoch' > requestedEpoch ]_vars

(* Whatever fails and wherever the process ends, requests are admitted     *)
(* again and the vault becomes clean, unless the prepared generation is    *)
(* lost.                                                                   *)
Recovers == (~up \/ phase # "clean") ~> ((up /\ phase = "clean") \/ Stuck)

(* Readers see what ServedView promises.                                   *)
View == INSTANCE ServedView WITH
    NoFacts <- NoIndex,
    wanted <- requestedFacts,
    epoch <- requestedEpoch,
    served <- IF current = NoIndex THEN NoIndex ELSE current.facts,
    confirmed <- publishedEpoch
ViewSpec == View!Spec
=============================================================================
