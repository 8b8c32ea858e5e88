----------------------------- MODULE FactFiles -----------------------------
(***************************************************************************)
(* The files behind the facts: fact directories and retained images        *)
(* (storage/source_revisions.py, storage/ingest_inputs.py), against the    *)
(* rows of the store that make them reachable.                             *)
(*                                                                         *)
(* A submission retains the images of its immutable input, without a lock. *)
(* Later a worker, holding the vault lock, stages a fact directory,        *)
(* renames it into place, commits its row and releases images that only    *)
(* superseded revisions name.  delete_page purges a source, removes its    *)
(* directories and releases its images, under the lock.  The startup of    *)
(* another process prunes staging and directories without a row: it reads  *)
(* the rows first and takes the lock afterwards.  A process may end        *)
(* between any two steps; its task is recovered and runs the same input    *)
(* again.                                                                  *)
(*                                                                         *)
(* A fact directory is verified by its hashes and appears complete by a    *)
(* rename, so it is present or not.  The heads are those of full sources;  *)
(* session windows never release images.  PageEdits puts the actions       *)
(* together with those of the editors.                                     *)
(***************************************************************************)
EXTENDS Naturals, FiniteSets

CONSTANTS
    Source, Image, Worker,
    Nobody,           \* the vault lock is free
    NoSource,         \* the source of an idle worker
    MaxRevisions,     \* bound: revision ids drawn
    MaxPrunes         \* bound: startups that prune

ASSUME FactFilesAssumption ==
    Nobody \notin Worker /\ NoSource \notin Source /\ MaxRevisions \in Nat /\ MaxPrunes \in Nat

VARIABLES
    rows,       \* table source_revisions: [id, source, images]
    head,       \* table source_heads: a revision, 0 for none
    staged,     \* directories under .staging, named by the revision
    dirs,       \* fact directories in place
    images,     \* image files in raw/derived/assets/images
    drawn,      \* revision ids drawn so far
    holder,     \* holder of the vault lock
    (* a worker: where it is, its input, the head it read, the revisions   *)
    (* it writes or removes and the images it may release                  *)
    pc, source, inputs, previous, mine, candidates,
    (* the startup of another process: whether it read the rows, what it   *)
    (* protects, and how many startups there were                          *)
    looking, protected, prunes,
    (* history: the rows there were when it looked, rows it deprived of    *)
    (* their directory, images released under a waiting input, revisions a *)
    (* process left behind when it ended                                   *)
    seen, lost, abandoned

files == <<staged, dirs, images>>
db == <<rows, head>>
mind == <<pc, source, inputs, previous, mine, candidates>>
pruner == <<looking, protected, prunes, seen>>
vars == <<db, files, drawn, holder, mind, pruner, lost, abandoned>>

Place == {"idle", "queued", "stage", "staged", "renamed", "committed", "purge", "purged", "unlinked"}
Waiting == {"queued", "stage", "staged", "renamed"}
Revision == [id : Nat, source : Source, images : SUBSET Image]

RowsOf(s) == {r \in rows : r.source = s}
Active == {r \in rows : r.id = head[r.source]}
Ids(R) == {r.id : r \in R}
ImagesOf(R) == UNION {r.images : r \in R}
Readable(R) == {r \in R : r.id \in dirs}

-----------------------------------------------------------------------------
(* Definitions named ...Mutant are plausible mistakes in the definition    *)
(* that follows them, used by no action.                                   *)

Init ==
    /\ rows = {} /\ head = [s \in Source |-> 0]
    /\ staged = {} /\ dirs = {} /\ images = {}
    /\ drawn = 0 /\ holder = Nobody
    /\ pc = [w \in Worker |-> "idle"]
    /\ source = [w \in Worker |-> NoSource]
    /\ inputs = [w \in Worker |-> {}]
    /\ previous = [w \in Worker |-> 0]
    /\ mine = [w \in Worker |-> {}]
    /\ candidates = [w \in Worker |-> {}]
    /\ looking = FALSE /\ protected = {} /\ prunes = 0 /\ seen = {}
    /\ lost = {} /\ abandoned = {}

Free == holder = Nobody
Goto(w, place) == pc' = [pc EXCEPT ![w] = place]
(* The call of a worker ends; only a recovered task keeps its input.       *)
Leave(w, place) ==
    /\ Goto(w, place) /\ holder' = Nobody
    /\ source' = [source EXCEPT ![w] = IF place = "idle" THEN NoSource ELSE source[w]]
    /\ inputs' = [inputs EXCEPT ![w] = IF place = "idle" THEN {} ELSE inputs[w]]
    /\ previous' = [previous EXCEPT ![w] = 0]
    /\ mine' = [mine EXCEPT ![w] = {}]
    /\ candidates' = [candidates EXCEPT ![w] = {}]

(* write_input_generation retains the images of the input, lock or not.    *)
Submit(w, s, I) ==
    /\ pc[w] = "idle"
    /\ Goto(w, "queued")
    /\ source' = [source EXCEPT ![w] = s]
    /\ inputs' = [inputs EXCEPT ![w] = I]
    /\ images' = images \cup I
    /\ UNCHANGED <<db, staged, dirs, drawn, holder, previous, mine, candidates, pruner, lost, abandoned>>

(* publish_revision_draft under the vault lock, up to the first file.      *)
ReleasableBy(w, s) ==
    candidates' = [candidates EXCEPT ![w] =
                     IF head[s] = 0 THEN {} ELSE ImagesOf(Readable(RowsOf(s)))]
Begin(w, s) ==
    /\ Free /\ drawn < MaxRevisions
    /\ holder' = w /\ Goto(w, "stage")
    /\ drawn' = drawn + 1
    /\ mine' = [mine EXCEPT ![w] = {drawn'}]
    /\ previous' = [previous EXCEPT ![w] = head[s]]
    /\ ReleasableBy(w, s)
    /\ UNCHANGED <<db, files, pruner, lost, abandoned>>
Lock(w) == pc[w] = "queued" /\ Begin(w, source[w]) /\ UNCHANGED <<source, inputs>>

Stage(w) ==
    /\ pc[w] = "stage" /\ Goto(w, "staged")
    /\ staged' = staged \cup mine[w]
    /\ UNCHANGED <<db, dirs, images, drawn, holder, source, inputs, previous, mine, candidates, pruner,
                   lost, abandoned>>

Rename(w) ==
    /\ pc[w] = "staged" /\ Goto(w, "renamed")
    /\ staged' = staged \ mine[w]
    /\ dirs' = dirs \cup mine[w]
    /\ UNCHANGED <<db, images, drawn, holder, source, inputs, previous, mine, candidates, pruner, lost,
                   abandoned>>

(* publish_revision, the transaction of IngestStore.                       *)
Commit(w) ==
    /\ pc[w] = "renamed" /\ head[source[w]] = previous[w]
    /\ Goto(w, "committed")
    /\ rows' = rows \cup {[id |-> i, source |-> source[w], images |-> inputs[w]] : i \in mine[w]}
    /\ head' = [head EXCEPT ![source[w]] = CHOOSE i \in mine[w] : TRUE]
    /\ UNCHANGED <<files, drawn, holder, source, inputs, previous, mine, candidates, pruner, lost, abandoned>>

(* The store refuses, or returns the revision an earlier attempt           *)
(* published; the directory is removed.  The task is over or recovered.    *)
RemovedMutant(w) == {}
Removed(w) == mine[w]
Refuse(w) ==
    /\ pc[w] = "renamed"
    /\ \E place \in {"idle", "queued"} : Leave(w, place)
    /\ dirs' = dirs \ Removed(w)
    /\ UNCHANGED <<db, staged, images, drawn, pruner, lost, abandoned>>

(* release_unreferenced_image_assets: after a head was replaced or purged, *)
(* unlink the candidates no active revision names.  It raises, and nothing *)
(* is unlinked, when the directory of an active revision is missing.       *)
RetainingMutant(w) == Active \cap RowsOf(source[w])
Retaining(w) == Active
Released(w) ==
    IF previous[w] # 0 /\ Active = Readable(Active) THEN candidates[w] \ ImagesOf(Retaining(w)) ELSE {}
Release(w) ==
    /\ pc[w] \in {"committed", "unlinked"} /\ Leave(w, "idle")
    /\ images' = images \ Released(w)
    /\ UNCHANGED <<db, staged, dirs, drawn, pruner, lost, abandoned>>

(* delete_page: candidates, rows, directories, images, in this order.      *)
DeletePage(w, s) ==
    /\ pc[w] = "idle" /\ Free /\ head[s] # 0
    /\ holder' = w /\ Goto(w, "purge")
    /\ source' = [source EXCEPT ![w] = s]
    /\ previous' = [previous EXCEPT ![w] = head[s]]
    /\ ReleasableBy(w, s)
    /\ UNCHANGED <<db, files, drawn, inputs, mine, pruner, lost, abandoned>>

Purge(w) ==
    /\ pc[w] = "purge" /\ Goto(w, "purged")
    /\ mine' = [mine EXCEPT ![w] = Ids(RowsOf(source[w]))]
    /\ rows' = rows \ RowsOf(source[w])
    /\ head' = [head EXCEPT ![source[w]] = 0]
    /\ UNCHANGED <<files, drawn, holder, source, inputs, previous, candidates, pruner, lost, abandoned>>

RemoveDirs(w) ==
    /\ pc[w] = "purged" /\ Goto(w, "unlinked")
    /\ dirs' = dirs \ mine[w]
    /\ UNCHANGED <<db, staged, images, drawn, holder, source, inputs, previous, mine, candidates, pruner,
                   lost, abandoned>>

(* The process of a worker ends; a task that has not committed is          *)
(* recovered with the same immutable input.                                *)
End(w, place) ==
    /\ pc[w] \notin {"idle", "queued"} /\ Leave(w, place)
    /\ abandoned' = abandoned \cup (mine[w] \ Ids(rows))
    /\ UNCHANGED <<db, files, drawn, pruner, lost>>
Crash(w) == End(w, IF pc[w] \in Waiting THEN "queued" ELSE "idle")

(* prune_unreachable_fact_artifacts: the rows are read before the lock is  *)
(* taken.                                                                  *)
ProtectMutant == {head[s] : s \in Source}
Protect == Ids(rows)
PruneLook ==
    /\ ~looking /\ prunes < MaxPrunes
    /\ looking' = TRUE /\ prunes' = prunes + 1
    /\ protected' = Protect
    /\ seen' = Ids(rows)
    /\ UNCHANGED <<db, files, drawn, holder, mind, lost, abandoned>>

Prune ==
    /\ looking /\ Free /\ looking' = FALSE
    /\ staged' = {}
    /\ dirs' = dirs \cap protected
    /\ protected' = {} /\ seen' = {}
    /\ lost' = lost \cup (Ids(rows) \ seen)
    /\ abandoned' = abandoned \cap seen
    /\ UNCHANGED <<db, images, drawn, holder, mind, prunes>>

-----------------------------------------------------------------------------
TypeOK ==
    /\ rows \subseteq Revision /\ head \in [Source -> Nat]
    /\ staged \subseteq Nat /\ dirs \subseteq Nat /\ images \subseteq Image
    /\ drawn \in Nat /\ holder \in Worker \cup {Nobody}
    /\ pc \in [Worker -> Place] /\ source \in [Worker -> Source \cup {NoSource}]
    /\ inputs \in [Worker -> SUBSET Image] /\ candidates \in [Worker -> SUBSET Image]
    /\ previous \in [Worker -> Nat] /\ mine \in [Worker -> SUBSET Nat]
    /\ looking \in BOOLEAN /\ prunes \in Nat
    /\ protected \subseteq Nat /\ seen \subseteq Nat /\ lost \subseteq Nat /\ abandoned \subseteq Nat
    /\ \A w \in Worker : holder = w <=> pc[w] \notin {"idle", "queued"}

(* Every registered revision, superseded ones included, keeps its          *)
(* directory; the only thing that ever takes one away is a startup that    *)
(* read the rows before the revision was committed.                        *)
FactsLostOnlyToStaleLook == Ids(rows) \subseteq dirs \cup lost

(* What nothing refers to was left by a process that ended, and a startup  *)
(* that finds it unregistered reclaims it: no refused, repeated or deleted *)
(* publication leaves a directory behind.                                  *)
GarbageOnlyFromCrashes ==
    holder = Nobody => staged \cup dirs \subseteq Ids(rows) \cup abandoned
=============================================================================
