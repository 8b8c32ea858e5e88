----------------------------- MODULE PageEdits -----------------------------
(***************************************************************************)
(* Edits of a published source (services/projection_edits.py,              *)
(* services/raw_revision_edits.py), on top of FactFiles and beside the     *)
(* ingests and deletions it models.                                        *)
(*                                                                         *)
(* A reader opens the editors of a page: they show the active revision,    *)
(* read without a lock, and carry its id as base_revision_id.  Meanwhile   *)
(* anybody may replace or delete the source.  A projection edit is saved   *)
(* in one call under the vault lock, as the next revision of a task of its *)
(* own.  A raw edit is checked and submitted as an ordinary queued ingest, *)
(* whose publication checks the parent again.  Either carries the images   *)
(* of the revision it replaces, without retaining them a second time.      *)
(*                                                                         *)
(* What is edited is data and not modelled: a save without a change ends   *)
(* as one that is refused.                                                 *)
(***************************************************************************)
EXTENDS FactFiles

VARIABLES
    page,     \* the source whose editors a reader has open
    base,     \* base_revision_id, the revision they show; 0 for none
    kind,     \* what the worker does: a "request", or a "raw" or "projection" edit
    stolen    \* history: images released under the waiting input of a request

edits == <<page, base, kind>>
allvars == <<vars, edits, stolen>>

EditInit ==
    /\ Init
    /\ page = [w \in Worker |-> NoSource]
    /\ base = [w \in Worker |-> 0]
    /\ kind = [w \in Worker |-> "request"]
    /\ stolen = {}

Closed(w) ==
    /\ page' = [page EXCEPT ![w] = NoSource]
    /\ base' = [base EXCEPT ![w] = 0]
    /\ kind' = [kind EXCEPT ![w] = "request"]
(* The editor of an edit goes when its call, or its task, is over.         *)
Follow(w) == IF pc'[w] = "idle" THEN Closed(w) ELSE UNCHANGED edits

(* read_projection_edit and read_raw_revision_editor; every active         *)
(* revision is verified on the way.                                        *)
OpenEditor(w, s) ==
    /\ pc[w] = "idle" /\ base[w] = 0
    /\ head[s] # 0 /\ Active = Readable(Active)
    /\ page' = [page EXCEPT ![w] = s]
    /\ base' = [base EXCEPT ![w] = head[s]]
    /\ UNCHANGED <<vars, kind, stolen>>

(* Left alone, refused as stale or unchanged, or failed before anything    *)
(* was written: a page that is gone, a claim refused while paused.         *)
CloseEditor(w) ==
    /\ pc[w] = "idle" /\ base[w] # 0 /\ Closed(w)
    /\ UNCHANGED <<vars, stolen>>

Shown(w) == base[w] # 0 /\ base[w] = head[page[w]] /\ Active = Readable(Active)
ShownImages(w) == ImagesOf({r \in rows : r.id = base[w]})

(* _commit_projection_edit, up to the first file.                          *)
SaveProjection(w) ==
    /\ pc[w] = "idle" /\ Shown(w)
    /\ Begin(w, page[w])
    /\ source' = [source EXCEPT ![w] = page[w]]
    /\ inputs' = [inputs EXCEPT ![w] = ShownImages(w)]
    /\ kind' = [kind EXCEPT ![w] = "projection"]
    /\ UNCHANGED <<page, base, stolen>>

(* build_raw_revision_ingest_request, and the submission of its task.      *)
SubmitRaw(w) ==
    /\ pc[w] = "idle" /\ Shown(w)
    /\ Goto(w, "queued")
    /\ source' = [source EXCEPT ![w] = page[w]]
    /\ inputs' = [inputs EXCEPT ![w] = ShownImages(w)]
    /\ kind' = [kind EXCEPT ![w] = "raw"]
    /\ UNCHANGED <<db, files, drawn, holder, previous, mine, candidates, pruner, lost, abandoned,
                   page, base, stolen>>

(* _validate_raw_revision_parent, under the lock of the publication.       *)
ParentHoldsMutant(w) == TRUE
ParentHolds(w) == kind[w] = "raw" => base[w] = head[source[w]] /\ Active = Readable(Active)
Publish(w) == ParentHolds(w) /\ Lock(w) /\ UNCHANGED <<edits, stolen>>
ParentReplaced(w) ==
    /\ pc[w] = "queued" /\ Free /\ ~ParentHolds(w)
    /\ Goto(w, "idle") /\ Closed(w)
    /\ source' = [source EXCEPT ![w] = NoSource]
    /\ inputs' = [inputs EXCEPT ![w] = {}]
    /\ UNCHANGED <<db, files, drawn, holder, previous, mine, candidates, pruner, lost, abandoned,
                   stolen>>

(* A refused publication ends the task of an edit of a projection, and so  *)
(* does the end of its process: no executor runs such a task again.        *)
RefuseEdit(w) == Refuse(w) /\ (kind[w] = "projection" => pc'[w] = "idle") /\ Follow(w) /\ UNCHANGED stolen
EndEdit(w) ==
    /\ IF kind[w] = "projection" THEN End(w, "idle") ELSE Crash(w)
    /\ Follow(w) /\ UNCHANGED stolen

ReleaseImages(w) ==
    /\ Release(w) /\ Follow(w)
    /\ stolen' = stolen \cup (Released(w) \cap
         UNION {inputs[v] : v \in {v \in Worker : pc[v] \in Waiting /\ kind[v] = "request"}})

Request(w) ==
    /\ base[w] = 0
    /\ \/ \E s \in Source, I \in SUBSET Image : Submit(w, s, I)
       \/ \E s \in Source : DeletePage(w, s)

EditNext ==
    \/ \E w \in Worker :
         \/ \E s \in Source : OpenEditor(w, s)
         \/ CloseEditor(w) \/ SaveProjection(w) \/ SubmitRaw(w)
         \/ Publish(w) \/ ParentReplaced(w) \/ RefuseEdit(w) \/ EndEdit(w) \/ ReleaseImages(w)
         \/ (Request(w) \/ Stage(w) \/ Rename(w) \/ Commit(w) \/ Purge(w) \/ RemoveDirs(w)) /\ UNCHANGED <<edits, stolen>>
    \/ (PruneLook \/ Prune) /\ UNCHANGED <<edits, stolen>>

EditSpec == EditInit /\ [][EditNext]_allvars

-----------------------------------------------------------------------------
EditTypeOK ==
    /\ TypeOK
    /\ page \in [Worker -> Source \cup {NoSource}] /\ base \in [Worker -> Nat]
    /\ kind \in [Worker -> {"request", "raw", "projection"}] /\ stolen \subseteq Image

(* An edit replaces the revision its editor showed and no other: not one   *)
(* that an ingest, another edit or a later publication of the same source  *)
(* put in its place while the editor was open, the raw edit queued or its  *)
(* process restarted; and it never brings back a source that was deleted   *)
(* (docs/API.md:813 and :830).                                             *)
EditsReplaceWhatTheyShowed ==
    [][\A w \in Worker, s \in Source :
         kind[w] # "request" /\ head'[s] # head[s] /\ head'[s] \in mine[w] => head[s] = base[w]]_allvars

(* The images of the active revisions are on disk although an edit only    *)
(* names those of its parent and never retains them again: what may be     *)
(* missing was released under the input of a request that waited to be     *)
(* published.                                                              *)
ImagesLostOnlyToRequests == ImagesOf(Active) \subseteq images \cup stolen

(* What happens to the facts is a fenced publication whose only task is    *)
(* the vault lock: a revision is built on the one before it in its source. *)
Earlier(r) == {q.id : q \in {q \in RowsOf(r.source) : q.id < r.id}}
BuiltOn(r) == IF Earlier(r) = {} THEN 0 ELSE CHOOSE i \in Earlier(r) : \A j \in Earlier(r) : j <= i
Log == {[id |-> r.id, source |-> r.source, on |-> BuiltOn(r), task |-> "vault"] : r \in rows}

Fencing == INSTANCE FencedPublication WITH
    Task <- {"vault"}, holder <- [t \in {"vault"} |-> holder], log <- Log, latest <- head,
    Revision <- 1..MaxRevisions

(* With nothing but the lock, ingests, edits, deletions and startups       *)
(* together keep the contract that the store keeps by its own fences       *)
(* (storage/vault_lock.py, storage/source_revisions.py).                   *)
FencedSpec == Fencing!Spec
=============================================================================
