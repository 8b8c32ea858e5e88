-------------------------- MODULE PageEditsProofs --------------------------
(***************************************************************************)
(* Theorems about the files of facts and images and about edits, for any   *)
(* workers, sources and images and any number of revisions and startups.   *)
(***************************************************************************)
EXTENDS PageEdits, TLAPS

Publishing == {"stage", "staged", "renamed"}

(* Revision ids are drawn once: they tell rows apart, and a head or an     *)
(* open editor names none that is still to be drawn.                       *)
Numbered ==
    /\ \A r \in rows : r.id \in 1..drawn
    /\ \A r, q \in rows : r.id = q.id => r = q
    /\ \A s \in Source : head[s] # 0 => \E r \in rows : r.id = head[s] /\ r.source = s
    /\ \A w \in Worker : base[w] <= drawn

(* Where the revisions of the lock holder are, step by step.               *)
Held ==
    \A w \in Worker :
        /\ pc[w] # "idle" => source[w] \in Source
        /\ pc[w] \in {"idle", "queued", "purge"} => mine[w] = {}
        /\ pc[w] \in Publishing => 
             mine[w] = {drawn} /\ mine[w] \cap Ids(rows) = {} /\ \A v \in Worker : base[v] < drawn
        /\ pc[w] = "renamed" => mine[w] \subseteq dirs /\ mine[w] \cap staged = {}
        /\ pc[w] = "committed" => mine[w] \subseteq Ids(rows)
        /\ pc[w] \in {"purged", "unlinked"} => mine[w] \cap (Ids(rows) \cup staged) = {}
        /\ pc[w] = "unlinked" => mine[w] \cap dirs = {}

(* Nothing is staged that is registered, and what is not registered is     *)
(* garbage of a crash or in the hands of a worker.                         *)
Accounted ==
    /\ staged \cap Ids(rows) = {}
    /\ \A i \in staged \cup dirs : i \in Ids(rows) \cup abandoned \/ \E w \in Worker : i \in mine[w]

(* A startup protects what it saw.                                         *)
Looked == looking => protected = seen

(* An edit works for the page of its editor, carries the images of the     *)
(* revision shown, and has the head it shows from the lock to the commit.  *)
Edited ==
    \A w \in Worker :
        /\ pc[w] = "idle" => kind[w] = "request"
        /\ kind[w] = "projection" => pc[w] # "queued"
        /\ pc[w] \in Waiting /\ kind[w] # "request" =>
             /\ base[w] # 0
             /\ \A r \in rows : r.id = base[w] => r.images = inputs[w]
        /\ pc[w] \in Publishing /\ kind[w] # "request" => head[source[w]] = base[w]
        /\ base[w] # 0 => page[w] \in Source

(* The images of a waiting request were retained by it; only a release     *)
(* that is recorded takes them.                                            *)
Retained ==
    \A w \in Worker : pc[w] \in Waiting /\ kind[w] = "request" => inputs[w] \subseteq images \cup stolen

IInv == /\ EditTypeOK /\ Numbered /\ Held /\ Accounted /\ Looked /\ Edited /\ Retained
        /\ FactsLostOnlyToStaleLook /\ ImagesLostOnlyToRequests

-----------------------------------------------------------------------------
(* What rows are made of, and what an editor shows: the images of the one  *)
(* row it names.                                                           *)
LEMMA RowParts ==
    ASSUME TypeOK, NEW R \in SUBSET rows
    PROVE  Ids(R) \subseteq Nat /\ ImagesOf(R) \subseteq Image /\ R \subseteq Revision
BY DEF TypeOK, Ids, ImagesOf, Revision

LEMMA ShowsOneRow ==
    ASSUME Numbered, NEW w \in Worker, NEW r \in rows, r.id = base[w]
    PROVE  ShownImages(w) = r.images
<1>1. {q \in rows : q.id = base[w]} = {r}
  BY DEF Numbered
<1> QED BY <1>1 DEF ShownImages, ImagesOf

(* The one revision of a publication is the one that is committed.         *)
LEMMA CommitsOne ==
    ASSUME NEW w \in Worker, Held, TypeOK, Commit(w)
    PROVE  /\ rows' = rows \cup {[id |-> drawn, source |-> source[w], images |-> inputs[w]]}
           /\ head' = [head EXCEPT ![source[w]] = drawn]
           /\ mine[w] = {drawn} /\ source[w] \in Source /\ drawn \notin Ids(rows) /\ drawn \in Nat
<1>1. mine[w] = {drawn} /\ source[w] \in Source /\ drawn \notin Ids(rows) /\ drawn \in Nat
  BY DEF Commit, Held, Publishing, TypeOK
<1>2. (CHOOSE i \in {drawn} : TRUE) = drawn
  OBVIOUS
<1> QED BY <1>1, <1>2 DEF Commit

(* A worker that leaves gives the lock back and keeps its types.            *)
LEMMA LeaveTyped ==
    ASSUME TypeOK, NEW w \in Worker, NEW place \in {"idle", "queued"},
           pc[w] \notin {"idle", "queued"}, Leave(w, place)
    PROVE  /\ holder' \in Worker \cup {Nobody}
           /\ pc' \in [Worker -> Place] /\ source' \in [Worker -> Source \cup {NoSource}]
           /\ inputs' \in [Worker -> SUBSET Image] /\ candidates' \in [Worker -> SUBSET Image]
           /\ previous' \in [Worker -> Nat] /\ mine' \in [Worker -> SUBSET Nat]
           /\ \A v \in Worker : holder' = v <=> pc'[v] \notin {"idle", "queued"}
BY FactFilesAssumption DEF TypeOK, Leave, Goto, Place

LEMMA FollowTyped ==
    ASSUME EditTypeOK, NEW w \in Worker, Follow(w)
    PROVE  /\ page' \in [Worker -> Source \cup {NoSource}] /\ base' \in [Worker -> Nat]
           /\ kind' \in [Worker -> {"request", "raw", "projection"}]
BY DEF EditTypeOK, Follow, Closed, edits

(* An editor is opened.                                                    *)
LEMMA OpenStep ==
    ASSUME NEW w \in Worker, NEW s \in Source, IInv, OpenEditor(w, s)
    PROVE  IInv'
<1> USE FactFilesAssumption
<1>0. /\ EditTypeOK /\ Numbered /\ Held /\ Accounted /\ Looked
      /\ Edited /\ Retained /\ FactsLostOnlyToStaleLook /\ ImagesLostOnlyToRequests
  BY DEF IInv
<1>a. ASSUME NEW v \in Worker, pc[v] \in Publishing PROVE head[s] < drawn
  <2>1. PICK r \in rows : r.id = head[s]
    BY <1>0 DEF OpenEditor, Numbered
  <2>2. r.id \in 1..drawn /\ r.id \in Ids(rows) /\ drawn \notin Ids(rows)
    BY <1>0, <1>a DEF Numbered, Held, Ids
  <2>3. drawn \in Nat /\ head[s] \in Nat
    BY <1>0 DEF EditTypeOK, TypeOK
  <2> QED BY <2>1, <2>2, <2>3
<1>1. EditTypeOK'
  BY <1>0 DEF EditTypeOK, TypeOK, OpenEditor, db, files, mind, pruner, vars
<1>2. Numbered'
  BY <1>0 DEF Numbered, OpenEditor, db, vars
<1>3. Held'
  BY <1>0, <1>a DEF Held, OpenEditor, db, files, mind, vars
<1>4. Accounted'
  BY <1>0 DEF Accounted, OpenEditor, db, files, mind, vars
<1>5. Looked'
  BY <1>0 DEF Looked, OpenEditor, pruner, vars
<1>6. Edited'
  BY <1>0 DEF Edited, EditTypeOK, OpenEditor, db, mind, vars
<1>7. Retained'
  BY <1>0 DEF Retained, OpenEditor, files, mind, vars
<1>8. FactsLostOnlyToStaleLook'
  BY <1>0 DEF FactsLostOnlyToStaleLook, OpenEditor, db, files, vars
<1>9. ImagesLostOnlyToRequests'
  BY <1>0 DEF ImagesLostOnlyToRequests, Active, OpenEditor, db, files, vars
<1> QED BY <1>1, <1>2, <1>3, <1>4, <1>5, <1>6, <1>7, <1>8, <1>9 DEF IInv

(* An editor is closed.                                                    *)
LEMMA CloseStep ==
    ASSUME NEW w \in Worker, IInv, CloseEditor(w)
    PROVE  IInv'
<1> USE FactFilesAssumption
<1>0. /\ EditTypeOK /\ Numbered /\ Held /\ Accounted /\ Looked
      /\ Edited /\ Retained /\ FactsLostOnlyToStaleLook /\ ImagesLostOnlyToRequests
  BY DEF IInv
<1>1. EditTypeOK'
  BY <1>0 DEF EditTypeOK, TypeOK, CloseEditor, Closed, db, files, mind, pruner, vars
<1>2. Numbered'
  BY <1>0 DEF Numbered, EditTypeOK, TypeOK, CloseEditor, Closed, db, vars
<1>3. Held'
  BY <1>0 DEF Held, EditTypeOK, TypeOK, CloseEditor, Closed, db, files, mind, vars
<1>4. Accounted'
  BY <1>0 DEF Accounted, CloseEditor, db, files, mind, vars
<1>5. Looked'
  BY <1>0 DEF Looked, CloseEditor, pruner, vars
<1>6. Edited'
  BY <1>0 DEF Edited, EditTypeOK, CloseEditor, Closed, db, mind, vars
<1>7. Retained'
  BY <1>0 DEF Retained, Waiting, CloseEditor, Closed, files, mind, vars
<1>8. FactsLostOnlyToStaleLook'
  BY <1>0 DEF FactsLostOnlyToStaleLook, CloseEditor, db, files, vars
<1>9. ImagesLostOnlyToRequests'
  BY <1>0 DEF ImagesLostOnlyToRequests, Active, CloseEditor, db, files, vars
<1> QED BY <1>1, <1>2, <1>3, <1>4, <1>5, <1>6, <1>7, <1>8, <1>9 DEF IInv

(* A projection edit takes the lock.                                       *)
LEMMA SaveStep ==
    ASSUME NEW w \in Worker, IInv, SaveProjection(w)
    PROVE  IInv'
<1> USE FactFilesAssumption
<1>0. /\ EditTypeOK /\ Numbered /\ Held /\ Accounted /\ Looked
      /\ Edited /\ Retained /\ FactsLostOnlyToStaleLook /\ ImagesLostOnlyToRequests
  BY DEF IInv
<1>a. \A v \in Worker : ShownImages(v) \in SUBSET Image
  BY <1>0, RowParts DEF EditTypeOK, ShownImages
<1>b. \A s_1 \in Source : ImagesOf(Readable(RowsOf(s_1))) \in SUBSET Image
  BY <1>0, RowParts DEF EditTypeOK, Readable, RowsOf
<1>c. \A r \in rows : r.id = base[w] => ShownImages(w) = r.images
  BY <1>0, ShowsOneRow
<1>1. EditTypeOK'
  BY <1>0, <1>a, <1>b DEF EditTypeOK, TypeOK, Place, SaveProjection, Begin, Free, Goto,
       ReleasableBy, Shown, db, files, pruner, Edited
<1>2. Numbered'
  BY <1>0 DEF Numbered, EditTypeOK, TypeOK, SaveProjection, Begin, db
<1>3. Held'
  BY <1>0 DEF Held, Publishing, Ids, EditTypeOK, TypeOK, Numbered, SaveProjection, Begin, Free,
       Goto, Shown, db, Edited
<1>4. Accounted'
  BY <1>0 DEF Accounted, Held, SaveProjection, Begin, db, files
<1>5. Looked'
  BY <1>0 DEF Looked, SaveProjection, Begin, pruner
<1>6. Edited'
  BY <1>0, <1>c DEF Edited, EditTypeOK, TypeOK, SaveProjection, Begin, Goto, Shown, db
<1>7. Retained'
  BY <1>0 DEF Retained, EditTypeOK, SaveProjection, Begin, Goto, files
<1>8. FactsLostOnlyToStaleLook'
  BY <1>0 DEF FactsLostOnlyToStaleLook, SaveProjection, Begin, db, files
<1>9. ImagesLostOnlyToRequests'
  BY <1>0 DEF ImagesLostOnlyToRequests, Active, SaveProjection, Begin, db, files
<1> QED BY <1>1, <1>2, <1>3, <1>4, <1>5, <1>6, <1>7, <1>8, <1>9 DEF IInv

(* A raw edit is submitted.                                                *)
LEMMA RawStep ==
    ASSUME NEW w \in Worker, IInv, SubmitRaw(w)
    PROVE  IInv'
<1> USE FactFilesAssumption
<1>0. /\ EditTypeOK /\ Numbered /\ Held /\ Accounted /\ Looked
      /\ Edited /\ Retained /\ FactsLostOnlyToStaleLook /\ ImagesLostOnlyToRequests
  BY DEF IInv
<1>a. \A v \in Worker : ShownImages(v) \in SUBSET Image
  BY <1>0, RowParts DEF EditTypeOK, ShownImages
<1>c. \A r \in rows : r.id = base[w] => ShownImages(w) = r.images
  BY <1>0, ShowsOneRow
<1>1. EditTypeOK'
  BY <1>0, <1>a DEF EditTypeOK, TypeOK, Place, SubmitRaw, Goto, db, files, pruner
<1>2. Numbered'
  BY <1>0 DEF Numbered, SubmitRaw, db
<1>3. Held'
  BY <1>0 DEF Held, Publishing, EditTypeOK, TypeOK, SubmitRaw, Goto, Shown, db, files, Edited
<1>4. Accounted'
  BY <1>0 DEF Accounted, SubmitRaw, db, files
<1>5. Looked'
  BY <1>0 DEF Looked, SubmitRaw, pruner
<1>6. Edited'
  BY <1>0, <1>c DEF Edited, EditTypeOK, TypeOK, SubmitRaw, Goto, Shown, db
<1>7. Retained'
  BY <1>0 DEF Retained, EditTypeOK, SubmitRaw, Goto, files
<1>8. FactsLostOnlyToStaleLook'
  BY <1>0 DEF FactsLostOnlyToStaleLook, SubmitRaw, db, files
<1>9. ImagesLostOnlyToRequests'
  BY <1>0 DEF ImagesLostOnlyToRequests, Active, SubmitRaw, db, files
<1> QED BY <1>1, <1>2, <1>3, <1>4, <1>5, <1>6, <1>7, <1>8, <1>9 DEF IInv

(* A queued ingest takes the lock.                                         *)
LEMMA PublishStep ==
    ASSUME NEW w \in Worker, IInv, Publish(w)
    PROVE  IInv'
<1> USE FactFilesAssumption
<1>0. /\ EditTypeOK /\ Numbered /\ Held /\ Accounted /\ Looked
      /\ Edited /\ Retained /\ FactsLostOnlyToStaleLook /\ ImagesLostOnlyToRequests
  BY DEF IInv
<1>b. \A s_1 \in Source : ImagesOf(Readable(RowsOf(s_1))) \in SUBSET Image
  BY <1>0, RowParts DEF EditTypeOK, Readable, RowsOf
<1>1. EditTypeOK'
  BY <1>0, <1>b DEF EditTypeOK, TypeOK, Place, Publish, Lock, Begin, Free, Goto, ReleasableBy,
       edits, db, files, pruner, Held
<1>2. Numbered'
  BY <1>0 DEF Numbered, EditTypeOK, TypeOK, Publish, Lock, Begin, edits, db
<1>3. Held'
  BY <1>0 DEF Held, Publishing, Ids, EditTypeOK, TypeOK, Numbered, Publish, Lock, Begin, Free, Goto,
       edits, db
<1>4. Accounted'
  BY <1>0 DEF Accounted, Held, Publish, Lock, Begin, db, files
<1>5. Looked'
  BY <1>0 DEF Looked, Publish, Lock, Begin, pruner
<1>6. Edited'
  BY <1>0 DEF Edited, Waiting, EditTypeOK, Publish, ParentHolds, Lock, Begin, Goto, edits, db
<1>7. Retained'
  BY <1>0 DEF Retained, Waiting, Publish, Lock, Begin, Goto, edits, files
<1>8. FactsLostOnlyToStaleLook'
  BY <1>0 DEF FactsLostOnlyToStaleLook, Publish, Lock, Begin, db, files
<1>9. ImagesLostOnlyToRequests'
  BY <1>0 DEF ImagesLostOnlyToRequests, Active, Publish, Lock, Begin, db, files
<1> QED BY <1>1, <1>2, <1>3, <1>4, <1>5, <1>6, <1>7, <1>8, <1>9 DEF IInv

(* A raw edit finds its parent replaced.                                   *)
LEMMA ReplacedStep ==
    ASSUME NEW w \in Worker, IInv, ParentReplaced(w)
    PROVE  IInv'
<1> USE FactFilesAssumption
<1>0. /\ EditTypeOK /\ Numbered /\ Held /\ Accounted /\ Looked
      /\ Edited /\ Retained /\ FactsLostOnlyToStaleLook /\ ImagesLostOnlyToRequests
  BY DEF IInv
<1>1. EditTypeOK'
  BY <1>0 DEF EditTypeOK, TypeOK, Place, ParentReplaced, Goto, Closed, db, files, pruner
<1>2. Numbered'
  BY <1>0 DEF Numbered, EditTypeOK, TypeOK, ParentReplaced, Closed, db
<1>3. Held'
  BY <1>0 DEF Held, Publishing, EditTypeOK, TypeOK, ParentReplaced, Goto, Closed, db, files
<1>4. Accounted'
  BY <1>0 DEF Accounted, ParentReplaced, db, files
<1>5. Looked'
  BY <1>0 DEF Looked, ParentReplaced, pruner
<1>6. Edited'
  BY <1>0 DEF Edited, EditTypeOK, ParentReplaced, Goto, Closed, db
<1>7. Retained'
  BY <1>0 DEF Retained, EditTypeOK, TypeOK, ParentReplaced, Goto, Closed, files
<1>8. FactsLostOnlyToStaleLook'
  BY <1>0 DEF FactsLostOnlyToStaleLook, ParentReplaced, db, files
<1>9. ImagesLostOnlyToRequests'
  BY <1>0 DEF ImagesLostOnlyToRequests, Active, ParentReplaced, db, files
<1> QED BY <1>1, <1>2, <1>3, <1>4, <1>5, <1>6, <1>7, <1>8, <1>9 DEF IInv

(* The store refuses a publication.                                        *)
LEMMA RefuseStep ==
    ASSUME NEW w \in Worker, IInv, RefuseEdit(w)
    PROVE  IInv'
<1> USE FactFilesAssumption
<1>0. /\ EditTypeOK /\ Numbered /\ Held /\ Accounted /\ Looked
      /\ Edited /\ Retained /\ FactsLostOnlyToStaleLook /\ ImagesLostOnlyToRequests
  BY DEF IInv
<1>a. Ids(rows) \subseteq Nat
  BY <1>0, RowParts DEF EditTypeOK
<1>b. PICK place \in {"idle", "queued"} : Leave(w, place)
  BY DEF RefuseEdit, Refuse
<1>1. EditTypeOK'
  <2>1. pc[w] \notin {"idle", "queued"} /\ Follow(w)
    BY <1>0 DEF RefuseEdit, Refuse, Removed
  <2>2. /\ holder' \in Worker \cup {Nobody}
        /\ pc' \in [Worker -> Place] /\ source' \in [Worker -> Source \cup {NoSource}]
        /\ inputs' \in [Worker -> SUBSET Image] /\ candidates' \in [Worker -> SUBSET Image]
        /\ previous' \in [Worker -> Nat] /\ mine' \in [Worker -> SUBSET Nat]
        /\ \A v \in Worker : holder' = v <=> pc'[v] \notin {"idle", "queued"}
    BY <1>0, <1>b, <2>1, LeaveTyped DEF EditTypeOK
  <2>3. /\ page' \in [Worker -> Source \cup {NoSource}] /\ base' \in [Worker -> Nat]
        /\ kind' \in [Worker -> {"request", "raw", "projection"}]
    BY <1>0, <2>1, FollowTyped
  <2> QED BY <1>0, <1>a, <2>2, <2>3 DEF EditTypeOK, TypeOK, RefuseEdit, Refuse, Removed, db, files, pruner
<1>2. Numbered'
  BY <1>0 DEF Numbered, EditTypeOK, TypeOK, RefuseEdit, Refuse, Follow, Closed, edits, db
<1>3. Held'
  BY <1>0 DEF Held, Publishing, EditTypeOK, TypeOK, RefuseEdit, Refuse, Leave, Goto
<1>4. Accounted'
  BY <1>0 DEF Accounted, Held, RefuseEdit, Refuse, Removed, Leave, db
<1>5. Looked'
  BY <1>0 DEF Looked, RefuseEdit, Refuse, pruner
<1>6. Edited'
  BY <1>0 DEF Edited, Waiting, Publishing, EditTypeOK, TypeOK, RefuseEdit, Refuse, Follow, Closed,
       Leave, Goto, edits, db
<1>7. Retained'
  BY <1>0 DEF Retained, Waiting, EditTypeOK, RefuseEdit, Refuse, Follow, Closed, Leave, Goto, edits
<1>8. FactsLostOnlyToStaleLook'
  BY <1>0 DEF FactsLostOnlyToStaleLook, Held, Publishing, RefuseEdit, Refuse, Removed, db
<1>9. ImagesLostOnlyToRequests'
  BY <1>0 DEF ImagesLostOnlyToRequests, Active, RefuseEdit, Refuse, db
<1> QED BY <1>1, <1>2, <1>3, <1>4, <1>5, <1>6, <1>7, <1>8, <1>9 DEF IInv

(* A process ends.                                                         *)
LEMMA EndStep ==
    ASSUME NEW w \in Worker, IInv, EndEdit(w)
    PROVE  IInv'
<1> USE FactFilesAssumption
<1>0. /\ EditTypeOK /\ Numbered /\ Held /\ Accounted /\ Looked
      /\ Edited /\ Retained /\ FactsLostOnlyToStaleLook /\ ImagesLostOnlyToRequests
  BY DEF IInv
<1>a. Ids(rows) \subseteq Nat
  BY <1>0, RowParts DEF EditTypeOK
<1>z. \A v \in Worker : v # w => pc[v] \in {"idle", "queued"} /\ mine[v] = {}
  BY <1>0 DEF EditTypeOK, TypeOK, Held, EndEdit, End, Crash
<1>b. PICK place \in {"idle", "queued"} : Leave(w, place)
  BY DEF EndEdit, End, Crash
<1>c. abandoned' = abandoned \cup (mine[w] \ Ids(rows)) /\ UNCHANGED <<db, files>>
  BY DEF EndEdit, End, Crash
<1>1. EditTypeOK'
  <2>1. pc[w] \notin {"idle", "queued"} /\ Follow(w)
    BY <1>0 DEF EndEdit, End, Crash
  <2>2. /\ holder' \in Worker \cup {Nobody}
        /\ pc' \in [Worker -> Place] /\ source' \in [Worker -> Source \cup {NoSource}]
        /\ inputs' \in [Worker -> SUBSET Image] /\ candidates' \in [Worker -> SUBSET Image]
        /\ previous' \in [Worker -> Nat] /\ mine' \in [Worker -> SUBSET Nat]
        /\ \A v \in Worker : holder' = v <=> pc'[v] \notin {"idle", "queued"}
    BY <1>0, <1>b, <2>1, LeaveTyped DEF EditTypeOK
  <2>3. /\ page' \in [Worker -> Source \cup {NoSource}] /\ base' \in [Worker -> Nat]
        /\ kind' \in [Worker -> {"request", "raw", "projection"}]
    BY <1>0, <2>1, FollowTyped
  <2> QED BY <1>0, <1>a, <2>2, <2>3 DEF EditTypeOK, TypeOK, EndEdit, End, Crash, db, files, pruner
<1>2. Numbered'
  BY <1>0 DEF Numbered, EditTypeOK, TypeOK, EndEdit, End, Crash, Follow, Closed, edits, db
<1>3. Held'
  BY <1>0 DEF Held, Publishing, EditTypeOK, TypeOK, EndEdit, End, Crash, Leave, Goto
<1>4. Accounted'
  BY <1>0, <1>z, <1>b, <1>c DEF Accounted, db, files
<1>5. Looked'
  BY <1>0 DEF Looked, EndEdit, End, Crash, pruner
<1>6. Edited'
  BY <1>0 DEF Edited, Publishing, EditTypeOK, TypeOK, EndEdit, End, Crash, Follow, Closed, Leave,
       Goto, edits, db
<1>7. Retained'
  BY <1>0 DEF Retained, EditTypeOK, TypeOK, EndEdit, End, Crash, Follow, Closed, Leave, Goto, edits,
       files
<1>8. FactsLostOnlyToStaleLook'
  BY <1>0 DEF FactsLostOnlyToStaleLook, EndEdit, End, Crash, db, files
<1>9. ImagesLostOnlyToRequests'
  BY <1>0 DEF ImagesLostOnlyToRequests, Active, EndEdit, End, Crash, db, files
<1> QED BY <1>1, <1>2, <1>3, <1>4, <1>5, <1>6, <1>7, <1>8, <1>9 DEF IInv

(* Images are released.                                                    *)
LEMMA ReleaseStep ==
    ASSUME NEW w \in Worker, IInv, ReleaseImages(w)
    PROVE  IInv'
<1> USE FactFilesAssumption
<1>0. /\ EditTypeOK /\ Numbered /\ Held /\ Accounted /\ Looked
      /\ Edited /\ Retained /\ FactsLostOnlyToStaleLook /\ ImagesLostOnlyToRequests
  BY DEF IInv
<1>1. EditTypeOK'
  BY <1>0 DEF EditTypeOK, TypeOK, Place, ReleaseImages, Release, Follow, Closed, Leave, Goto, db,
       pruner
<1>2. Numbered'
  BY <1>0 DEF Numbered, EditTypeOK, TypeOK, ReleaseImages, Release, Follow, Closed, Leave, Goto, db
<1>3. Held'
  BY <1>0 DEF Held, Publishing, EditTypeOK, TypeOK, ReleaseImages, Release, Leave, Goto
<1>4. Accounted'
  BY <1>0 DEF Accounted, Held, ReleaseImages, Release, Leave, db
<1>5. Looked'
  BY <1>0 DEF Looked, ReleaseImages, Release, pruner
<1>6. Edited'
  BY <1>0 DEF Edited, Waiting, Publishing, EditTypeOK, ReleaseImages, Release, Follow, Closed,
       Leave, Goto, edits, db
<1>7. Retained'
  BY <1>0 DEF Retained, Waiting, EditTypeOK, ReleaseImages, Release, Follow, Closed, Leave, Goto,
       edits
<1>8. FactsLostOnlyToStaleLook'
  BY <1>0 DEF FactsLostOnlyToStaleLook, ReleaseImages, Release, db
<1>9. ImagesLostOnlyToRequests'
  BY <1>0 DEF ImagesLostOnlyToRequests, Active, ReleaseImages, Release, Released, Retaining, db
<1> QED BY <1>1, <1>2, <1>3, <1>4, <1>5, <1>6, <1>7, <1>8, <1>9 DEF IInv

(* A request is submitted.                                                 *)
LEMMA SubmitStep ==
    ASSUME NEW w \in Worker, NEW s \in Source, NEW I \in SUBSET Image, IInv, Submit(w, s, I), base[w] = 0, UNCHANGED <<edits, stolen>>
    PROVE  IInv'
<1> USE FactFilesAssumption
<1>0. /\ EditTypeOK /\ Numbered /\ Held /\ Accounted /\ Looked
      /\ Edited /\ Retained /\ FactsLostOnlyToStaleLook /\ ImagesLostOnlyToRequests
  BY DEF IInv
<1>1. EditTypeOK'
  BY <1>0 DEF EditTypeOK, TypeOK, Place, Submit, Goto, edits, db, pruner
<1>2. Numbered'
  BY <1>0 DEF Numbered, Submit, edits, db
<1>3. Held'
  BY <1>0 DEF Held, Publishing, EditTypeOK, TypeOK, Submit, Goto, edits, db
<1>4. Accounted'
  BY <1>0 DEF Accounted, Submit, db
<1>5. Looked'
  BY <1>0 DEF Looked, Submit, pruner
<1>6. Edited'
  BY <1>0 DEF Edited, Submit, Goto, edits, db
<1>7. Retained'
  BY <1>0 DEF Retained, EditTypeOK, TypeOK, Submit, Goto, edits
<1>8. FactsLostOnlyToStaleLook'
  BY <1>0 DEF FactsLostOnlyToStaleLook, Submit, db
<1>9. ImagesLostOnlyToRequests'
  BY <1>0 DEF ImagesLostOnlyToRequests, Active, Submit, db
<1> QED BY <1>1, <1>2, <1>3, <1>4, <1>5, <1>6, <1>7, <1>8, <1>9 DEF IInv

(* A page is to be deleted.                                                *)
LEMMA DeleteStep ==
    ASSUME NEW w \in Worker, NEW s \in Source, IInv, DeletePage(w, s), UNCHANGED <<edits, stolen>>
    PROVE  IInv'
<1> USE FactFilesAssumption
<1>0. /\ EditTypeOK /\ Numbered /\ Held /\ Accounted /\ Looked
      /\ Edited /\ Retained /\ FactsLostOnlyToStaleLook /\ ImagesLostOnlyToRequests
  BY DEF IInv
<1>b. \A s_1 \in Source : ImagesOf(Readable(RowsOf(s_1))) \in SUBSET Image
  BY <1>0, RowParts DEF EditTypeOK, Readable, RowsOf
<1>1. EditTypeOK'
  BY <1>0, <1>b DEF EditTypeOK, TypeOK, Place, DeletePage, Free, Goto, ReleasableBy, edits, db,
       files, pruner
<1>2. Numbered'
  BY <1>0 DEF Numbered, DeletePage, edits, db
<1>3. Held'
  BY <1>0 DEF Held, Publishing, EditTypeOK, TypeOK, DeletePage, Free, Goto
<1>4. Accounted'
  BY <1>0 DEF Accounted, DeletePage, db, files
<1>5. Looked'
  BY <1>0 DEF Looked, DeletePage, pruner
<1>6. Edited'
  BY <1>0 DEF Edited, DeletePage, Goto, edits, db
<1>7. Retained'
  BY <1>0 DEF Retained, Waiting, DeletePage, Goto, edits, files
<1>8. FactsLostOnlyToStaleLook'
  BY <1>0 DEF FactsLostOnlyToStaleLook, DeletePage, db, files
<1>9. ImagesLostOnlyToRequests'
  BY <1>0 DEF ImagesLostOnlyToRequests, Active, DeletePage, db, files
<1> QED BY <1>1, <1>2, <1>3, <1>4, <1>5, <1>6, <1>7, <1>8, <1>9 DEF IInv

(* A revision is staged.                                                   *)
LEMMA StageStep ==
    ASSUME NEW w \in Worker, IInv, Stage(w), UNCHANGED <<edits, stolen>>
    PROVE  IInv'
<1> USE FactFilesAssumption
<1>0. /\ EditTypeOK /\ Numbered /\ Held /\ Accounted /\ Looked
      /\ Edited /\ Retained /\ FactsLostOnlyToStaleLook /\ ImagesLostOnlyToRequests
  BY DEF IInv
<1>1. EditTypeOK'
  BY <1>0 DEF EditTypeOK, TypeOK, Place, Stage, Goto, edits, db, pruner
<1>2. Numbered'
  BY <1>0 DEF Numbered, Stage, edits, db
<1>3. Held'
  BY <1>0 DEF Held, Publishing, EditTypeOK, TypeOK, Stage, Goto, edits, db
<1>4. Accounted'
  BY <1>0 DEF Accounted, Held, Publishing, Stage, db
<1>5. Looked'
  BY <1>0 DEF Looked, Stage, pruner
<1>6. Edited'
  BY <1>0 DEF Edited, Waiting, Publishing, Stage, Goto, edits, db
<1>7. Retained'
  BY <1>0 DEF Retained, Waiting, Stage, Goto, edits
<1>8. FactsLostOnlyToStaleLook'
  BY <1>0 DEF FactsLostOnlyToStaleLook, Stage, db
<1>9. ImagesLostOnlyToRequests'
  BY <1>0 DEF ImagesLostOnlyToRequests, Active, Stage, db
<1> QED BY <1>1, <1>2, <1>3, <1>4, <1>5, <1>6, <1>7, <1>8, <1>9 DEF IInv

(* A revision is put in place.                                             *)
LEMMA RenameStep ==
    ASSUME NEW w \in Worker, IInv, Rename(w), UNCHANGED <<edits, stolen>>
    PROVE  IInv'
<1> USE FactFilesAssumption
<1>0. /\ EditTypeOK /\ Numbered /\ Held /\ Accounted /\ Looked
      /\ Edited /\ Retained /\ FactsLostOnlyToStaleLook /\ ImagesLostOnlyToRequests
  BY DEF IInv
<1>1. EditTypeOK'
  BY <1>0 DEF EditTypeOK, TypeOK, Place, Rename, Goto, edits, db, pruner
<1>2. Numbered'
  BY <1>0 DEF Numbered, Rename, edits, db
<1>3. Held'
  BY <1>0 DEF Held, Publishing, EditTypeOK, TypeOK, Rename, Goto, edits, db
<1>4. Accounted'
  BY <1>0 DEF Accounted, Rename, db
<1>5. Looked'
  BY <1>0 DEF Looked, Rename, pruner
<1>6. Edited'
  BY <1>0 DEF Edited, Waiting, Publishing, Rename, Goto, edits, db
<1>7. Retained'
  BY <1>0 DEF Retained, Waiting, Rename, Goto, edits
<1>8. FactsLostOnlyToStaleLook'
  BY <1>0 DEF FactsLostOnlyToStaleLook, Rename, db
<1>9. ImagesLostOnlyToRequests'
  BY <1>0 DEF ImagesLostOnlyToRequests, Active, Rename, db
<1> QED BY <1>1, <1>2, <1>3, <1>4, <1>5, <1>6, <1>7, <1>8, <1>9 DEF IInv

(* A revision is committed.                                                *)
LEMMA CommitStep ==
    ASSUME NEW w \in Worker, IInv, Commit(w), UNCHANGED <<edits, stolen>>
    PROVE  IInv'
<1> USE FactFilesAssumption
<1>0. /\ EditTypeOK /\ Numbered /\ Held /\ Accounted /\ Looked
      /\ Edited /\ Retained /\ FactsLostOnlyToStaleLook /\ ImagesLostOnlyToRequests
  BY DEF IInv
<1>a. /\ rows' = rows \cup {[id |-> drawn, source |-> source[w], images |-> inputs[w]]}
      /\ head' = [head EXCEPT ![source[w]] = drawn]
      /\ mine[w] = {drawn} /\ source[w] \in Source /\ drawn \notin Ids(rows) /\ drawn \in Nat
  BY <1>0, CommitsOne DEF EditTypeOK
<1>z. \A v \in Worker : v # w => pc[v] \in {"idle", "queued"} /\ mine[v] = {}
  BY <1>0 DEF EditTypeOK, TypeOK, Held, Commit
<1>1. EditTypeOK'
  BY <1>0, <1>a DEF EditTypeOK, TypeOK, Revision, Place, Commit, Goto, edits, files, pruner
<1>2. Numbered'
  <2>1. \A v \in Worker : base[v] < drawn
    BY <1>0 DEF Held, Publishing, Commit
  <2>2. drawn \in 1..drawn
    BY <1>0, <1>a, <2>1 DEF EditTypeOK
  <2>3. \A r \in rows' : r.id \in 1..drawn
    BY <1>0, <1>a, <2>2 DEF Numbered
  <2>4. \A r, q \in rows' : r.id = q.id => r = q
    BY <1>0, <1>a DEF Numbered, Ids
  <2>5. \A s \in Source : head'[s] # 0 => \E r \in rows' : r.id = head'[s] /\ r.source = s
    <3> SUFFICES ASSUME NEW s \in Source, head'[s] # 0
                 PROVE  \E r \in rows' : r.id = head'[s] /\ r.source = s
      OBVIOUS
    <3>1. CASE s = source[w]
      <4> DEFINE r == [id |-> drawn, source |-> source[w], images |-> inputs[w]]
      <4>1. r \in rows' /\ r.id = drawn /\ r.source = s
        BY <1>a, <3>1
      <4>2. head'[s] = drawn
        BY <1>0, <1>a, <3>1 DEF EditTypeOK, TypeOK
      <4> QED BY <4>1, <4>2
    <3>2. CASE s # source[w]
      <4>1. head'[s] = head[s]
        BY <1>0, <1>a, <3>2 DEF EditTypeOK, TypeOK
      <4>2. PICK r \in rows : r.id = head[s] /\ r.source = s
        BY <1>0, <4>1 DEF Numbered
      <4>3. r \in rows'
        BY <1>a
      <4> QED BY <4>1, <4>2, <4>3
    <3> QED BY <3>1, <3>2
  <2> QED BY <1>0, <2>3, <2>4, <2>5 DEF Numbered, Commit, edits
<1>3. Held'
  <2>1. mine' = mine /\ source' = source /\ pc' = [pc EXCEPT ![w] = "committed"]
    BY DEF Commit, Goto
  <2>2. drawn \in Ids(rows')
    BY <1>a DEF Ids
  <2>3. pc'[w] = "committed" /\ mine'[w] \subseteq Ids(rows')
    BY <1>0, <1>a, <2>1, <2>2 DEF EditTypeOK, TypeOK
  <2>4. \A v \in Worker : v # w => pc'[v] = pc[v] /\ pc[v] \in {"idle", "queued"} /\ mine'[v] = {}
    BY <1>0, <1>z, <2>1 DEF EditTypeOK, TypeOK
  <2> QED BY <1>0, <1>a, <2>1, <2>3, <2>4 DEF Held, Publishing
<1>4. Accounted'
  BY <1>0, <1>a DEF Accounted, Ids, Held, Commit, files
<1>5. Looked'
  BY <1>0, <1>a DEF Looked, Commit, pruner
<1>6. Edited'
  BY <1>0, <1>a, <1>z DEF Edited, Waiting, Publishing, EditTypeOK, TypeOK, Held, Commit, Goto, edits
<1>7. Retained'
  BY <1>0, <1>a DEF Retained, Waiting, Commit, Goto, edits, files
<1>8. FactsLostOnlyToStaleLook'
  BY <1>0, <1>a DEF FactsLostOnlyToStaleLook, Ids, Held, Commit, files
<1>9. ImagesLostOnlyToRequests'
  BY <1>0, <1>a DEF ImagesLostOnlyToRequests, ImagesOf, Active, Publishing, Ids, Edited, Waiting,
       Retained, Numbered, Commit, files
<1> QED BY <1>1, <1>2, <1>3, <1>4, <1>5, <1>6, <1>7, <1>8, <1>9 DEF IInv

(* A source is purged.                                                     *)
LEMMA PurgeStep ==
    ASSUME NEW w \in Worker, IInv, Purge(w), UNCHANGED <<edits, stolen>>
    PROVE  IInv'
<1> USE FactFilesAssumption
<1>0. /\ EditTypeOK /\ Numbered /\ Held /\ Accounted /\ Looked
      /\ Edited /\ Retained /\ FactsLostOnlyToStaleLook /\ ImagesLostOnlyToRequests
  BY DEF IInv
<1>a. Ids(rows) \subseteq Nat /\ Ids(RowsOf(source[w])) \subseteq Nat
  BY <1>0, RowParts DEF EditTypeOK, RowsOf
<1>z. \A v \in Worker : v # w => pc[v] \in {"idle", "queued"} /\ mine[v] = {}
  BY <1>0 DEF EditTypeOK, TypeOK, Held, Purge
<1>1. EditTypeOK'
  BY <1>0, <1>a DEF EditTypeOK, TypeOK, Place, Purge, Goto, edits, files, pruner
<1>2. Numbered'
  BY <1>0 DEF Numbered, EditTypeOK, TypeOK, Purge, RowsOf, edits
<1>3. Held'
  <2>1. /\ mine' = [mine EXCEPT ![w] = Ids(RowsOf(source[w]))] /\ rows' = rows \ RowsOf(source[w])
        /\ UNCHANGED <<source, staged>> /\ pc' = [pc EXCEPT ![w] = "purged"]
    BY DEF Purge, Goto, files
  <2>2. Ids(RowsOf(source[w])) \cap (Ids(rows') \cup staged) = {}
    BY <1>0, <2>1 DEF Numbered, Accounted, Ids, RowsOf
  <2>3. pc'[w] = "purged" /\ mine'[w] \cap (Ids(rows') \cup staged') = {}
    BY <1>0, <2>1, <2>2 DEF EditTypeOK, TypeOK
  <2>4. \A v \in Worker : v # w => pc'[v] = pc[v] /\ pc[v] \in {"idle", "queued"} /\ mine'[v] = {}
    BY <1>0, <1>z, <2>1 DEF EditTypeOK, TypeOK
  <2>5. source[w] \in Source
    BY <1>0 DEF Held, Purge
  <2> QED BY <1>0, <2>1, <2>3, <2>4, <2>5 DEF Held, Publishing
<1>4. Accounted'
  BY <1>0 DEF Accounted, Ids, EditTypeOK, TypeOK, Held, Purge, files
<1>5. Looked'
  BY <1>0 DEF Looked, Purge, pruner
<1>6. Edited'
  BY <1>0 DEF Edited, Waiting, Publishing, EditTypeOK, TypeOK, Purge, Goto, edits
<1>7. Retained'
  BY <1>0 DEF Retained, Waiting, Purge, Goto, edits, files
<1>8. FactsLostOnlyToStaleLook'
  BY <1>0 DEF FactsLostOnlyToStaleLook, Ids, Purge, files
<1>9. ImagesLostOnlyToRequests'
  BY <1>0 DEF ImagesLostOnlyToRequests, ImagesOf, Active, Purge, RowsOf, files
<1> QED BY <1>1, <1>2, <1>3, <1>4, <1>5, <1>6, <1>7, <1>8, <1>9 DEF IInv

(* The directories of a purged source go.                                  *)
LEMMA RemoveStep ==
    ASSUME NEW w \in Worker, IInv, RemoveDirs(w), UNCHANGED <<edits, stolen>>
    PROVE  IInv'
<1> USE FactFilesAssumption
<1>0. /\ EditTypeOK /\ Numbered /\ Held /\ Accounted /\ Looked
      /\ Edited /\ Retained /\ FactsLostOnlyToStaleLook /\ ImagesLostOnlyToRequests
  BY DEF IInv
<1>1. EditTypeOK'
  BY <1>0 DEF EditTypeOK, TypeOK, Place, RemoveDirs, Goto, edits, db, pruner
<1>2. Numbered'
  BY <1>0 DEF Numbered, RemoveDirs, edits, db
<1>3. Held'
  BY <1>0 DEF Held, Publishing, EditTypeOK, TypeOK, RemoveDirs, Goto, db
<1>4. Accounted'
  BY <1>0 DEF Accounted, RemoveDirs, db
<1>5. Looked'
  BY <1>0 DEF Looked, RemoveDirs, pruner
<1>6. Edited'
  BY <1>0 DEF Edited, Waiting, Publishing, RemoveDirs, Goto, edits, db
<1>7. Retained'
  BY <1>0 DEF Retained, Waiting, RemoveDirs, Goto, edits
<1>8. FactsLostOnlyToStaleLook'
  BY <1>0 DEF FactsLostOnlyToStaleLook, Held, RemoveDirs, db
<1>9. ImagesLostOnlyToRequests'
  BY <1>0 DEF ImagesLostOnlyToRequests, Active, RemoveDirs, db
<1> QED BY <1>1, <1>2, <1>3, <1>4, <1>5, <1>6, <1>7, <1>8, <1>9 DEF IInv

(* A startup reads the rows.                                               *)
LEMMA LookStep ==
    ASSUME IInv, PruneLook, UNCHANGED <<edits, stolen>>
    PROVE  IInv'
<1> USE FactFilesAssumption
<1>0. /\ EditTypeOK /\ Numbered /\ Held /\ Accounted /\ Looked
      /\ Edited /\ Retained /\ FactsLostOnlyToStaleLook /\ ImagesLostOnlyToRequests
  BY DEF IInv
<1>a. Ids(rows) \subseteq Nat
  BY <1>0, RowParts DEF EditTypeOK
<1>1. EditTypeOK'
  BY <1>0, <1>a DEF EditTypeOK, TypeOK, PruneLook, Protect, edits, db, files, mind
<1>2. Numbered'
  BY <1>0 DEF Numbered, PruneLook, edits, db
<1>3. Held'
  BY <1>0 DEF Held, PruneLook, edits, db, files, mind
<1>4. Accounted'
  BY <1>0 DEF Accounted, PruneLook, db, files, mind
<1>5. Looked'
  BY <1>0 DEF Looked, PruneLook, Protect
<1>6. Edited'
  BY <1>0 DEF Edited, PruneLook, edits, db, mind
<1>7. Retained'
  BY <1>0 DEF Retained, PruneLook, edits, files, mind
<1>8. FactsLostOnlyToStaleLook'
  BY <1>0 DEF FactsLostOnlyToStaleLook, PruneLook, db, files
<1>9. ImagesLostOnlyToRequests'
  BY <1>0 DEF ImagesLostOnlyToRequests, Active, PruneLook, db, files
<1> QED BY <1>1, <1>2, <1>3, <1>4, <1>5, <1>6, <1>7, <1>8, <1>9 DEF IInv

(* A startup prunes.                                                       *)
LEMMA PruneStep ==
    ASSUME IInv, Prune, UNCHANGED <<edits, stolen>>
    PROVE  IInv'
<1> USE FactFilesAssumption
<1>0. /\ EditTypeOK /\ Numbered /\ Held /\ Accounted /\ Looked
      /\ Edited /\ Retained /\ FactsLostOnlyToStaleLook /\ ImagesLostOnlyToRequests
  BY DEF IInv
<1>a. Ids(rows) \subseteq Nat
  BY <1>0, RowParts DEF EditTypeOK
<1>1. EditTypeOK'
  BY <1>0, <1>a DEF EditTypeOK, TypeOK, Prune, edits, db, mind
<1>2. Numbered'
  BY <1>0 DEF Numbered, Prune, edits, db
<1>3. Held'
  BY <1>0 DEF Held, Publishing, EditTypeOK, TypeOK, Prune, Free, mind
<1>4. Accounted'
  BY <1>0 DEF Accounted, Looked, Prune, db, mind
<1>5. Looked'
  BY <1>0 DEF Looked, Prune
<1>6. Edited'
  BY <1>0 DEF Edited, Prune, edits, db, mind
<1>7. Retained'
  BY <1>0 DEF Retained, Prune, edits, mind
<1>8. FactsLostOnlyToStaleLook'
  BY <1>0 DEF FactsLostOnlyToStaleLook, Looked, Prune, db
<1>9. ImagesLostOnlyToRequests'
  BY <1>0 DEF ImagesLostOnlyToRequests, Active, Prune, db
<1> QED BY <1>1, <1>2, <1>3, <1>4, <1>5, <1>6, <1>7, <1>8, <1>9 DEF IInv

(* Nothing happens.                                                        *)
LEMMA StutterStep ==
    ASSUME IInv, UNCHANGED allvars
    PROVE  IInv'
<1> USE FactFilesAssumption
<1>0. /\ EditTypeOK /\ Numbered /\ Held /\ Accounted /\ Looked
      /\ Edited /\ Retained /\ FactsLostOnlyToStaleLook /\ ImagesLostOnlyToRequests
  BY DEF IInv
<1>1. EditTypeOK'
  BY <1>0 DEF EditTypeOK, TypeOK, allvars, edits, db, files, mind, pruner, vars
<1>2. Numbered'
  BY <1>0 DEF Numbered, allvars, edits, db, vars
<1>3. Held'
  BY <1>0 DEF Held, allvars, edits, db, files, mind, vars
<1>4. Accounted'
  BY <1>0 DEF Accounted, allvars, db, files, mind, vars
<1>5. Looked'
  BY <1>0 DEF Looked, allvars, pruner, vars
<1>6. Edited'
  BY <1>0 DEF Edited, allvars, edits, db, mind, vars
<1>7. Retained'
  BY <1>0 DEF Retained, allvars, edits, files, mind, vars
<1>8. FactsLostOnlyToStaleLook'
  BY <1>0 DEF FactsLostOnlyToStaleLook, allvars, db, files, vars
<1>9. ImagesLostOnlyToRequests'
  BY <1>0 DEF ImagesLostOnlyToRequests, Active, allvars, db, files, vars
<1> QED BY <1>1, <1>2, <1>3, <1>4, <1>5, <1>6, <1>7, <1>8, <1>9 DEF IInv

-----------------------------------------------------------------------------
LEMMA Starts == EditInit => IInv
<1> SUFFICES ASSUME EditInit PROVE IInv
  OBVIOUS
<1>1. EditTypeOK
  BY FactFilesAssumption DEF EditInit, Init, EditTypeOK, TypeOK, Place
<1>2. Numbered /\ Held /\ Looked /\ Edited /\ Retained
  BY DEF EditInit, Init, Numbered, Held, Publishing, Looked, Edited, Waiting, Retained, Ids
<1>3. Accounted /\ FactsLostOnlyToStaleLook
  BY DEF EditInit, Init, Accounted, FactsLostOnlyToStaleLook, Ids
<1>4. ImagesLostOnlyToRequests
  <2>1. Active = {}
    BY DEF EditInit, Init, Active
  <2> QED BY <2>1 DEF ImagesLostOnlyToRequests, ImagesOf
<1> QED BY <1>1, <1>2, <1>3, <1>4 DEF IInv

LEMMA Steps == IInv /\ [EditNext]_allvars => IInv'
<1> SUFFICES ASSUME IInv, [EditNext]_allvars PROVE IInv'
  OBVIOUS
<1>1. ASSUME NEW w \in Worker, NEW s \in Source, OpenEditor(w, s) PROVE IInv'
  BY <1>1, OpenStep
<1>2. ASSUME NEW w \in Worker,
             CloseEditor(w) \/ SaveProjection(w) \/ SubmitRaw(w) \/ Publish(w) \/ ParentReplaced(w)
      PROVE  IInv'
  BY <1>2, CloseStep, SaveStep, RawStep, PublishStep, ReplacedStep
<1>3. ASSUME NEW w \in Worker, RefuseEdit(w) \/ EndEdit(w) \/ ReleaseImages(w) PROVE IInv'
  BY <1>3, RefuseStep, EndStep, ReleaseStep
<1>4. ASSUME NEW w \in Worker, Request(w), UNCHANGED <<edits, stolen>> PROVE IInv'
  BY <1>4, SubmitStep, DeleteStep DEF Request
<1>5. ASSUME NEW w \in Worker, Stage(w) \/ Rename(w) \/ Commit(w) \/ Purge(w) \/ RemoveDirs(w),
             UNCHANGED <<edits, stolen>>
      PROVE  IInv'
  BY <1>5, StageStep, RenameStep, CommitStep, PurgeStep, RemoveStep
<1>6. ASSUME PruneLook \/ Prune, UNCHANGED <<edits, stolen>> PROVE IInv'
  BY <1>6, LookStep, PruneStep
<1>7. ASSUME UNCHANGED allvars PROVE IInv'
  BY <1>7, StutterStep
<1> QED BY <1>1, <1>2, <1>3, <1>4, <1>5, <1>6, <1>7 DEF EditNext

(* The inductive invariant holds in every state.                           *)
THEOREM Invariant == EditSpec => []IInv
<1>1. EditInit => IInv
  BY Starts
<1>2. IInv /\ [EditNext]_allvars => IInv'
  BY Steps
<1> QED BY <1>1, <1>2, PTL DEF EditSpec

(* Rows, files and the workers' variables keep their types, and the worker *)
(* at a step behind the lock holds it.                                     *)
THEOREM TypeCorrect == EditSpec => []EditTypeOK
<1>1. IInv => EditTypeOK
  BY DEF IInv
<1> QED BY <1>1, Invariant, PTL

(* A registered revision loses its directory only to a startup that read   *)
(* the rows before the revision was committed.                             *)
THEOREM FactsKeepTheirFiles == EditSpec => []FactsLostOnlyToStaleLook
<1>1. IInv => FactsLostOnlyToStaleLook
  BY DEF IInv
<1> QED BY <1>1, Invariant, PTL

(* With the lock free, what no row refers to was left by a process that    *)
(* ended.                                                                  *)
THEOREM GarbageIsOfCrashes == EditSpec => []GarbageOnlyFromCrashes
<1>1. IInv => GarbageOnlyFromCrashes
  <2> SUFFICES ASSUME IInv, holder = Nobody PROVE staged \cup dirs \subseteq Ids(rows) \cup abandoned
    BY DEF GarbageOnlyFromCrashes
  <2>1. \A w \in Worker : mine[w] = {}
    BY FactFilesAssumption DEF IInv, EditTypeOK, TypeOK, Held
  <2> QED BY <2>1 DEF IInv, Accounted
<1> QED BY <1>1, Invariant, PTL

(* The images of active revisions are on disk, edited ones included,       *)
(* unless they were released under a waiting request.                      *)
THEOREM ImagesAreKept == EditSpec => []ImagesLostOnlyToRequests
<1>1. IInv => ImagesLostOnlyToRequests
  BY DEF IInv
<1> QED BY <1>1, Invariant, PTL

(* Only a commit or a purge changes rows and heads.                        *)
LEMMA FactsMove ==
    ASSUME [EditNext]_allvars, ~UNCHANGED db
    PROVE  \E w \in Worker : Commit(w) \/ Purge(w)
<1>1. ASSUME NEW w \in Worker,
             \/ \E s \in Source : OpenEditor(w, s)
             \/ CloseEditor(w) \/ SaveProjection(w) \/ SubmitRaw(w) \/ Publish(w) \/ ParentReplaced(w)
      PROVE  UNCHANGED db
  BY <1>1 DEF OpenEditor, CloseEditor, SaveProjection, SubmitRaw, Publish, ParentReplaced, Lock, Begin, vars
<1>2. ASSUME NEW w \in Worker,
             RefuseEdit(w) \/ EndEdit(w) \/ ReleaseImages(w) \/ Request(w) \/ Stage(w) \/ Rename(w) \/ RemoveDirs(w)
      PROVE  UNCHANGED db
  BY <1>2 DEF RefuseEdit, Refuse, EndEdit, End, Crash, ReleaseImages, Release, Request, Submit, DeletePage,
     Stage, Rename, RemoveDirs
<1>3. ASSUME PruneLook \/ Prune \/ UNCHANGED allvars PROVE UNCHANGED db
  BY <1>3 DEF PruneLook, Prune, allvars, vars
<1> QED BY <1>1, <1>2, <1>3 DEF EditNext

(* An edit replaces the revision its editor showed and no other.           *)
THEOREM EditsAreFenced == EditSpec => EditsReplaceWhatTheyShowed
<1> DEFINE A == \A w \in Worker, s \in Source :
                  kind[w] # "request" /\ head'[s] # head[s] /\ head'[s] \in mine[w] => head[s] = base[w]
<1>1. ASSUME IInv, [EditNext]_allvars PROVE A
  <2> SUFFICES ASSUME NEW w \in Worker, NEW s \in Source, kind[w] # "request",
                      head'[s] # head[s], head'[s] \in mine[w]
               PROVE  head[s] = base[w]
    OBVIOUS
  <2>1. EditTypeOK /\ TypeOK /\ Numbered /\ Held /\ Edited
    BY <1>1 DEF IInv, EditTypeOK
  <2>2. PICK v \in Worker : Commit(v) \/ Purge(v)
    BY <1>1, FactsMove DEF db
  <2>3. holder = v /\ pc[v] \in {"renamed", "purge"}
    BY <2>1, <2>2 DEF Commit, Purge, TypeOK
  <2>4. v = w
    BY <2>1, <2>3 DEF TypeOK, Held
  <2>5. Commit(w)
    BY <2>1, <2>2, <2>4 DEF Purge, Held
  <2>6. s = source[w]
    BY <2>1, <2>5, CommitsOne DEF TypeOK
  <2> QED BY <2>1, <2>5, <2>6 DEF Commit, Edited, Publishing
<1>2. IInv /\ [EditNext]_allvars => [A]_allvars
  BY <1>1
<1> QED BY <1>2, Invariant, PTL DEF EditSpec, EditsReplaceWhatTheyShowed

-----------------------------------------------------------------------------
(* The head of a source is the newest of its revisions.                    *)
HeadNewest == \A r \in rows : r.id <= head[r.source]
FewDrawn == drawn <= MaxRevisions

LEMMA NewestStep == IInv /\ HeadNewest /\ [EditNext]_allvars => HeadNewest'
<1> SUFFICES ASSUME IInv, HeadNewest, [EditNext]_allvars PROVE HeadNewest'
  OBVIOUS
<1>0. TypeOK /\ Numbered /\ Held
  BY DEF IInv, EditTypeOK
<1>1. CASE UNCHANGED db
  BY <1>1 DEF HeadNewest, db
<1>2. ASSUME NEW w \in Worker, Commit(w) PROVE HeadNewest'
  <2>1. /\ rows' = rows \cup {[id |-> drawn, source |-> source[w], images |-> inputs[w]]}
        /\ head' = [head EXCEPT ![source[w]] = drawn] /\ source[w] \in Source /\ drawn \in Nat
    BY <1>0, <1>2, CommitsOne
  <2>2. ASSUME NEW r \in rows PROVE r.id <= head'[r.source]
    <3>1. r.id \in 1..drawn /\ r.source \in Source /\ r.id <= head[r.source]
      BY <1>0 DEF Numbered, HeadNewest, TypeOK, Revision
    <3>2. head'[r.source] = IF r.source = source[w] THEN drawn ELSE head[r.source]
      BY <1>0, <2>1, <3>1 DEF TypeOK
    <3> QED BY <2>1, <3>1, <3>2
  <2>3. head'[source[w]] = drawn /\ drawn <= drawn
    BY <1>0, <2>1 DEF TypeOK
  <2> QED BY <2>1, <2>2, <2>3 DEF HeadNewest
<1>3. ASSUME NEW w \in Worker, Purge(w) PROVE HeadNewest'
  <2>1. /\ rows' = rows \ RowsOf(source[w]) /\ head' = [head EXCEPT ![source[w]] = 0]
    BY <1>3 DEF Purge
  <2>2. ASSUME NEW r \in rows' PROVE r \in rows /\ head'[r.source] = head[r.source]
    BY <1>0, <2>1 DEF RowsOf, TypeOK, Revision
  <2> QED BY <2>2 DEF HeadNewest
<1> QED BY <1>1, <1>2, <1>3, FactsMove

(* The lock is taken when it is free, and kept until it is given back; who *)
(* takes it draws an id while there are any.                               *)
LEMMA LockMoves ==
    ASSUME TypeOK, [EditNext]_allvars
    PROVE  /\ holder' = holder \/ (holder = Nobody /\ holder' \in Worker) \/ holder' = Nobody
           /\ drawn' = drawn \/ (drawn < MaxRevisions /\ drawn' = drawn + 1)
<1>1. ASSUME NEW w \in Worker,
             \/ \E s \in Source : OpenEditor(w, s)
             \/ CloseEditor(w) \/ SaveProjection(w) \/ SubmitRaw(w) \/ Publish(w) \/ ParentReplaced(w)
      PROVE  /\ holder' = holder \/ (holder = Nobody /\ holder' = w)
             /\ drawn' = drawn \/ (drawn < MaxRevisions /\ drawn' = drawn + 1)
  BY <1>1 DEF OpenEditor, CloseEditor, SaveProjection, SubmitRaw, Publish, ParentReplaced, Lock, Begin, Free, vars
<1>2. ASSUME NEW w \in Worker, RefuseEdit(w) \/ EndEdit(w) \/ ReleaseImages(w) PROVE holder' = Nobody /\ drawn' = drawn
  BY <1>2 DEF RefuseEdit, Refuse, EndEdit, End, Crash, ReleaseImages, Release, Leave
<1>3. ASSUME NEW w \in Worker,
             Request(w) \/ Stage(w) \/ Rename(w) \/ Commit(w) \/ Purge(w) \/ RemoveDirs(w)
      PROVE  (holder' = holder \/ (holder = Nobody /\ holder' = w)) /\ drawn' = drawn
  BY <1>3 DEF Request, Submit, DeletePage, Free, Stage, Rename, Commit, Purge, RemoveDirs
<1>4. ASSUME PruneLook \/ Prune \/ UNCHANGED allvars PROVE UNCHANGED <<holder, drawn>>
  BY <1>4 DEF PruneLook, Prune, allvars, vars
<1> QED BY <1>1, <1>2, <1>3, <1>4 DEF EditNext

(* The largest of some numbers is what CHOOSE finds.                       *)
LEMMA LargestIs ==
    ASSUME NEW E, NEW h \in E, h \in Nat, \A j \in E : j \in Nat /\ j <= h
    PROVE  (CHOOSE i \in E : \A j \in E : j <= i) = h
<1>1. \A i \in E : (\A j \in E : j <= i) => i = h
  OBVIOUS
<1>2. \E i \in E : \A j \in E : j <= i
  OBVIOUS
<1> QED BY <1>1, <1>2

(* What a committed revision is built on: the head it replaced.  The       *)
(* others are built on what they were.                                     *)
LEMMA CommitBuilds ==
    ASSUME IInv, HeadNewest, NEW w \in Worker, Commit(w)
    PROVE  Log' = Log \cup {[id |-> drawn, source |-> source[w], on |-> head[source[w]], task |-> "vault"]}
<1> DEFINE Entry(r) == [id |-> r.id, source |-> r.source, on |-> BuiltOn(r), task |-> "vault"]
<1> PICK new : new = [id |-> drawn, source |-> source[w], images |-> inputs[w]]
  OBVIOUS
<1>0. TypeOK /\ Numbered /\ Held
  BY DEF IInv, EditTypeOK
<1>1. /\ rows' = rows \cup {new} /\ source[w] \in Source /\ drawn \notin Ids(rows) /\ drawn \in Nat
      /\ new.id = drawn /\ new.source = source[w]
  BY <1>0, CommitsOne
<1>2. \A r \in rows : r.id \in Nat /\ r.id < drawn /\ r.source \in Source
  BY <1>0, <1>1 DEF Numbered, Ids, TypeOK, Revision
<1>3. ASSUME NEW r \in rows PROVE BuiltOn(r)' = BuiltOn(r)
  <2>1. ~(new.id < r.id) /\ r.id \in Nat
    BY <1>1, <1>2
  <2>2. {q \in RowsOf(r.source)' : q.id < r.id} = {q \in RowsOf(r.source) : q.id < r.id}
    BY <1>1, <2>1 DEF RowsOf
  <2>3. Earlier(r)' = Earlier(r)
    BY <2>2 DEF Earlier
  <2> QED BY <2>3 DEF BuiltOn
<1>4. BuiltOn(new)' = head[source[w]]
  <2>1. Earlier(new)' = {q.id : q \in RowsOf(source[w])}
    <3>1. {q \in RowsOf(new.source)' : q.id < new.id} = RowsOf(source[w])
      BY <1>1, <1>2 DEF RowsOf
    <3> QED BY <3>1 DEF Earlier
  <2>2. CASE RowsOf(source[w]) = {}
    <3>1. head[source[w]] = 0
      BY <1>0, <1>1, <2>2 DEF Numbered, RowsOf
    <3>2. Earlier(new)' = {}
      BY <2>1, <2>2
    <3> QED BY <3>1, <3>2 DEF BuiltOn
  <2>3. CASE RowsOf(source[w]) # {}
    <3>1. \A q \in RowsOf(source[w]) : q.id \in Nat /\ q.id <= head[source[w]] /\ q.id # 0
      BY <1>0, <1>2 DEF HeadNewest, RowsOf, Numbered
    <3>2. head[source[w]] # 0 /\ head[source[w]] \in Nat
      BY <1>0, <1>1, <2>3, <3>1 DEF TypeOK
    <3>3. head[source[w]] \in Earlier(new)' /\ Earlier(new)' # {}
      BY <1>0, <1>1, <2>1, <3>2 DEF Numbered, RowsOf
    <3>4. \A j \in Earlier(new)' : j \in Nat /\ j <= head[source[w]]
      BY <2>1, <3>1
    <3> DEFINE E == Earlier(new)'
    <3>5. (CHOOSE i \in E : \A j \in E : j <= i) = head[source[w]]
      <4> HIDE DEF E
      <4>1. head[source[w]] \in E /\ \A j \in E : j \in Nat /\ j <= head[source[w]]
        BY <3>3, <3>4 DEF E
      <4> QED BY <3>2, <4>1, LargestIs
    <3> QED BY <3>3, <3>5 DEF BuiltOn
  <2> QED BY <2>2, <2>3
<1>5. Log = {Entry(r) : r \in rows} /\ Log' = {Entry(r)' : r \in rows'}
  BY DEF Log
<1>6. \A r \in rows : Entry(r)' = Entry(r)
  BY <1>3
<1>7. Entry(new)' = [id |-> drawn, source |-> source[w], on |-> head[source[w]], task |-> "vault"]
  BY <1>1, <1>4
<1> HIDE DEF Entry
<1> QED BY <1>1, <1>5, <1>6, <1>7

(* A purge takes the revisions of its source and nothing from the others.  *)
LEMMA PurgeClears ==
    ASSUME NEW w \in Worker, Purge(w)
    PROVE  Log' = {e \in Log : e.source # source[w]}
<1> DEFINE Entry(r) == [id |-> r.id, source |-> r.source, on |-> BuiltOn(r), task |-> "vault"]
<1>1. rows' = rows \ RowsOf(source[w])
  BY DEF Purge
<1>2. ASSUME NEW r \in rows' PROVE Entry(r)' = Entry(r)
  <2>1. RowsOf(r.source)' = RowsOf(r.source)
    BY <1>1 DEF RowsOf
  <2>2. Earlier(r)' = Earlier(r)
    BY <2>1 DEF Earlier
  <2> QED BY <2>2 DEF BuiltOn
<1>3. Log = {Entry(r) : r \in rows} /\ Log' = {Entry(r)' : r \in rows'}
  BY DEF Log
<1>4. \A r \in rows : Entry(r).source = r.source
  OBVIOUS
<1>5. \A r \in rows : r \in rows' <=> r.source # source[w]
  BY <1>1 DEF RowsOf
<1> HIDE DEF Entry
<1> QED BY <1>1, <1>2, <1>3, <1>4, <1>5

(* Each step is one of fenced publication, or none.                        *)
LEMMA StepIsFenced == IInv /\ HeadNewest /\ FewDrawn /\ [EditNext]_allvars => [Fencing!Next]_(Fencing!vars)
<1> DEFINE lock == [t \in {"vault"} |-> holder]
<1> SUFFICES ASSUME IInv, HeadNewest, FewDrawn, [EditNext]_allvars
             PROVE  Fencing!Next \/ UNCHANGED <<lock, Log, head>>
  BY DEF Fencing!vars
<1> USE FactFilesAssumption
<1>0. TypeOK /\ Numbered /\ Held
  BY DEF IInv, EditTypeOK
<1>1. CASE UNCHANGED db
  <2>1. UNCHANGED <<Log, head>>
    BY <1>1 DEF db, Log, BuiltOn, Earlier, RowsOf
  <2>2. CASE holder' = holder
    BY <2>1, <2>2
  <2>3. CASE holder = Nobody /\ holder' \in Worker
    <3>1. lock["vault"] = Nobody /\ lock' = [lock EXCEPT !["vault"] = holder']
      BY <2>3
    <3>2. Fencing!Grant("vault", holder')
      BY <2>1, <3>1 DEF Fencing!Grant
    <3> QED BY <2>3, <3>2 DEF Fencing!Next
  <2>4. CASE holder' = Nobody
    <3>1. lock' = [t \in {"vault"} |-> IF t \in {"vault"} THEN Nobody ELSE lock[t]]
      BY <2>4
    <3>2. Fencing!Revoke({"vault"})
      BY <2>1, <3>1 DEF Fencing!Revoke
    <3> QED BY <3>2 DEF Fencing!Next
  <2> QED BY <1>0, <2>2, <2>3, <2>4, LockMoves
<1>2. ASSUME NEW w \in Worker, Commit(w) PROVE Fencing!Next
  <2>1. /\ head' = [head EXCEPT ![source[w]] = drawn] /\ source[w] \in Source
        /\ drawn \notin Ids(rows) /\ drawn \in Nat
    BY <1>0, <1>2, CommitsOne
  <2>2. holder = w /\ UNCHANGED lock
    BY <1>0, <1>2 DEF TypeOK, Commit
  <2>3. \A r \in rows : r.id \in 1..drawn /\ r.id # drawn
    BY <1>0, <2>1 DEF Numbered, Ids
  <2>4. \A e \in Log : e.id < drawn
    BY <2>1, <2>3 DEF Log
  <2>5. Log' = Log \cup {[id |-> drawn, source |-> source[w], on |-> head[source[w]], task |-> "vault"]}
    BY <1>2, CommitBuilds
  <2>6. drawn \in 1..MaxRevisions
    <3>1. base[w] < drawn /\ base[w] \in Nat
      BY <1>0, <1>2 DEF Held, Publishing, Commit, IInv, EditTypeOK
    <3> QED BY <2>1, <3>1 DEF FewDrawn
  <2>7. lock["vault"] # Nobody
    BY <2>2
  <2>8. Fencing!Commit("vault", source[w], drawn)
    BY <2>1, <2>2, <2>4, <2>5, <2>7 DEF Fencing!Commit
  <2> QED BY <2>1, <2>6, <2>8 DEF Fencing!Next
<1>3. ASSUME NEW w \in Worker, Purge(w) PROVE Fencing!Next \/ UNCHANGED <<lock, Log, head>>
  <2>1. /\ source[w] \in Source /\ head' = [head EXCEPT ![source[w]] = 0] /\ UNCHANGED lock
        /\ Log' = {e \in Log : e.source # source[w]}
    BY <1>0, <1>3, PurgeClears DEF Held, Purge
  <2>2. CASE head[source[w]] # 0
    <3>1. Fencing!Clear(source[w])
      BY <2>1, <2>2 DEF Fencing!Clear
    <3> QED BY <2>1, <3>1 DEF Fencing!Next
  <2>3. CASE head[source[w]] = 0
    <3>1. \A r \in rows : r.source # source[w]
      BY <1>0, <2>3 DEF HeadNewest, Numbered, TypeOK
    <3>2. UNCHANGED <<Log, head>>
      BY <1>0, <2>1, <2>3, <3>1 DEF Log, TypeOK
    <3> QED BY <2>1, <3>2
  <2> QED BY <2>2, <2>3
<1> HIDE DEF lock
<1> QED BY <1>1, <1>2, <1>3, FactsMove

(* Publications, edits, deletions, refusals and ends of processes under    *)
(* the vault lock are one fenced publication: no revision is put on a head *)
(* that is not the newest, and nobody writes facts without the lock.       *)
THEOREM LockFencesFacts == EditSpec => FencedSpec
<1>1. EditInit => HeadNewest /\ FewDrawn
  BY FactFilesAssumption DEF EditInit, Init, HeadNewest, FewDrawn
<1>2. EditInit => Fencing!Init
  BY DEF EditInit, Init, Log, Fencing!Init
<1>3. IInv /\ FewDrawn /\ [EditNext]_allvars => FewDrawn'
  BY FactFilesAssumption, LockMoves DEF FewDrawn, IInv, EditTypeOK, TypeOK
<1> QED BY <1>1, <1>2, <1>3, Invariant, NewestStep, StepIsFenced, PTL
        DEF EditSpec, FencedSpec, Fencing!Spec
=============================================================================
