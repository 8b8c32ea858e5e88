---------------------- MODULE MaterializationProofs ----------------------
(***************************************************************************)
(* Theorems about materialization, for any set of sources and edits and    *)
(* any bounds: any number of publications, deletions, forced rebuilds,     *)
(* external edits, failing steps and process ends.                         *)
(***************************************************************************)
EXTENDS Materialization, TLAPS

(* What the place of the holder of the vault lock says about the row and   *)
(* its local variables: while it builds, its token names the open request, *)
(* and from the moment CURRENT may move, the row holds what it moves to.   *)
HeldRow ==
    /\ requestedFacts = facts
    /\ phase = "prepared" => preparedIndex.facts = facts
    /\ pc \in {"project", "build", "compare", "prepare"} => phase = "building"
    /\ pc \in {"project", "build", "compare", "prepare", "publish", "finish"} =>
          tokenEpoch = requestedEpoch /\ tokenFacts = requestedFacts
    /\ pc \in {"build", "compare", "prepare"} => before \in Pages
    /\ pc \in {"compare", "prepare"} => snapshot \in Index /\ snapshot.facts = tokenFacts
    /\ pc \in {"publish", "finish"} => phase = "prepared" /\ preparedIndex = snapshot
    /\ pc = "finish" => current = snapshot

IInv == TypeOK /\ HeldRow /\ CurrentIsOnDisk /\ CleanIsServed

LEMMA InitInv == Init => IInv
<1> SUFFICES ASSUME Init PROVE IInv
  OBVIOUS
<1>1. NoFacts \in Facts /\ NoFacts \in Pages
  BY DEF NoFacts, Facts, Pages
<1> QED BY <1>1, MaterializationAssumption
        DEF Init, IInv, TypeOK, HeldRow, CurrentIsOnDisk, CleanIsServed, Phase, Place

(* A request leaves a dirty row with nothing prepared.                     *)
Asked ==
    /\ requestedEpoch' \in Nat /\ requestedFacts' = facts' /\ phase' = "dirty"
    /\ preparedIndex' = NoIndex /\ preparedPages' = NoPages
    /\ UNCHANGED <<publishedEpoch, publishedFacts, publishedIndex, publishedPages>>

LEMMA RequestInv ==
    ASSUME IInv, facts' \in Facts, Request
    PROVE  Asked
BY DEF Asked, IInv, TypeOK, Request, Forgotten, published

LEMMA StepInv == IInv /\ [Next]_vars => IInv'
<1> SUFFICES ASSUME IInv, [Next]_vars PROVE IInv'
  OBVIOUS
<1>a. TypeOK /\ HeldRow /\ CurrentIsOnDisk /\ CleanIsServed
  BY DEF IInv
<1>b. NoIndex \notin Index /\ NoPages \notin Pages
  BY MaterializationAssumption
<1> USE DEF Phase, Place
<1>1. ASSUME NEW s \in Source, PublishFacts(s) PROVE IInv'
  <2>1. facts' \in Facts
    BY <1>1, <1>a DEF PublishFacts, TypeOK, Facts
  <2>2. Asked
    BY <1>1, <2>1, RequestInv DEF PublishFacts
  <2> QED BY <1>1, <1>a, <2>1, <2>2
          DEF Asked, PublishFacts, disk, locals, bounds, IInv, TypeOK, HeldRow, CurrentIsOnDisk, CleanIsServed
<1>2. ASSUME NEW s \in Source, DeletePage(s) PROVE IInv'
  <2>1. facts' \in Facts
    BY <1>2, <1>a DEF DeletePage, TypeOK, Facts
  <2>2. CASE facts[s] # 0
    <3>1. Asked
      BY <1>2, <2>1, <2>2, RequestInv DEF DeletePage
    <3> QED BY <1>2, <1>a, <2>1, <3>1
       DEF Asked, DeletePage, disk, IInv, TypeOK, HeldRow, CurrentIsOnDisk, CleanIsServed
  <2>3. CASE facts[s] = 0
    <3>1. facts' = facts
      BY <1>2, <1>a, <2>3 DEF DeletePage, TypeOK, Facts
    <3> QED BY <1>2, <1>a, <2>3, <3>1
            DEF DeletePage, disk, row, requested, published, prepared, IInv, TypeOK, HeldRow,
                CurrentIsOnDisk, CleanIsServed
  <2> QED BY <2>2, <2>3
<1>3. ASSUME NEW s \in Source, EditExternally(s) PROVE IInv'
  <2>1. pages' \in Pages
    BY <1>3, <1>a DEF EditExternally, TypeOK, Pages
  <2> QED BY <1>3, <1>a, <2>1
          DEF EditExternally, row, requested, published, prepared, IInv, TypeOK, HeldRow,
              CurrentIsOnDisk, CleanIsServed
<1>4. ASSUME NEW force \in BOOLEAN, Look(force), pc \in {"idle", "force"},
             forced' \in Nat
      PROVE  IInv'
  <2>1. facts' \in Facts
    BY <1>4, <1>a DEF Look, TypeOK
  <2>2. CASE Request
    <3>1. Asked
      BY <2>1, <2>2, RequestInv
    <3> QED BY <1>4, <1>a, <2>1, <3>1
       DEF Asked, Look, disk, locals, IInv, TypeOK, HeldRow, CurrentIsOnDisk, CleanIsServed
  <2>3. CASE UNCHANGED row
    BY <1>4, <1>a, <2>3
       DEF Look, disk, locals, row, requested, published, prepared, IInv, TypeOK, HeldRow,
           CurrentIsOnDisk, CleanIsServed
  <2> QED BY <1>4, <2>2, <2>3 DEF Look
<1>5. CASE Reconcile \/ Rebuild \/ ForceAfterUnlink
  <2>1. pc \in {"idle", "force"} /\ (forced' = forced \/ forced' = forced + 1)
    BY <1>5, Zenon DEF Reconcile, Rebuild, ForceAfterUnlink
  <2>2. forced' \in Nat
    BY <1>a, <2>1 DEF TypeOK
  <2> QED BY <1>4, <1>5, <2>1, <2>2 DEF Reconcile, Rebuild, ForceAfterUnlink
<1> USE DEF row, requested, published, prepared, disk, locals, bounds
<1>6. CASE Unlink
  <2>1. pages' \in Pages
    BY <1>6, <1>a DEF Unlink, TypeOK, Pages
  <2> QED BY <1>6, <1>a, <2>1 DEF Unlink, IInv, TypeOK, HeldRow, CurrentIsOnDisk, CleanIsServed
<1>7. CASE Resume
  BY <1>7, <1>a DEF Resume, IInv, TypeOK, HeldRow, CurrentIsOnDisk, CleanIsServed
<1>8. CASE ResumeRaises
  BY <1>8, <1>a DEF ResumeRaises, Raise, Forget, NoFacts, IInv, TypeOK, HeldRow, CurrentIsOnDisk,
                    CleanIsServed, Facts
<1>9. CASE BeginNothing
  BY <1>9, <1>a DEF BeginNothing, Return, Forget, NoFacts, IInv, TypeOK, HeldRow, CurrentIsOnDisk,
                    CleanIsServed, Facts
<1>10. CASE Begin
  BY <1>10, <1>a, <1>b DEF Begin, IInv, TypeOK, HeldRow, CurrentIsOnDisk, CleanIsServed
<1>11. ASSUME NEW s \in Source, Project(s) PROVE IInv'
  <2>1. pages' \in Pages
    BY <1>11, <1>a DEF Project, TypeOK, Pages, Facts
  <2> QED BY <1>11, <1>a, <2>1 DEF Project, IInv, TypeOK, HeldRow, CurrentIsOnDisk, CleanIsServed
<1>12. CASE Fingerprint
  BY <1>12, <1>a DEF Fingerprint, IInv, TypeOK, HeldRow, CurrentIsOnDisk, CleanIsServed
<1>13. CASE Build
  <2>1. snapshot' \in Index /\ snapshot'.facts = tokenFacts
    BY <1>13, <1>a DEF Build, Index, TypeOK
  <2> QED BY <1>13, <1>a, <2>1 DEF Build, IInv, TypeOK, HeldRow, CurrentIsOnDisk, CleanIsServed
<1>14. CASE Compare
  BY <1>14, <1>a DEF Compare, IInv, TypeOK, HeldRow, CurrentIsOnDisk, CleanIsServed
<1>15. CASE Prepare
  BY <1>15, <1>a, <1>b DEF Prepare, IInv, TypeOK, HeldRow, CurrentIsOnDisk, CleanIsServed
<1>16. CASE Publish
  BY <1>16, <1>a DEF Publish, IInv, TypeOK, HeldRow, CurrentIsOnDisk, CleanIsServed
<1>17. CASE Finish
  <2>1. Forget /\ pc' \in {"idle", "prune"}
    BY <1>17 DEF Finish, Return
  <2>2. NoFacts \in Facts
    BY DEF NoFacts, Facts
  <2> QED BY <1>17, <1>a, <1>b, <2>1, <2>2
          DEF Finish, Forget, IInv, TypeOK, HeldRow, CurrentIsOnDisk, CleanIsServed
<1>18. CASE Discard
  BY <1>18, <1>a DEF Discard, Spared, IInv, TypeOK, HeldRow, CurrentIsOnDisk, CleanIsServed
<1>19. CASE RequestAgain
  <2>1. Forget /\ pc' \in {"idle", "prune"} /\ facts' \in Facts
    BY <1>19, <1>a DEF RequestAgain, Return, TypeOK
  <2>2. NoFacts \in Facts
    BY DEF NoFacts, Facts
  <2>3. Asked
    BY <1>19, <2>1, RequestInv DEF RequestAgain
  <2>4. TypeOK'
    BY <1>19, <1>a, <2>1, <2>2, <2>3 DEF Asked, RequestAgain, Forget, TypeOK
  <2> QED BY <1>19, <1>a, <2>1, <2>3, <2>4
          DEF Asked, RequestAgain, Forget, IInv, HeldRow, CurrentIsOnDisk, CleanIsServed
<1>20. CASE Prune
  BY <1>20, <1>a DEF Prune, Protected, IInv, TypeOK, HeldRow, CurrentIsOnDisk, CleanIsServed
<1>21. CASE Fail \/ Crash
  <2>1. Forget /\ pc' = "idle"
    BY <1>21 DEF Fail, Crash, Raise
  <2>5. faults' \in Nat
    BY <1>21, <1>a DEF Fail, Crash, TypeOK
  <2>4. up' \in BOOLEAN
    BY <1>21, <1>a DEF Fail, Crash, TypeOK
  <2>2. NoFacts \in Facts
    BY DEF NoFacts, Facts
  <2>3. phase' = phase \/ (phase' = "failed" /\ phase = "building")
    BY <1>21, <1>a DEF Fail, Crash, Building, HeldRow
  <2> QED BY <1>21, <1>a, <2>1, <2>2, <2>3, <2>4, <2>5
          DEF Fail, Crash, Forget, IInv, TypeOK, HeldRow, CurrentIsOnDisk, CleanIsServed
<1>22. CASE UNCHANGED vars
  BY <1>22, <1>a DEF vars, IInv, TypeOK, HeldRow, CurrentIsOnDisk, CleanIsServed
<1> QED BY <1>1, <1>2, <1>3, <1>5, <1>6, <1>7, <1>8, <1>9, <1>10, <1>11, <1>12, <1>13, <1>14, <1>15,
           <1>16, <1>17, <1>18, <1>19, <1>20, <1>21, <1>22
        DEF Next, Holder

(* Every variable keeps its type.                                          *)
THEOREM TypeCorrect == Spec => []TypeOK
<1>1. IInv => TypeOK
  BY DEF IInv
<1> QED BY InitInv, StepInv, <1>1, PTL DEF Spec

(* The pointer file never names a directory that is gone: discarding after *)
(* a collision and pruning at startup spare what readers open.             *)
THEOREM PointerIsSound == Spec => []CurrentIsOnDisk
<1>1. IInv => CurrentIsOnDisk
  BY DEF IInv
<1> QED BY InitInv, StepInv, <1>1, PTL DEF Spec

(* A vault that is reported clean serves the generation the row names,     *)
(* built from exactly the active facts, with no request open.              *)
THEOREM CleanMeansServed == Spec => []CleanIsServed
<1>1. IInv => CleanIsServed
  BY DEF IInv
<1> QED BY InitInv, StepInv, <1>1, PTL DEF Spec

(* CURRENT moves with Publish only.                                        *)
LEMMA OnlyPublishSwitches == [Next]_vars /\ current' # current => Publish
BY DEF Next, Holder, PublishFacts, DeletePage, EditExternally, Reconcile, Rebuild, ForceAfterUnlink,
       Look, Unlink, Resume, ResumeRaises, BeginNothing, Begin, Project, Fingerprint, Build, Compare,
       Prepare, Finish, Discard, RequestAgain, Prune, Fail, Crash, disk, vars

(* CURRENT moves only to the generation the row has recorded as prepared,  *)
(* which is on disk and indexes the facts that are active at that moment.  *)
THEOREM SwitchesArePrepared == Spec => SwitchIsPrepared
<1>1. IInv /\ [Next]_vars =>
        [current' # current =>
           /\ phase = "prepared" /\ preparedIndex = current' /\ current' \in generations
           /\ current'.facts = facts]_vars
  BY OnlyPublishSwitches DEF IInv, HeldRow, Publish
<1> QED BY InitInv, StepInv, <1>1, PTL DEF Spec, SwitchIsPrepared

-----------------------------------------------------------------------------
(* External writes between the two fingerprints.  Without one the pages    *)
(* are those of the first fingerprint and the generation indexes them;     *)
(* with a single one the generation does, unless the pages still differ.   *)
Watched ==
    /\ pc \in {"build", "compare"} /\ touched = 0 => pages = before
    /\ pc = "build" /\ touched = 1 => pages # before
    /\ pc = "compare" /\ touched = 0 => snapshot.wiki = before
    /\ pc = "compare" /\ touched = 1 => snapshot.wiki = before \/ pages # before
    /\ pc = "prepare" /\ touched \in {0, 1} => snapshot.wiki = before

LEMMA WatchedStep == IInv /\ Watched /\ [Next]_vars => Watched'
<1> SUFFICES ASSUME IInv, Watched, [Next]_vars, pc' \in {"build", "compare", "prepare"}
             PROVE  Watched'
  BY DEF Watched
<1> USE DEF disk, locals
<1>a. touched \in Nat /\ pages \in Pages
  BY DEF IInv, TypeOK
<1>1. ASSUME NEW s \in Source, EditExternally(s) PROVE Watched'
  <2>1. before # NoPages
    BY <1>1, MaterializationAssumption DEF EditExternally, IInv, HeldRow
  <2>2. touched' = touched + 1 /\ UNCHANGED <<pc, before, snapshot>>
    BY <1>1, <2>1 DEF EditExternally
  <2>3. pages' # pages
    BY <1>1, <1>a DEF EditExternally, Pages
  <2>4. touched' = 1 => touched = 0
    BY <1>a, <2>2
  <2>5. touched' # 0
    BY <1>a, <2>2
  <2> QED BY <2>2, <2>3, <2>4, <2>5 DEF Watched
<1>2. CASE Fingerprint
  BY <1>2 DEF Fingerprint, Watched
<1>3. CASE Build
  BY <1>3 DEF Build, Watched
<1>4. CASE Compare
  BY <1>4, <1>a DEF Compare, Stable, Watched
<1>5. CASE UNCHANGED vars
  BY <1>5 DEF vars, Watched
<1>6. ~Begin /\ ~Prepare /\ ~Publish /\ \A s \in Source : ~Project(s)
  BY DEF Begin, Prepare, Publish, Project
<1>7. ~Unlink /\ ~Resume /\ ~ResumeRaises /\ ~BeginNothing /\ ~Finish /\ ~Discard /\ ~RequestAgain /\ ~Prune
  BY DEF Unlink, Resume, ResumeRaises, BeginNothing, Finish, Discard, RequestAgain, Prune, Raise, Return
<1>8. ~Reconcile /\ ~Rebuild /\ ~ForceAfterUnlink /\ ~Fail /\ ~Crash
  BY DEF Reconcile, Rebuild, ForceAfterUnlink, Look, Fail, Crash, Raise
<1>9. \A s \in Source : ~PublishFacts(s) /\ ~DeletePage(s)
  BY DEF PublishFacts, DeletePage
<1> QED BY <1>1, <1>2, <1>3, <1>4, <1>5, <1>6, <1>7, <1>8, <1>9 DEF Next, Holder

(* A row becomes prepared with Prepare only.                               *)
LEMMA OnlyPrepares == [Next]_vars /\ phase # "prepared" /\ phase' = "prepared" => Prepare
BY DEF Next, Holder, PublishFacts, DeletePage, EditExternally, Reconcile, Rebuild, ForceAfterUnlink, Look,
       Unlink, Resume, ResumeRaises, BeginNothing, Begin, Project, Fingerprint, Build, Compare, Publish,
       Finish, Discard, RequestAgain, Prune, Fail, Crash, Request, row, vars

(* A single write of an editor between the two fingerprints is never       *)
(* missed: what is recorded as prepared indexes the pages whose            *)
(* fingerprint it carries.  (Two can be: the second may undo the first.)   *)
THEOREM SingleEditsAreSeen == Spec => SingleEditDetected
<1>1. Init => Watched
  BY DEF Init, Watched
<1>2. IInv /\ Watched /\ [Next]_vars =>
        [phase # "prepared" /\ phase' = "prepared" => snapshot.wiki = preparedPages' \/ touched > 1]_vars
  <2> SUFFICES ASSUME IInv, Watched, [Next]_vars, phase # "prepared", phase' = "prepared"
               PROVE  snapshot.wiki = preparedPages' \/ touched > 1
    OBVIOUS
  <2>1. Prepare
    BY OnlyPrepares
  <2>2. touched \in Nat
    BY DEF IInv, TypeOK
  <2> QED BY <2>1, <2>2 DEF Prepare, Watched
<1> QED BY InitInv, StepInv, WatchedStep, <1>1, <1>2, PTL DEF Spec, SingleEditDetected

-----------------------------------------------------------------------------
(* What is lost.  What the holder has built is on disk until it records    *)
(* it, and it builds only when nothing is recorded as prepared.            *)
Kept ==
    /\ pc \in {"compare", "prepare"} => snapshot \in generations
    /\ pc = "begin" => phase # "prepared"

LEMMA KeptStep == IInv /\ Kept /\ [Next]_vars => Kept'
<1> SUFFICES ASSUME IInv, Kept, [Next]_vars, pc' \in {"compare", "prepare", "begin"}
             PROVE  Kept'
  BY DEF Kept
<1> USE DEF disk, locals, row
<1>1. CASE Build
  BY <1>1 DEF Build, Kept
<1>2. CASE Compare
  BY <1>2 DEF Compare, Kept
<1>3. CASE Resume
  BY <1>3 DEF Resume, Kept
<1>4. CASE UNCHANGED vars \/ \E s \in Source : EditExternally(s)
  BY <1>4 DEF vars, EditExternally, Kept
<1>5. ~Begin /\ ~Prepare /\ ~Publish /\ ~Fingerprint /\ \A s \in Source : ~Project(s)
  BY DEF Begin, Prepare, Publish, Fingerprint, Project
<1>6. ~Unlink /\ ~ResumeRaises /\ ~BeginNothing /\ ~Finish /\ ~Discard /\ ~RequestAgain /\ ~Prune
  BY DEF Unlink, ResumeRaises, BeginNothing, Finish, Discard, RequestAgain, Prune, Raise, Return
<1>7. ~Reconcile /\ ~Rebuild /\ ~ForceAfterUnlink /\ ~Fail /\ ~Crash
  BY DEF Reconcile, Rebuild, ForceAfterUnlink, Look, Fail, Crash, Raise
<1>8. \A s \in Source : ~PublishFacts(s) /\ ~DeletePage(s)
  BY DEF PublishFacts, DeletePage
<1> QED BY <1>1, <1>2, <1>3, <1>4, <1>5, <1>6, <1>7, <1>8 DEF Next, Holder

(* Generations go by discarding and by pruning, which spares what the row  *)
(* names.                                                                  *)
LEMMA OnlyDiscardTakes ==
    ASSUME [Next]_vars, preparedIndex \in generations, preparedIndex \notin generations'
    PROVE  Discard
<1>1. ~Prune
  BY DEF Prune, Protected
<1>2. generations' = generations \/ Build \/ Prune \/ Discard
  BY DEF Next, Holder, PublishFacts, DeletePage, EditExternally, Reconcile, Rebuild, ForceAfterUnlink, Look,
         Unlink, Resume, ResumeRaises, BeginNothing, Begin, Project, Fingerprint, Compare, Prepare, Publish,
         Finish, RequestAgain, Fail, Crash, disk, vars
<1> QED BY <1>1, <1>2 DEF Build

(* What is prepared is replaced by a request, while something is built, or *)
(* at the end of a publication.                                            *)
LEMMA PreparedChanges ==
    ASSUME [Next]_vars
    PROVE  \/ UNCHANGED <<phase, preparedIndex>>
           \/ Request \/ Begin \/ Prepare \/ Finish
           \/ Fail /\ Building /\ UNCHANGED preparedIndex
BY DEF Next, Holder, PublishFacts, DeletePage, EditExternally, Reconcile, Rebuild, ForceAfterUnlink, Look,
       Unlink, Resume, ResumeRaises, BeginNothing, Project, Fingerprint, Build, Compare, Publish,
       Discard, RequestAgain, Prune, Fail, Crash, row, prepared, vars

(* The generation the row has recorded as prepared is lost only to a       *)
(* holder that fails, or whose process ends, between removing it and       *)
(* requesting again; it stays lost until a request.                        *)
THEOREM PreparedSurvives == Spec => LostOnlyBetweenDiscardAndRequest
<1>1. Init => Kept
  BY DEF Init, Kept
<1>2. ASSUME IInv, Kept, [Next]_vars, ~Lost, Lost' PROVE pc = "again" /\ (Fail \/ Crash)
  <2>1. UNCHANGED <<phase, preparedIndex>>
    <3>1. ~Request /\ ~Begin /\ ~Finish
      BY <1>2 DEF Lost, Stuck, Request, Begin, Finish
    <3>2. ~Prepare
      BY <1>2 DEF Lost, Stuck, Prepare, Kept, disk
    <3>3. ~(Fail /\ Building)
      BY <1>2 DEF Lost, Stuck, Fail
    <3> QED BY <1>2, <3>1, <3>2, <3>3, PreparedChanges
  <2>2. CASE pc # "again"
    <3>1. Discard
      BY <1>2, <2>1, <2>2, OnlyDiscardTakes DEF Lost, Stuck
    <3> QED BY <1>2, <3>1 DEF Lost, Discard
  <2>3. CASE pc = "again"
    <3>1. ~RequestAgain
      BY <1>2 DEF Lost, Stuck, RequestAgain, Request
    <3> QED BY <1>2, <2>3, <3>1
            DEF Lost, Next, Holder, PublishFacts, DeletePage, EditExternally, Reconcile, Rebuild, ForceAfterUnlink,
                Unlink, Resume, ResumeRaises, BeginNothing, Begin, Project, Fingerprint, Build, Compare, Prepare,
                Publish, Finish, Discard, Prune, vars
  <2> QED BY <2>2, <2>3
<1>3. ASSUME IInv, Kept, [Next]_vars, Stuck, ~Stuck' PROVE requestedEpoch' > requestedEpoch
  <2>1. requestedEpoch \in Nat
    BY <1>3 DEF IInv, TypeOK
  <2>2. ~Begin /\ ~Prepare /\ ~Finish /\ ~Building /\ ~Build
    BY <1>3 DEF Stuck, Kept, IInv, HeldRow, CurrentIsOnDisk, TypeOK, Begin, Prepare, Finish, Build, Building
  <2>3. CASE UNCHANGED <<phase, preparedIndex>>
    <3>1. generations' \subseteq generations
      BY <1>3, <2>2
         DEF Next, Holder, PublishFacts, DeletePage, EditExternally, Reconcile, Rebuild, ForceAfterUnlink, Look,
             Unlink, Resume, ResumeRaises, BeginNothing, Begin, Project, Fingerprint, Compare, Prepare, Publish,
             Finish, Discard, RequestAgain, Prune, Fail, Crash, disk, vars
    <3> QED BY <1>3, <2>3, <3>1 DEF Stuck
  <2>4. CASE Request
    BY <2>1, <2>4 DEF Request
  <2> QED BY <1>3, <2>2, <2>3, <2>4, PreparedChanges
<1> DEFINE Goes ==
       /\ ~Lost /\ Lost' => pc = "again" /\ (Fail \/ Crash)
       /\ Stuck /\ ~Stuck' => requestedEpoch' > requestedEpoch
<1>4. IInv /\ Kept /\ [Next]_vars => [Goes]_vars
  BY <1>2, <1>3
<1> QED BY InitInv, StepInv, KeptStep, <1>1, <1>4, PTL DEF Spec, LostOnlyBetweenDiscardAndRequest

-----------------------------------------------------------------------------
(* Materialization implements ServedView: readers are only ever moved to   *)
(* the facts asked for last, and an epoch is confirmed while it is served. *)
LEMMA StepImplements ==
    ASSUME IInv, IInv', [Next]_vars
    PROVE  [View!Next]_(View!vars)
<1>a. /\ TypeOK /\ HeldRow /\ requestedFacts \in Facts /\ requestedFacts' \in Facts
      /\ NoIndex \notin Index
  BY MaterializationAssumption DEF IInv, TypeOK
<1> DEFINE Quiet == UNCHANGED <<requestedFacts, requestedEpoch, current, publishedEpoch>>
<1>1. CASE Quiet
  BY <1>1 DEF View!vars
<1>2. CASE Request /\ UNCHANGED current
  BY <1>2, <1>a DEF Request, published, View!Next, View!Ask
<1>3. CASE Publish
  <2>1. current' = snapshot /\ snapshot = preparedIndex /\ phase = "prepared" /\ preparedIndex # NoIndex
    BY <1>3, <1>a DEF Publish, HeldRow, TypeOK
  <2>2. preparedIndex.facts = requestedFacts
    BY <1>a, <2>1 DEF HeldRow
  <2> QED BY <1>3, <2>1, <2>2 DEF Publish, row, requested, published, View!Next, View!Serve
<1>4. CASE Finish
  <2>1. /\ tokenEpoch = requestedEpoch /\ current = preparedIndex /\ current # NoIndex
        /\ current.facts = requestedFacts
    BY <1>4, <1>a DEF Finish, HeldRow, TypeOK
  <2> QED BY <1>4, <2>1 DEF Finish, disk, requested, View!Next, View!Confirm
<1>5. Quiet \/ (Request /\ UNCHANGED current) \/ Publish \/ Finish
  BY DEF Next, Holder, PublishFacts, DeletePage, EditExternally, Reconcile, Rebuild, ForceAfterUnlink,
         Look, Unlink, Resume, ResumeRaises, BeginNothing, Begin, Project, Fingerprint, Build, Compare,
         Prepare, Discard, RequestAgain, Prune, Fail, Crash, disk, row, requested, published, vars
<1> QED BY <1>1, <1>2, <1>3, <1>4, <1>5

(* Every behaviour of the materializer is one of the served view: the      *)
(* pointer moves only to what was built for the facts of its own request.  *)
THEOREM ImplementsServedView == Spec => ViewSpec
<1>1. Init => View!Init
  <2>1. NoFacts \in Facts
    BY DEF NoFacts, Facts
  <2> QED BY <2>1 DEF Init, View!Init
<1>2. IInv /\ IInv' /\ [Next]_vars => [View!Next]_(View!vars)
  BY StepImplements
<1> QED BY InitInv, StepInv, <1>1, <1>2, PTL DEF Spec, ViewSpec, View!Spec
=============================================================================
