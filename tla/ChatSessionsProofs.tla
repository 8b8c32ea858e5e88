------------------------- MODULE ChatSessionsProofs -------------------------
(* Theorems about a chat session, for any executions, requests and marks, any *)
(* turns to begin with and any number of revisions.                           *)
EXTENDS ChatSessions, SequenceTheorems, FiniteSetTheorems, TLAPS

Early == {"idle", "prepared", "working"}

\* An execution whose turn is still to be written.
Unwritten(e) == \/ pc[e] \in Early \cup {"answered", "looked"}
                \/ pc[e] = "locked" /\ ~lock.wrote

\* It could still be let in: the record has the revision it has seen.
UpToDate(e) == RevisionOf(view[e]) = Revision

OncePerRequest(turns) == \A i, j \in DOMAIN turns : turns[i].req = turns[j].req => i = j

\* Who holds the lock, and what the guards have left it with.
Locked ==
    /\ \A e \in Execution : pc[e] = "locked" <=> Holds(e)
    /\ lock # Free =>
         /\ lock.by \in Execution =>
              /\ RevisionOf(view[lock.by]) = RevisionOf(lock.copy)
              /\ RevisionOf(lock.copy) < MaxRevision
              /\ Kind(lock.by) = "retry" => lock.copy # NoFile /\ lock.copy.turns # <<>>
         /\ lock.by \in Edit =>
              /\ lock.copy # NoFile
              /\ lock.by.op = "remove" => lock.by.turn \in TurnsOf(lock.copy)
              /\ lock.by.op # "delete" => lock.copy.revision < MaxRevision
              /\ lock.wrote => lock.by.op \in {"remove", "delete"}

\* Only the execution that creates the session answers without a record.
Views ==
    \A e \in Execution :
        /\ pc[e] = "idle" => view[e] = NoFile
        /\ pc[e] = "prepared" => Kind(e) = "retry"
        /\ pc[e] \notin {"idle", "done"} =>
             Kind(e) \in {"create", "continue", "retry"} /\ (Kind(e) = "create" <=> view[e] = NoFile)

\* Until it has written, nobody has anything of the session.
Unborn ==
    \A e \in Execution : Kind(e) = "create" /\ Unwritten(e) =>
        /\ file = NoFile /\ committed = {} /\ (lock # Free => lock.by = e)
        /\ \A f \in Execution : view[f] = NoFile
        /\ \A m \in Mark : copy[m] = NoFile

\* What was read is the record, or of an older revision, or the record is
\* deleted; the holder of the lock has read the record it replaces.
Fresh ==
    ~clobbered =>
        /\ \A e \in Execution : view[e] # NoFile =>
             file = NoFile \/ view[e] = file \/ view[e].revision < file.revision
        /\ lock # Free /\ ~lock.wrote => lock.copy = file
        /\ lock # Free /\ lock.by \in Execution => lock.copy = view[lock.by]

\* A turn that was written is not written again, and a request has one turn in
\* the record.
Once ==
    ~clobbered =>
        /\ \A t \in committed : ~Unwritten(t.by) /\ t.req = Req(t.by)
        /\ gone \subseteq committed
        /\ Exists => OncePerRequest(file.turns)

\* Whoever has looked for its request and is up to date may append its turn.
Unanswered ==
    ~clobbered =>
        \A e \in Execution : pc[e] = "looked" \/ (pc[e] = "locked" /\ ~lock.wrote) =>
            (UpToDate(e) => Recorded(Req(e)) = {})

Answers ==
    ~clobbered =>
        \A e \in Execution : pc[e] \in {"persisted", "answering"} \/ (pc[e] = "locked" /\ lock.wrote) =>
            answer[e] \in committed /\ answer[e].req = Req(e)

\* The images that go are those of no turn that stays.
Dropping ==
    ~clobbered /\ lock # Free /\ lock.wrote =>
        /\ lock.by \in Execution /\ Kind(lock.by) = "retry" => Recorded(Replaced(lock.by)) = {}
        /\ lock.by \in Edit => IF lock.by.op = "remove" THEN Recorded(lock.by.turn.req) = {} ELSE ~Exists

\* The image an execution is going to show is on disk while it may commit.
Drawn ==
    \A e \in Execution :
        /\ pc[e] \in Early => ~image[e]
        /\ ~clobbered /\ Unwritten(e) /\ UpToDate(e) /\ image[e] => e \in art \/ Req(e) \in swept

IInv == /\ TypeOK /\ Locked /\ Views /\ Unborn /\ Fresh /\ Once /\ Unanswered /\ Answers /\ Dropping /\ Drawn
        /\ TurnsSurvive /\ ImagesLostOnlyToSweeps

-----------------------------------------------------------------------------
\* Sequences of turns.
LEMMA OneTurn ==
    ASSUME NEW s \in Seq(Turns), OncePerRequest(s), NEW t \in ToSet(s), NEW u \in ToSet(s), t.req = u.req
    PROVE  t = u
BY DEF OncePerRequest, ToSet

LEMMA Appended ==
    ASSUME NEW s \in Seq(Turns), NEW t \in Turns
    PROVE  /\ Append(s, t) \in Seq(Turns)
           /\ ToSet(Append(s, t)) = ToSet(s) \cup {t}
           /\ OncePerRequest(s) /\ (\A u \in ToSet(s) : u.req # t.req) => OncePerRequest(Append(s, t))
<1>1. /\ Append(s, t) \in Seq(Turns) /\ DOMAIN s = 1 .. Len(s) /\ Len(s) \in Nat
      /\ DOMAIN Append(s, t) = 1 .. Len(s) + 1
      /\ Append(s, t)[Len(s) + 1] = t
      /\ \A i \in 1 .. Len(s) : Append(s, t)[i] = s[i]
  OBVIOUS
<1>2. ToSet(Append(s, t)) = ToSet(s) \cup {t}
  BY <1>1 DEF ToSet
<1>3. ASSUME OncePerRequest(s), \A u \in ToSet(s) : u.req # t.req
      PROVE  OncePerRequest(Append(s, t))
  BY <1>1, <1>3 DEF OncePerRequest, ToSet
<1> QED BY <1>1, <1>2, <1>3

LEMMA Fronted ==
    ASSUME NEW s \in Seq(Turns), s # <<>>
    PROVE  /\ Front(s) \in Seq(Turns) /\ Last(s) \in ToSet(s) /\ ToSet(s) \subseteq Turns
           /\ OncePerRequest(s) => OncePerRequest(Front(s)) /\ ToSet(Front(s)) = ToSet(s) \ {Last(s)}
<1>1. /\ Len(s) \in Nat /\ Len(s) # 0 /\ DOMAIN s = 1 .. Len(s)
      /\ \A i \in 1 .. Len(s) : s[i] \in Turns
  OBVIOUS
<1>2. /\ Front(s) \in Seq(Turns) /\ DOMAIN Front(s) = 1 .. Len(s) - 1
      /\ \A i \in 1 .. Len(s) - 1 : Front(s)[i] = s[i]
  BY <1>1 DEF Front
<1>3. Last(s) \in ToSet(s) /\ ToSet(s) \subseteq Turns
  BY <1>1 DEF Last, ToSet
<1>4. ASSUME OncePerRequest(s) PROVE OncePerRequest(Front(s)) /\ ToSet(Front(s)) = ToSet(s) \ {Last(s)}
  <2>1. OncePerRequest(Front(s))
    BY <1>1, <1>2, <1>4 DEF OncePerRequest
  <2>2. \A i \in 1 .. Len(s) - 1 : s[i] # s[Len(s)]
    BY <1>1, <1>4 DEF OncePerRequest
  <2>3. ToSet(Front(s)) = {s[i] : i \in 1 .. Len(s) - 1}
    BY <1>2 DEF ToSet
  <2>4. ToSet(s) = {s[i] : i \in 1 .. Len(s) - 1} \cup {s[Len(s)]}
    BY <1>1 DEF ToSet
  <2> QED BY <2>1, <2>2, <2>3, <2>4 DEF Last
<1> QED BY <1>2, <1>3, <1>4

LEMMA Removed ==
    ASSUME NEW s \in Seq(Turns), NEW t \in ToSet(s)
    PROVE  LET left == RemoveAt(s, Place(t, s))
           IN  /\ left \in Seq(Turns)
               /\ OncePerRequest(s) => OncePerRequest(left) /\ ToSet(left) = ToSet(s) \ {t}
<1> DEFINE k == Place(t, s)
           left == RemoveAt(s, k)
           at(i) == IF i < k THEN i ELSE i + 1
<1>1. /\ Len(s) \in Nat /\ DOMAIN s = 1 .. Len(s)
      /\ \A i \in 1 .. Len(s) : s[i] \in Turns
  OBVIOUS
<1>2. k \in 1 .. Len(s) /\ s[k] = t
  BY <1>1 DEF Place, ToSet
<1> HIDE DEF k
<1>3. /\ SubSeq(s, 1, k - 1) \in Seq(Turns) /\ Len(SubSeq(s, 1, k - 1)) = k - 1
      /\ \A i \in 1 .. k - 1 : SubSeq(s, 1, k - 1)[i] = s[i]
  BY <1>1, <1>2
<1>4. /\ SubSeq(s, k + 1, Len(s)) \in Seq(Turns) /\ Len(SubSeq(s, k + 1, Len(s))) = Len(s) - k
      /\ \A i \in 1 .. Len(s) - k : SubSeq(s, k + 1, Len(s))[i] = s[i + k]
  <2>1. /\ k + 1 \in 1 .. Len(s) + 1 /\ Len(s) - (k + 1) + 1 = Len(s) - k
        /\ \A n \in k + 1 .. Len(s) : s[n] \in Turns
    BY <1>1, <1>2
  <2>2. /\ SubSeq(s, k + 1, Len(s)) \in Seq(Turns) /\ Len(SubSeq(s, k + 1, Len(s))) = Len(s) - (k + 1) + 1
        /\ \A i \in 1 .. Len(s) - (k + 1) + 1 : SubSeq(s, k + 1, Len(s))[i] = s[k + 1 + i - 1]
    BY <1>1, <2>1, SubSeqProperties
  <2>3. \A i \in 1 .. Len(s) - k : k + 1 + i - 1 = i + k
    BY <1>1, <1>2
  <2> QED BY <2>1, <2>2, <2>3
<1>5. /\ left \in Seq(Turns) /\ DOMAIN left = 1 .. Len(s) - 1
      /\ \A i \in 1 .. Len(s) - 1 : left[i] = s[at(i)]
  <2> DEFINE a == SubSeq(s, 1, k - 1)
             b == SubSeq(s, k + 1, Len(s))
  <2>1. left = a \o b
    BY DEF RemoveAt
  <2> HIDE DEF a, b, left
  <2>2. /\ a \in Seq(Turns) /\ Len(a) = k - 1 /\ b \in Seq(Turns) /\ Len(b) = Len(s) - k
        /\ \A i \in 1 .. k - 1 : a[i] = s[i]
        /\ \A i \in 1 .. Len(s) - k : b[i] = s[i + k]
    BY <1>3, <1>4 DEF a, b
  <2>3. /\ left \in Seq(Turns) /\ Len(left) = Len(a) + Len(b)
        /\ \A i \in 1 .. Len(a) + Len(b) : left[i] = IF i <= Len(a) THEN a[i] ELSE b[i - Len(a)]
    BY <2>1, <2>2, ConcatProperties, Zenon
  <2>4. Len(a) + Len(b) = Len(s) - 1 /\ \A i \in 1 .. Len(s) - 1 : i <= Len(a) <=> i < k
    BY <1>1, <1>2, <2>2
  <2>5. DOMAIN left = 1 .. Len(s) - 1
    BY <2>3, <2>4
  <2>6. \A i \in 1 .. Len(s) - 1 : i < k => i \in 1 .. k - 1
    BY <1>1, <1>2
  <2>7. \A i \in 1 .. Len(s) - 1 : ~(i < k) => i - (k - 1) \in 1 .. Len(s) - k /\ i - (k - 1) + k = i + 1
    BY <1>1, <1>2
  <2>8. ASSUME NEW i \in 1 .. Len(s) - 1 PROVE left[i] = s[at(i)]
    <3>1. CASE i < k
      BY <2>2, <2>3, <2>4, <2>6, <3>1
    <3>2. CASE ~(i < k)
      <4>1. left[i] = b[i - (k - 1)]
        BY <2>2, <2>3, <2>4, <3>2
      <4>2. b[i - (k - 1)] = s[i - (k - 1) + k]
        BY <2>2, <2>7, <3>2
      <4> QED BY <2>7, <3>2, <4>1, <4>2
    <3> QED BY <3>1, <3>2
  <2> QED BY <2>3, <2>5, <2>8
<1> HIDE DEF left
<1>6. ASSUME OncePerRequest(s) PROVE OncePerRequest(left) /\ ToSet(left) = ToSet(s) \ {t}
  <2>1. \A i \in 1 .. Len(s) - 1 : at(i) \in 1 .. Len(s) /\ at(i) # k
    BY <1>1, <1>2
  <2>2. \A i, j \in 1 .. Len(s) - 1 : at(i) = at(j) => i = j
    BY <1>1, <1>2
  <2>3. \A n \in 1 .. Len(s) : n # k => \E i \in 1 .. Len(s) - 1 : at(i) = n
    <3>1. ASSUME NEW n \in 1 .. Len(s), n # k PROVE \E i \in 1 .. Len(s) - 1 : at(i) = n
      <4>1. CASE n < k
        BY <1>1, <1>2, <4>1
      <4>2. CASE n > k
        <5>1. n - 1 \in 1 .. Len(s) - 1 /\ at(n - 1) = n
          BY <1>1, <1>2, <4>2
        <5> QED BY <5>1
      <4> QED BY <1>1, <1>2, <3>1, <4>1, <4>2
    <3> QED BY <3>1
  <2> HIDE DEF at
  <2>4. OncePerRequest(left)
    BY <1>1, <1>5, <1>6, <2>1, <2>2 DEF OncePerRequest
  <2>5. \A n \in 1 .. Len(s) : s[n] = t => n = k
    BY <1>1, <1>2, <1>6 DEF OncePerRequest
  <2>6. ToSet(left) = {s[at(i)] : i \in 1 .. Len(s) - 1} /\ ToSet(s) = {s[n] : n \in 1 .. Len(s)}
    BY <1>1, <1>5 DEF ToSet
  <2> QED BY <1>2, <2>1, <2>3, <2>4, <2>5, <2>6
<1> QED BY <1>5, <1>6 DEF left, k

-----------------------------------------------------------------------------
\* What is planned, and what a record is made of.
LEMMA Planned ==
    ASSUME TypeOK
    PROVE  /\ \A e \in Execution : Req(e) \in Request /\ Kind(e) \in Kinds
           /\ \A e, f \in Execution : Kind(e) = "create" /\ Kind(f) \in Begins => e = f
<1>1. sent \in [Execution -> [req : Request, kind : Kinds]]
  BY ShapeAssumption DEF TypeOK
<1>2. \A e, f \in Execution : e # f /\ sent[e].kind \in Begins /\ sent[f].kind \in Begins => sent[e].kind = "past"
  BY ShapeAssumption DEF TypeOK
<1> QED BY <1>1, <1>2 DEF Req, Kind, Begins

LEMMA RecordParts ==
    ASSUME NEW r \in Contents \cup {NoFile}
    PROVE  /\ RevisionOf(r) \in 0 .. MaxRevision /\ TurnsOf(r) \subseteq Turns
           /\ r # NoFile => RevisionOf(r) = r.revision /\ r.revision \in 1 .. MaxRevision
                            /\ r.turns \in Seq(Turns) /\ TurnsOf(r) = ToSet(r.turns)
<1>1. MaxRevision \in Nat \ {0}
  BY ShapeAssumption
<1>2. CASE r = NoFile
  BY <1>1, <1>2 DEF RevisionOf, TurnsOf
<1>3. CASE r # NoFile
  <2>1. r.revision \in 1 .. MaxRevision /\ r.turns \in Seq(Turns)
    BY <1>3 DEF Contents
  <2>2. ToSet(r.turns) \subseteq Turns
    BY <2>1 DEF ToSet
  <2> QED BY <1>1, <1>3, <2>1, <2>2 DEF RevisionOf, TurnsOf
<1> QED BY <1>2, <1>3

LEMMA HeldRecord ==
    ASSUME TypeOK, lock # Free
    PROVE  /\ lock.copy \in Contents \cup {NoFile} /\ lock.by \in Edit \cup Execution /\ lock.wrote \in BOOLEAN
           /\ [lock EXCEPT !.wrote = TRUE] \in Locks /\ [lock EXCEPT !.wrote = TRUE] # Free
           /\ [lock EXCEPT !.wrote = TRUE].by = lock.by /\ [lock EXCEPT !.wrote = TRUE].copy = lock.copy
           /\ [lock EXCEPT !.wrote = TRUE].wrote = TRUE
<1>1. lock \in Locks
  BY DEF TypeOK
<1> QED BY <1>1, SpecialAssumption DEF Locks

LEMMA Locking ==
    ASSUME TypeOK, NEW x \in Edit \cup Execution
    PROVE  LET taken == [by |-> x, copy |-> file, wrote |-> FALSE]
           IN  /\ taken \in Locks /\ taken # Free
               /\ taken.by = x /\ taken.copy = file /\ taken.wrote = FALSE
<1>1. [by |-> x, copy |-> file, wrote |-> FALSE] \in Locks
  BY DEF TypeOK, Locks
<1> QED BY <1>1, SpecialAssumption

\* The record a commit writes.
LEMMA AnsweredRecord ==
    ASSUME TypeOK, Locked, NEW e \in Execution, Holds(e)
    PROVE  /\ Answered(e, lock.copy) \in Contents /\ Answered(e, lock.copy) # NoFile
           /\ Answered(e, lock.copy).revision = RevisionOf(view[e]) + 1
           /\ TurnOf(e) \in Turns
<1> DEFINE turns == IF lock.copy = NoFile THEN <<>> ELSE lock.copy.turns
<1>1. lock.copy \in Contents \cup {NoFile} /\ TurnOf(e) \in Turns
  BY HeldRecord, Planned DEF Holds, TurnOf, Turns, TypeOK
<1>2. turns \in Seq(Turns) /\ (Kind(e) = "retry" => turns # <<>>)
  BY <1>1, RecordParts DEF Locked, Holds
<1>3. Append(turns, TurnOf(e)) \in Seq(Turns)
  BY <1>1, <1>2, Appended
<1>4. Kind(e) = "retry" => Append(Front(turns), TurnOf(e)) \in Seq(Turns)
  BY <1>1, <1>2, Appended, Fronted
<1>5. RevisionOf(view[e]) + 1 \in 1 .. MaxRevision
  BY <1>1, RecordParts, ShapeAssumption DEF Locked, Holds
<1> HIDE DEF turns
<1>6. Answered(e, lock.copy).turns \in Seq(Turns)
  BY <1>2, <1>3, <1>4 DEF Answered, turns
<1>7. /\ Answered(e, lock.copy) = [revision |-> RevisionOf(view[e]) + 1, status |-> "active",
                                  turns |-> Answered(e, lock.copy).turns]
  BY DEF Answered
<1> QED BY <1>1, <1>5, <1>6, <1>7, SpecialAssumption DEF Contents

LEMMA AnsweredTurns ==
    ASSUME TypeOK, Locked, NEW e \in Execution, Holds(e),
           \A t \in TurnsOf(lock.copy) : t.req # Req(e),
           lock.copy # NoFile => OncePerRequest(lock.copy.turns)
    PROVE  LET kept == IF Kind(e) = "retry" THEN TurnsOf(lock.copy) \ {Last(lock.copy.turns)}
                                            ELSE TurnsOf(lock.copy)
           IN  /\ OncePerRequest(Answered(e, lock.copy).turns)
               /\ TurnsOf(Answered(e, lock.copy)) = kept \cup {TurnOf(e)}
               /\ Kind(e) = "retry" => Last(lock.copy.turns) \in TurnsOf(lock.copy)
<1> DEFINE turns == IF lock.copy = NoFile THEN <<>> ELSE lock.copy.turns
           front == Front(turns)
<1>1. lock.copy \in Contents \cup {NoFile} /\ TurnOf(e) \in Turns /\ TurnOf(e).req = Req(e)
  BY HeldRecord, AnsweredRecord DEF Holds, TurnOf
<1>2. /\ turns \in Seq(Turns) /\ (Kind(e) = "retry" => turns # <<>> /\ turns = lock.copy.turns)
      /\ OncePerRequest(turns) /\ ToSet(turns) = TurnsOf(lock.copy)
  BY <1>1, RecordParts DEF Locked, Holds, OncePerRequest, TurnsOf, ToSet
<1> HIDE DEF turns
<1>3. CASE Kind(e) = "retry"
  <2>1. /\ front \in Seq(Turns) /\ OncePerRequest(front) /\ Last(turns) \in ToSet(turns)
        /\ ToSet(front) = ToSet(turns) \ {Last(turns)}
    BY <1>2, <1>3, Fronted
  <2>2. Answered(e, lock.copy).turns = Append(front, TurnOf(e))
    BY <1>3 DEF Answered, turns
  <2> HIDE DEF front
  <2>3. /\ OncePerRequest(Append(front, TurnOf(e)))
        /\ ToSet(Append(front, TurnOf(e))) = ToSet(front) \cup {TurnOf(e)}
    BY <1>1, <1>2, <2>1, Appended
  <2> QED BY <1>2, <1>3, <2>1, <2>2, <2>3, AnsweredRecord DEF TurnsOf
<1>4. CASE Kind(e) # "retry"
  <2>1. Answered(e, lock.copy).turns = Append(turns, TurnOf(e))
    BY <1>4 DEF Answered, turns
  <2>2. /\ OncePerRequest(Append(turns, TurnOf(e)))
        /\ ToSet(Append(turns, TurnOf(e))) = ToSet(turns) \cup {TurnOf(e)}
    BY <1>1, <1>2, Appended
  <2> QED BY <1>2, <1>4, <2>1, <2>2, AnsweredRecord DEF TurnsOf
<1> QED BY <1>3, <1>4

\* The record an editor writes.
LEMMA EditedRecord ==
    ASSUME TypeOK, Locked, NEW d \in Edit, Holds(d), d.op # "delete"
    PROVE  /\ Edited(d, lock.copy) \in Contents /\ Edited(d, lock.copy) # NoFile
           /\ Edited(d, lock.copy).revision = lock.copy.revision + 1
           /\ OncePerRequest(lock.copy.turns) =>
                /\ OncePerRequest(Edited(d, lock.copy).turns)
                /\ TurnsOf(Edited(d, lock.copy)) = TurnsOf(lock.copy) \ {d.turn}
           /\ Edited(d, lock.copy).status = IF d.op = "close" THEN "closed" ELSE lock.copy.status
           /\ Edited(d, lock.copy).turns = IF d.op = "remove"
                THEN RemoveAt(lock.copy.turns, Place(d.turn, lock.copy.turns)) ELSE lock.copy.turns
<1> DEFINE old == lock.copy
           new == Edited(d, old)
<1>1. /\ old \in Contents /\ old.revision \in 1 .. MaxRevision /\ old.revision < MaxRevision
      /\ old.turns \in Seq(Turns) /\ ToSet(old.turns) = TurnsOf(old) /\ old.status \in {"active", "closed"}
      /\ TurnsOf(old) \subseteq Turns
      /\ d.op = "remove" => d.turn \in ToSet(old.turns)
  BY HeldRecord, RecordParts DEF Locked, Holds, Contents
<1> HIDE DEF old
<1>2. /\ new.revision = old.revision + 1 /\ new.status \in {"active", "closed"}
      /\ new.status = IF d.op = "close" THEN "closed" ELSE old.status
      /\ new.turns = IF d.op = "remove" THEN RemoveAt(old.turns, Place(d.turn, old.turns)) ELSE old.turns
      /\ new = [revision |-> new.revision, status |-> new.status, turns |-> new.turns]
  <2> DEFINE status == IF d.op = "close" THEN "closed" ELSE old.status
             turns == IF d.op = "remove" THEN RemoveAt(old.turns, Place(d.turn, old.turns)) ELSE old.turns
  <2>1. DOMAIN old = {"revision", "status", "turns"}
    BY <1>1 DEF Contents
  <2>2. new = [[[old EXCEPT !.revision = old.revision + 1] EXCEPT !.status = status] EXCEPT !.turns = turns]
    BY <2>1 DEF Edited
  <2> HIDE DEF status, turns, new
  <2>3. new = [revision |-> old.revision + 1, status |-> status, turns |-> turns]
    BY <1>1, <2>2 DEF Contents
  <2> QED BY <1>1, <2>3 DEF status, turns
<1> HIDE DEF new
<1>3. new.turns \in Seq(Turns) /\ old.revision + 1 \in 1 .. MaxRevision
  BY <1>1, <1>2, Removed, ShapeAssumption
<1>4. new \in Contents /\ new # NoFile
  BY <1>2, <1>3, SpecialAssumption DEF Contents
<1>5. d.op # "remove" => d.turn \notin Turns
  BY SpecialAssumption DEF Edit
<1>6. OncePerRequest(old.turns) =>
        OncePerRequest(new.turns) /\ ToSet(new.turns) = ToSet(old.turns) \ {d.turn}
  BY <1>1, <1>2, <1>5, Removed
<1> QED BY <1>1, <1>2, <1>4, <1>6 DEF old, new, TurnsOf

\* A retry is prepared.
LEMMA PrepareStep ==
    ASSUME NEW e \in Execution, IInv, Prepare(e)
    PROVE  IInv'
<1>0. /\ TypeOK /\ Locked /\ Views /\ Unborn /\ Fresh /\ Once /\ Unanswered /\ Answers /\ Dropping
      /\ Drawn /\ TurnsSurvive /\ ImagesLostOnlyToSweeps
  BY DEF IInv
<1>1. TypeOK'
  BY <1>0, Planned DEF TypeOK, Prepare, Goto, ghosts
<1>2. Locked'
  BY <1>0 DEF Locked, Holds, Kind, Prepare, Goto
<1>3. Views'
  BY <1>0 DEF Views, Kind, TypeOK, Active, Exists, Prepare, Goto
<1>4. Unborn'
  BY <1>0 DEF Unborn, Kind, Unwritten, Prepare, Goto, ghosts
<1>5. Fresh'
  BY <1>0 DEF Fresh, Locked, Holds, Prepare, ghosts
<1>6. Once'
  BY <1>0 DEF Once, Unwritten, Early, Exists, Req, Prepare, Goto, ghosts
<1>7. Unanswered'
  BY <1>0 DEF Unanswered, UpToDate, Revision, Recorded, Req, Prepare, Goto, ghosts
<1>8. Answers'
  BY <1>0 DEF Answers, Req, Prepare, Goto, ghosts
<1>9. Dropping'
  BY <1>0 DEF Dropping, Replaced, Recorded, Kind, Exists, Prepare, Goto, ghosts
<1>10. Drawn'
  BY <1>0 DEF Drawn, Unwritten, Early, UpToDate, Revision, Req, Prepare, Goto, ghosts
<1>11. TurnsSurvive'
  BY <1>0 DEF TurnsSurvive, Prepare, ghosts
<1>12. ImagesLostOnlyToSweeps'
  BY <1>0 DEF ImagesLostOnlyToSweeps, Prepare, ghosts
<1> QED BY <1>1, <1>2, <1>3, <1>4, <1>5, <1>6, <1>7, <1>8, <1>9, <1>10, <1>11, <1>12 DEF IInv

\* An execution reads the record.
LEMMA LoadStep ==
    ASSUME NEW e \in Execution, IInv, Load(e)
    PROVE  IInv'
<1>0. /\ TypeOK /\ Locked /\ Views /\ Unborn /\ Fresh /\ Once /\ Unanswered /\ Answers /\ Dropping
      /\ Drawn /\ TurnsSurvive /\ ImagesLostOnlyToSweeps
  BY DEF IInv
<1>1. TypeOK'
  BY <1>0, Planned DEF TypeOK, Load, Goto, ghosts
<1>2. Locked'
  BY <1>0 DEF Locked, Holds, TypeOK, Kind, Load, Goto
<1>3. Views'
  <2>1. /\ pc' = [pc EXCEPT ![e] = "working"] /\ sent' = sent /\ pc[e] \in {"idle", "prepared"}
        /\ \/ Kind(e) = "create" /\ pc[e] = "idle" /\ view' = view
           \/ Kind(e) \in {"continue", "retry"} /\ file # NoFile /\ view' = [view EXCEPT ![e] = file]
    BY <1>0 DEF Load, Goto, TargetIsLast, Exists, Views
  <2> QED BY <1>0, <2>1 DEF Views, Kind, TypeOK
<1>4. Unborn'
  BY <1>0 DEF Unborn, Kind, Unwritten, Early, TypeOK, Load, Goto, ghosts
<1>5. Fresh'
  BY <1>0 DEF Fresh, TypeOK, Locked, Holds, Load, ghosts
<1>6. Once'
  BY <1>0 DEF Once, Unwritten, Early, Exists, Req, Load, Goto, ghosts
<1>7. Unanswered'
  BY <1>0 DEF Unanswered, UpToDate, Revision, Recorded, Req, TypeOK, Load, Goto, ghosts
<1>8. Answers'
  BY <1>0 DEF Answers, Req, Load, Goto, ghosts
<1>9. Dropping'
  BY <1>0 DEF Dropping, Replaced, Recorded, Kind, Exists, Load, Goto, ghosts
<1>10. Drawn'
  BY <1>0 DEF Drawn, Unwritten, Early, UpToDate, Revision, Req, TypeOK, Load, Goto, ghosts
<1>11. TurnsSurvive'
  BY <1>0 DEF TurnsSurvive, Load, ghosts
<1>12. ImagesLostOnlyToSweeps'
  BY <1>0 DEF ImagesLostOnlyToSweeps, Load, ghosts
<1> QED BY <1>1, <1>2, <1>3, <1>4, <1>5, <1>6, <1>7, <1>8, <1>9, <1>10, <1>11, <1>12 DEF IInv

\* A retry is refused.
LEMMA RefuseStep ==
    ASSUME NEW e \in Execution, IInv, RefuseRetry(e)
    PROVE  IInv'
<1>0. /\ TypeOK /\ Locked /\ Views /\ Unborn /\ Fresh /\ Once /\ Unanswered /\ Answers /\ Dropping
      /\ Drawn /\ TurnsSurvive /\ ImagesLostOnlyToSweeps
  BY DEF IInv
<1>1. TypeOK'
  BY <1>0, Planned DEF TypeOK, RefuseRetry, Goto, Leave, ghosts
<1>2. Locked'
  BY <1>0 DEF Locked, Holds, Kind, RefuseRetry, Goto, Leave
<1>3. Views'
  BY <1>0 DEF Views, Kind, TypeOK, RefuseRetry, Goto, Leave
<1>4. Unborn'
  BY <1>0 DEF Unborn, Kind, Unwritten, Views, RefuseRetry, Goto, Leave
<1>5. Fresh'
  BY <1>0 DEF Fresh, Locked, Holds, RefuseRetry, Leave, ghosts
<1>6. Once'
  BY <1>0 DEF Once, Unwritten, Early, Exists, Req, RefuseRetry, Goto, Leave, ghosts
<1>7. Unanswered'
  BY <1>0 DEF Unanswered, UpToDate, Revision, Recorded, Req, RefuseRetry, Goto, Leave, ghosts
<1>8. Answers'
  BY <1>0 DEF Answers, Req, RefuseRetry, Goto, Leave, ghosts
<1>9. Dropping'
  BY <1>0 DEF Dropping, Replaced, Recorded, Kind, Exists, RefuseRetry, Goto, Leave, ghosts
<1>10. Drawn'
  BY <1>0 DEF Drawn, Unwritten, Early, UpToDate, Revision, Req, RefuseRetry, Goto, Leave, ghosts
<1>11. TurnsSurvive'
  BY <1>0 DEF TurnsSurvive, RefuseRetry, ghosts
<1>12. ImagesLostOnlyToSweeps'
  BY <1>0 DEF ImagesLostOnlyToSweeps, RefuseRetry, ghosts
<1> QED BY <1>1, <1>2, <1>3, <1>4, <1>5, <1>6, <1>7, <1>8, <1>9, <1>10, <1>11, <1>12 DEF IInv

\* An image is drawn.
LEMMA DrawStep ==
    ASSUME NEW e \in Execution, IInv, Draw(e)
    PROVE  IInv'
<1>0. /\ TypeOK /\ Locked /\ Views /\ Unborn /\ Fresh /\ Once /\ Unanswered /\ Answers /\ Dropping
      /\ Drawn /\ TurnsSurvive /\ ImagesLostOnlyToSweeps
  BY DEF IInv
<1>1. TypeOK'
  BY <1>0, Planned DEF TypeOK, Draw, Goto, ghosts
<1>2. Locked'
  BY <1>0 DEF Locked, Holds, Kind, Draw, Goto
<1>3. Views'
  BY <1>0 DEF Views, Kind, Draw, Goto
<1>4. Unborn'
  BY <1>0 DEF Unborn, Kind, Unwritten, Early, Draw, Goto, ghosts
<1>5. Fresh'
  BY <1>0 DEF Fresh, Draw, ghosts
<1>6. Once'
  BY <1>0 DEF Once, Unwritten, Early, Exists, Req, Draw, Goto, ghosts
<1>7. Unanswered'
  BY <1>0 DEF Unanswered, UpToDate, Revision, Recorded, Req, Draw, Goto, ghosts
<1>8. Answers'
  BY <1>0 DEF Answers, Req, Draw, Goto, ghosts
<1>9. Dropping'
  BY <1>0 DEF Dropping, Replaced, Recorded, Kind, Exists, Draw, Goto, ghosts
<1>10. Drawn'
  BY <1>0 DEF Drawn, Unwritten, Early, UpToDate, Revision, Req, TypeOK, Draw, Goto, ghosts
<1>11. TurnsSurvive'
  BY <1>0 DEF TurnsSurvive, Draw, ghosts
<1>12. ImagesLostOnlyToSweeps'
  BY <1>0 DEF ImagesLostOnlyToSweeps, Draw, ghosts
<1> QED BY <1>1, <1>2, <1>3, <1>4, <1>5, <1>6, <1>7, <1>8, <1>9, <1>10, <1>11, <1>12 DEF IInv

\* An image could not be drawn.
LEMMA DrawFailsStep ==
    ASSUME NEW e \in Execution, IInv, DrawFails(e)
    PROVE  IInv'
<1>0. /\ TypeOK /\ Locked /\ Views /\ Unborn /\ Fresh /\ Once /\ Unanswered /\ Answers /\ Dropping
      /\ Drawn /\ TurnsSurvive /\ ImagesLostOnlyToSweeps
  BY DEF IInv
<1>1. TypeOK'
  BY <1>0, Planned DEF TypeOK, DrawFails, Goto, Sweep, Without
<1>2. Locked'
  BY <1>0 DEF Locked, Holds, Kind, DrawFails, Goto
<1>3. Views'
  BY <1>0 DEF Views, Kind, DrawFails, Goto
<1>4. Unborn'
  BY <1>0 DEF Unborn, Kind, Unwritten, Early, DrawFails, Goto
<1>5. Fresh'
  BY <1>0 DEF Fresh, DrawFails
<1>6. Once'
  BY <1>0 DEF Once, Unwritten, Early, Exists, Req, DrawFails, Goto
<1>7. Unanswered'
  BY <1>0 DEF Unanswered, UpToDate, Revision, Recorded, Req, DrawFails, Goto
<1>8. Answers'
  BY <1>0 DEF Answers, Req, DrawFails, Goto
<1>9. Dropping'
  BY <1>0 DEF Dropping, Replaced, Recorded, Kind, Exists, DrawFails, Goto
<1>10. Drawn'
  BY <1>0 DEF Drawn, Unwritten, Early, UpToDate, Revision, Req, DrawFails, Goto, Sweep, Without
<1>11. TurnsSurvive'
  BY <1>0 DEF TurnsSurvive, DrawFails
<1>12. ImagesLostOnlyToSweeps'
  BY <1>0 DEF ImagesLostOnlyToSweeps, Once, TurnsSurvive, DrawFails, Sweep, Without
<1> QED BY <1>1, <1>2, <1>3, <1>4, <1>5, <1>6, <1>7, <1>8, <1>9, <1>10, <1>11, <1>12 DEF IInv

\* An answer is composed.
LEMMA ComposeStep ==
    ASSUME NEW e \in Execution, IInv, Compose(e)
    PROVE  IInv'
<1>0. /\ TypeOK /\ Locked /\ Views /\ Unborn /\ Fresh /\ Once /\ Unanswered /\ Answers /\ Dropping
      /\ Drawn /\ TurnsSurvive /\ ImagesLostOnlyToSweeps
  BY DEF IInv
<1>1. TypeOK'
  BY <1>0, Planned DEF TypeOK, Compose, Goto, ghosts
<1>2. Locked'
  BY <1>0 DEF Locked, Holds, Kind, Compose, Goto
<1>3. Views'
  BY <1>0 DEF Views, Kind, Compose, Goto
<1>4. Unborn'
  BY <1>0 DEF Unborn, Kind, Unwritten, Early, Compose, Goto, ghosts
<1>5. Fresh'
  BY <1>0 DEF Fresh, Compose, ghosts
<1>6. Once'
  BY <1>0 DEF Once, Unwritten, Early, Exists, Req, Compose, Goto, ghosts
<1>7. Unanswered'
  BY <1>0 DEF Unanswered, UpToDate, Revision, Recorded, Req, Compose, Goto, ghosts
<1>8. Answers'
  BY <1>0 DEF Answers, Req, Compose, Goto, ghosts
<1>9. Dropping'
  BY <1>0 DEF Dropping, Replaced, Recorded, Kind, Exists, Compose, Goto, ghosts
<1>10. Drawn'
  BY <1>0 DEF Drawn, Unwritten, Early, UpToDate, Revision, Req, Compose, Goto, ghosts
<1>11. TurnsSurvive'
  BY <1>0 DEF TurnsSurvive, Compose, ghosts
<1>12. ImagesLostOnlyToSweeps'
  BY <1>0 DEF ImagesLostOnlyToSweeps, Compose, ghosts
<1> QED BY <1>1, <1>2, <1>3, <1>4, <1>5, <1>6, <1>7, <1>8, <1>9, <1>10, <1>11, <1>12 DEF IInv

\* An execution fails.
LEMMA FailStep ==
    ASSUME NEW e \in Execution, IInv, Fail(e)
    PROVE  IInv'
<1>0. /\ TypeOK /\ Locked /\ Views /\ Unborn /\ Fresh /\ Once /\ Unanswered /\ Answers /\ Dropping
      /\ Drawn /\ TurnsSurvive /\ ImagesLostOnlyToSweeps
  BY DEF IInv
<1>1. TypeOK'
  BY <1>0, Planned DEF TypeOK, Fail, Goto, Leave, Sweep, Without
<1>2. Locked'
  BY <1>0 DEF Locked, Holds, Kind, Fail, Goto, Leave
<1>3. Views'
  BY <1>0 DEF Views, Kind, TypeOK, Fail, Goto, Leave
<1>4. Unborn'
  BY <1>0 DEF Unborn, Kind, Unwritten, Early, Fail, Goto, Leave
<1>5. Fresh'
  BY <1>0 DEF Fresh, Locked, Holds, Fail, Leave
<1>6. Once'
  BY <1>0 DEF Once, Unwritten, Early, Exists, Req, Fail, Goto, Leave
<1>7. Unanswered'
  BY <1>0 DEF Unanswered, UpToDate, Revision, Recorded, Req, Fail, Goto, Leave
<1>8. Answers'
  BY <1>0 DEF Answers, Req, Fail, Goto, Leave
<1>9. Dropping'
  BY <1>0 DEF Dropping, Replaced, Recorded, Kind, Exists, Fail, Goto, Leave
<1>10. Drawn'
  BY <1>0 DEF Drawn, Unwritten, Early, UpToDate, Revision, Req, Fail, Goto, Leave, Sweep, Without
<1>11. TurnsSurvive'
  BY <1>0 DEF TurnsSurvive, Fail
<1>12. ImagesLostOnlyToSweeps'
  BY <1>0 DEF ImagesLostOnlyToSweeps, Once, TurnsSurvive, Fail, Sweep, Without
<1> QED BY <1>1, <1>2, <1>3, <1>4, <1>5, <1>6, <1>7, <1>8, <1>9, <1>10, <1>11, <1>12 DEF IInv

\* An execution looks for its request.
LEMMA LookStep ==
    ASSUME NEW e \in Execution, IInv, Look(e)
    PROVE  IInv'
<1>0. /\ TypeOK /\ Locked /\ Views /\ Unborn /\ Fresh /\ Once /\ Unanswered /\ Answers /\ Dropping
      /\ Drawn /\ TurnsSurvive /\ ImagesLostOnlyToSweeps
  BY DEF IInv
<1>a. /\ pc[e] = "answered" /\ UNCHANGED <<file, lock, art, sent, view, image, copy, ghosts>>
      /\ \/ pc' = [pc EXCEPT ![e] = "looked"] /\ answer' = answer /\ Recorded(Req(e)) = {}
         \/ /\ pc' = [pc EXCEPT ![e] = "answering"]
            /\ \E t \in Recorded(Req(e)) : answer' = [answer EXCEPT ![e] = t]
  BY DEF Look, Goto
<1>b. Recorded(Req(e)) \subseteq Turns /\ \A t \in Recorded(Req(e)) : t \in TurnsOf(file) /\ t.req = Req(e)
  BY <1>0, RecordParts DEF Recorded, TypeOK
<1>1. TypeOK'
  BY <1>0, <1>a, <1>b DEF TypeOK, ghosts
<1>2. Locked'
  BY <1>0 DEF Locked, Holds, TypeOK, Kind, Look, Goto
<1>3. Views'
  BY <1>0 DEF Views, Kind, TypeOK, Look, Goto
<1>4. Unborn'
  BY <1>0 DEF Unborn, Kind, Unwritten, TypeOK, Look, Goto, ghosts
<1>5. Fresh'
  BY <1>0 DEF Fresh, Look, ghosts
<1>6. Once'
  BY <1>0, <1>a DEF Once, Unwritten, TypeOK, Turns, Req, Exists, ghosts
<1>7. Unanswered'
  BY <1>0 DEF Unanswered, UpToDate, Revision, Recorded, Req, TypeOK, Look, Goto, ghosts
<1>8. Answers'
  BY <1>0, <1>a, <1>b DEF Answers, TypeOK, Req, TurnsSurvive, ghosts
<1>9. Dropping'
  BY <1>0 DEF Dropping, Replaced, Recorded, Kind, Exists, Look, Goto, ghosts
<1>10. Drawn'
  BY <1>0 DEF Drawn, Unwritten, Early, UpToDate, Revision, Req, TypeOK, Look, Goto, ghosts
<1>11. TurnsSurvive'
  BY <1>0 DEF TurnsSurvive, Look, ghosts
<1>12. ImagesLostOnlyToSweeps'
  BY <1>0 DEF ImagesLostOnlyToSweeps, Look, ghosts
<1> QED BY <1>1, <1>2, <1>3, <1>4, <1>5, <1>6, <1>7, <1>8, <1>9, <1>10, <1>11, <1>12 DEF IInv

\* A commit takes the lock.
LEMMA LockStep ==
    ASSUME NEW e \in Execution, IInv, LockToCommit(e)
    PROVE  IInv'
<1>0. /\ TypeOK /\ Locked /\ Views /\ Unborn /\ Fresh /\ Once /\ Unanswered /\ Answers /\ Dropping
      /\ Drawn /\ TurnsSurvive /\ ImagesLostOnlyToSweeps
  BY DEF IInv
<1>a. /\ pc[e] = "looked" /\ lock = Free /\ pc' = [pc EXCEPT ![e] = "locked"]
      /\ UNCHANGED <<file, art, sent, view, image, answer, copy, ghosts>>
      /\ RevisionOf(view[e]) = Revision /\ Revision < MaxRevision
      /\ Kind(e) = "retry" => Exists /\ file.turns # <<>>
  BY DEF LockToCommit, MayCommit, TargetIsLast, Goto
<1>b. lock' \in Locks /\ lock' # Free /\ lock'.by = e /\ lock'.copy = file /\ lock'.wrote = FALSE
  BY <1>0, Locking DEF LockToCommit
<1>c. ~clobbered => view[e] = file
  <2>1. RevisionOf(view[e]) = RevisionOf(file) /\ view[e] \in Contents \cup {NoFile} /\ file \in Contents \cup {NoFile}
    BY <1>0, <1>a DEF TypeOK, Revision
  <2>2. view[e] = NoFile <=> file = NoFile
    BY <2>1, RecordParts, ShapeAssumption DEF RevisionOf
  <2>3. view[e] # NoFile => view[e].revision = file.revision /\ file.revision \in Nat
    BY <2>1, <2>2, RecordParts, ShapeAssumption DEF RevisionOf
  <2> QED BY <1>0, <2>2, <2>3 DEF Fresh
<1>d. e \notin Edit /\ \A f \in Execution : pc[f] # "locked"
  BY <1>0, <1>a, SpecialAssumption DEF Locked, Holds
<1>e. \A f \in Execution : Unwritten(f)' <=> Unwritten(f)
  BY <1>0, <1>a, <1>b, <1>d DEF Unwritten, Early, TypeOK
<1>1. TypeOK'
  BY <1>0, <1>a, <1>b DEF TypeOK, ghosts
<1>2. Locked'
  BY <1>0, <1>a, <1>b, <1>d DEF Locked, Holds, TypeOK, Revision, Kind, Exists
<1>3. Views'
  BY <1>0 DEF Views, Kind, LockToCommit, Goto
<1>4. Unborn'
  BY <1>0, <1>a, <1>b, <1>e, Planned DEF Unborn, Views, Kind, Begins, ghosts
<1>5. Fresh'
  BY <1>0, <1>a, <1>b, <1>c DEF Fresh, ghosts
<1>6. Once'
  BY <1>0, <1>a, <1>e DEF Once, TypeOK, Turns, Exists, Req, ghosts
<1>7. Unanswered'
  BY <1>0 DEF Unanswered, UpToDate, Revision, Recorded, Req, Locked, Holds, LockToCommit, Goto,
       ghosts
<1>8. Answers'
  BY <1>0 DEF Answers, Req, LockToCommit, Goto, ghosts
<1>9. Dropping'
  BY <1>0 DEF Dropping, LockToCommit
<1>10. Drawn'
  BY <1>0 DEF Drawn, Unwritten, Early, UpToDate, Revision, Req, Locked, Holds, LockToCommit, Goto,
       ghosts
<1>11. TurnsSurvive'
  BY <1>0 DEF TurnsSurvive, LockToCommit, ghosts
<1>12. ImagesLostOnlyToSweeps'
  BY <1>0 DEF ImagesLostOnlyToSweeps, LockToCommit, ghosts
<1> QED BY <1>1, <1>2, <1>3, <1>4, <1>5, <1>6, <1>7, <1>8, <1>9, <1>10, <1>11, <1>12 DEF IInv

\* A commit is refused.
LEMMA ConflictStep ==
    ASSUME NEW e \in Execution, IInv, Conflict(e)
    PROVE  IInv'
<1>0. /\ TypeOK /\ Locked /\ Views /\ Unborn /\ Fresh /\ Once /\ Unanswered /\ Answers /\ Dropping
      /\ Drawn /\ TurnsSurvive /\ ImagesLostOnlyToSweeps
  BY DEF IInv
<1>1. TypeOK'
  BY <1>0, Planned DEF TypeOK, Conflict, Goto, Leave, Sweep, Without
<1>2. Locked'
  BY <1>0 DEF Locked, Holds, Conflict, Goto, Leave
<1>3. Views'
  BY <1>0 DEF Views, Kind, TypeOK, Conflict, Goto, Leave
<1>4. Unborn'
  BY <1>0 DEF Unborn, Kind, Unwritten, Conflict, Goto, Leave
<1>5. Fresh'
  BY <1>0 DEF Fresh, Conflict, Leave
<1>6. Once'
  BY <1>0 DEF Once, Unwritten, Exists, Req, Conflict, Goto, Leave
<1>7. Unanswered'
  BY <1>0 DEF Unanswered, UpToDate, Revision, Recorded, Req, TypeOK, Conflict, Goto, Leave
<1>8. Answers'
  BY <1>0 DEF Answers, Req, Conflict, Goto, Leave
<1>9. Dropping'
  BY <1>0 DEF Dropping, Conflict
<1>10. Drawn'
  BY <1>0 DEF Drawn, Unwritten, Early, UpToDate, Revision, Req, Conflict, Goto, Leave, Sweep,
       Without
<1>11. TurnsSurvive'
  BY <1>0 DEF TurnsSurvive, Conflict
<1>12. ImagesLostOnlyToSweeps'
  BY <1>0 DEF ImagesLostOnlyToSweeps, Once, TurnsSurvive, Conflict, Sweep, Without
<1> QED BY <1>1, <1>2, <1>3, <1>4, <1>5, <1>6, <1>7, <1>8, <1>9, <1>10, <1>11, <1>12 DEF IInv

\* Whoever writes an answer leaves everybody else behind.
LEMMA Outdated ==
    ASSUME NEW e \in Execution, IInv, Write(e), ~clobbered, NEW f \in Execution
    PROVE  /\ lock.copy = file /\ view[e] = file /\ Recorded(Req(e)) = {}
           /\ view[f] # NoFile => view[f].revision < file'.revision
           /\ ~UpToDate(f)'
<1>0. TypeOK /\ Locked /\ Views /\ Unborn /\ Fresh /\ Unanswered
  BY DEF IInv
<1>a. /\ pc[e] = "locked" /\ Holds(e) /\ lock # Free /\ lock.by = e /\ ~lock.wrote
      /\ file' = Answered(e, lock.copy) /\ UNCHANGED <<sent, view>>
  BY DEF Write, Holds
<1>b. file' \in Contents /\ file' # NoFile /\ file'.revision = RevisionOf(view[e]) + 1
  BY <1>0, <1>a, AnsweredRecord
<1>1. lock.copy = file /\ view[e] = file /\ Recorded(Req(e)) = {}
  BY <1>0, <1>a DEF Fresh, Unanswered, UpToDate, Revision
<1>2. RevisionOf(view[e]) \in Nat /\ RevisionOf(view[f]) \in Nat /\ file'.revision \in Nat
      /\ (view[f] # NoFile => RevisionOf(view[f]) = view[f].revision /\ view[f].revision \in Nat)
  BY <1>0, <1>b, RecordParts, ShapeAssumption DEF TypeOK
<1>3. RevisionOf(view[f]) < file'.revision
  <2>1. CASE view[f] = NoFile
    BY <1>b, <1>2, <2>1 DEF RevisionOf
  <2>2. CASE view[f] # NoFile /\ file = NoFile
    BY <1>0, <1>a, <1>1, <2>2 DEF Views, Unborn, Unwritten
  <2>3. CASE view[f] # NoFile /\ file # NoFile
    <3>1. file.revision = RevisionOf(view[e])
      BY <1>1, <2>3 DEF RevisionOf
    <3>2. view[f] = file \/ view[f].revision < file.revision
      BY <1>0, <2>3 DEF Fresh
    <3> QED BY <1>b, <1>2, <2>3, <3>1, <3>2
  <2> QED BY <2>1, <2>2, <2>3
<1>4. UpToDate(f)' <=> RevisionOf(view[f]) = file'.revision
  BY <1>a, <1>b DEF UpToDate, Revision, RevisionOf
<1> QED BY <1>1, <1>2, <1>3, <1>4

\* A commit writes the record.
LEMMA WriteStep ==
    ASSUME NEW e \in Execution, IInv, Write(e)
    PROVE  IInv'
<1>0. /\ TypeOK /\ Locked /\ Views /\ Unborn /\ Fresh /\ Once /\ Unanswered /\ Answers /\ Dropping
      /\ Drawn /\ TurnsSurvive /\ ImagesLostOnlyToSweeps
  BY DEF IInv
<1>a. /\ pc[e] = "locked" /\ Holds(e) /\ lock # Free /\ lock.by = e /\ ~lock.wrote
      /\ file' = Answered(e, lock.copy) /\ committed' = committed \cup TurnsOf(file')
      /\ gone' = IF Kind(e) = "retry" THEN gone \cup {Last(lock.copy.turns)} ELSE gone
      /\ answer' = [answer EXCEPT ![e] = TurnOf(e)]
      /\ UNCHANGED <<art, sent, pc, view, image, copy, swept, clobbered>>
  BY DEF Write, Holds
<1>b. /\ file' \in Contents /\ file' # NoFile /\ file'.revision = RevisionOf(view[e]) + 1
      /\ TurnOf(e) \in Turns /\ TurnOf(e).by = e /\ TurnOf(e).req = Req(e) /\ TurnOf(e).image = image[e]
  BY <1>0, <1>a, AnsweredRecord DEF TurnOf
<1>c. lock' \in Locks /\ lock' # Free /\ lock'.by = e /\ lock'.copy = lock.copy /\ lock'.wrote
  BY <1>0, <1>a, HeldRecord DEF Write
<1>d. /\ e \notin Edit /\ Unwritten(e) /\ ~Unwritten(e)'
      /\ \A f \in Execution : f # e => pc[f] # "locked" /\ (Unwritten(f)' <=> Unwritten(f))
  BY <1>0, <1>a, <1>c, SpecialAssumption DEF Locked, Holds, Unwritten, Early
<1>e. /\ RevisionOf(lock.copy) \in Nat /\ TurnsOf(lock.copy) \subseteq Turns /\ TurnsOf(file') \subseteq Turns
      /\ Kind(e) = "retry" => /\ lock.copy # NoFile /\ lock.copy.turns \in Seq(Turns) /\ lock.copy.turns # <<>>
                              /\ TurnsOf(lock.copy) = ToSet(lock.copy.turns) /\ Last(lock.copy.turns) \in Turns
  BY <1>0, <1>a, <1>b, HeldRecord, RecordParts, Fronted, ShapeAssumption DEF Locked, Holds
<1>f. ASSUME ~clobbered
      PROVE  /\ lock.copy = file /\ view[e] = file /\ \A t \in TurnsOf(file) : t.req # Req(e)
             /\ OncePerRequest(file'.turns)
             /\ TurnsOf(file') = (IF Kind(e) = "retry" THEN TurnsOf(file) \ {Last(lock.copy.turns)}
                                                       ELSE TurnsOf(file)) \cup {TurnOf(e)}
             /\ Kind(e) = "retry" => Last(lock.copy.turns) \in TurnsOf(file)
  <2>1. lock.copy = file /\ view[e] = file /\ Recorded(Req(e)) = {}
    BY <1>f, Outdated
  <2>2. /\ \A t \in TurnsOf(lock.copy) : t.req # Req(e)
        /\ lock.copy # NoFile => OncePerRequest(lock.copy.turns)
    BY <1>0, <1>f, <2>1 DEF Recorded, Once, Exists
  <2> QED BY <1>0, <1>a, <2>1, <2>2, AnsweredTurns
<1>g. ~clobbered => \A f \in Execution : ~UpToDate(f)'
  BY Outdated
<1>1. TypeOK'
  BY <1>0, <1>a, <1>b, <1>c, <1>e DEF TypeOK
<1>2. Locked'
  BY <1>0, <1>a, <1>c, <1>d DEF Locked, Holds, Kind
<1>3. Views'
  BY <1>0 DEF Views, Kind, Write
<1>4. Unborn'
  BY <1>0, <1>a, <1>d DEF Unborn, Kind
<1>5. Fresh'
  <2>1. ASSUME ~clobbered, NEW f \in Execution, view[f] # NoFile PROVE view[f].revision < file'.revision
    BY <2>1, Outdated
  <2> QED BY <1>a, <1>c, <1>f, <2>1 DEF Fresh
<1>6. Once'
  <2> SUFFICES ASSUME ~clobbered PROVE Once'
    BY <1>a DEF Once
  <2>1. TurnsOf(file') \subseteq committed \cup {TurnOf(e)} /\ gone' \subseteq committed'
    BY <1>0, <1>a, <1>f DEF Once, TurnsSurvive
  <2>2. \A t \in committed : t \in Turns /\ t.by \in Execution /\ ~Unwritten(t.by) /\ t.req = Req(t.by)
    BY <1>0 DEF TypeOK, Once, Turns
  <2>3. \A t \in committed' : ~Unwritten(t.by)' /\ t.req = Req(t.by)
    BY <1>a, <1>b, <1>d, <2>1, <2>2
  <2> QED BY <1>a, <1>b, <1>f, <2>1, <2>3 DEF Once, Req
<1>7. Unanswered'
  BY <1>a, <1>g DEF Unanswered
<1>8. Answers'
  BY <1>0, <1>a, <1>b, <1>c, <1>d, <1>f DEF Answers, TypeOK, Req
<1>9. Dropping'
  <2> SUFFICES ASSUME ~clobbered, Kind(e) = "retry", NEW t \in TurnsOf(file'), t.req = Last(lock.copy.turns).req
               PROVE  FALSE
    BY <1>a, <1>c, <1>d DEF Dropping, Recorded, Replaced, Kind
  <2>1. t # TurnOf(e)
    BY <1>b, <1>f
  <2>2. OncePerRequest(lock.copy.turns)
    BY <1>0, <1>e, <1>f DEF Once, Exists
  <2> QED BY <1>e, <1>f, <2>1, <2>2, OneTurn
<1>10. Drawn'
  BY <1>0, <1>a, <1>g DEF Drawn
<1>11. TurnsSurvive'
  BY <1>0, <1>a, <1>b, <1>d, <1>f DEF TurnsSurvive, Once
<1>12. ImagesLostOnlyToSweeps'
  BY <1>0, <1>a, <1>b, <1>d, <1>f DEF ImagesLostOnlyToSweeps, Drawn, UpToDate, Revision
<1> QED BY <1>1, <1>2, <1>3, <1>4, <1>5, <1>6, <1>7, <1>8, <1>9, <1>10, <1>11, <1>12 DEF IInv

\* A commit removes the images it replaces.
LEMMA UnlockStep ==
    ASSUME NEW e \in Execution, IInv, Unlock(e)
    PROVE  IInv'
<1>0. /\ TypeOK /\ Locked /\ Views /\ Unborn /\ Fresh /\ Once /\ Unanswered /\ Answers /\ Dropping
      /\ Drawn /\ TurnsSurvive /\ ImagesLostOnlyToSweeps
  BY DEF IInv
<1>a. /\ pc[e] = "locked" /\ Holds(e) /\ lock # Free /\ lock.by = e /\ lock.wrote /\ lock' = Free
      /\ pc' = [pc EXCEPT ![e] = "persisted"]
      /\ UNCHANGED <<file, sent, view, image, answer, copy, committed, gone, clobbered>>
      /\ IF Kind(e) = "retry" THEN Discard(Replaced(e)) ELSE UNCHANGED <<art, swept>>
  BY DEF Unlock, Holds, Goto
<1>b. \A f \in Execution : (f # e => pc[f] # "locked") /\ (Unwritten(f)' <=> Unwritten(f))
  BY <1>0, <1>a DEF Locked, Holds, Unwritten, Early, TypeOK
<1>c. Kind(e) = "retry" => Replaced(e) \in Request
  BY <1>0, <1>a, HeldRecord, RecordParts, Fronted DEF Locked, Holds, Replaced, Turns
<1>1. TypeOK'
  BY <1>0, <1>a, <1>c DEF TypeOK, Discard, Without
<1>2. Locked'
  BY <1>0 DEF Locked, Holds, TypeOK, Unlock, Goto
<1>3. Views'
  BY <1>0 DEF Views, Kind, Unlock, Goto
<1>4. Unborn'
  BY <1>0 DEF Unborn, Kind, Unwritten, Early, TypeOK, Locked, Holds, Unlock, Goto
<1>5. Fresh'
  BY <1>0 DEF Fresh, Unlock
<1>6. Once'
  BY <1>0, <1>a, <1>b DEF Once, TypeOK, Turns, Exists, Req
<1>7. Unanswered'
  BY <1>0 DEF Unanswered, UpToDate, Revision, Recorded, Req, TypeOK, Locked, Holds, Unlock, Goto
<1>8. Answers'
  BY <1>0 DEF Answers, Req, Unlock, Goto
<1>9. Dropping'
  BY <1>0 DEF Dropping, Unlock
<1>10. Drawn'
  <2> SUFFICES ASSUME NEW f \in Execution, ~clobbered, Unwritten(f), UpToDate(f), image[f]
               PROVE  f \in art' \/ Req(f) \in swept'
    BY <1>0, <1>a, <1>b DEF Drawn, Early, UpToDate, Revision, Req, TypeOK
  <2>1. f \in art \/ Req(f) \in swept
    BY <1>0 DEF Drawn
  <2>2. pc[f] \in {"answered", "looked"}
    BY <1>0, <1>b, <1>a DEF Drawn, Unwritten
  <2> QED BY <1>a, <2>1, <2>2 DEF Discard, Without, Overtaken, UpToDate
<1>11. TurnsSurvive'
  BY <1>0 DEF TurnsSurvive, Unlock
<1>12. ImagesLostOnlyToSweeps'
  <2>1. ASSUME ~clobbered, NEW t \in TurnsOf(file)
        PROVE  t.by \in Execution /\ t.req = Req(t.by) /\ (Kind(e) = "retry" => t.req # Replaced(e))
    BY <1>0, <1>a, <2>1 DEF TypeOK, Turns, TurnsSurvive, Once, Dropping, Recorded
  <2> QED BY <1>0, <1>a, <2>1 DEF ImagesLostOnlyToSweeps, Discard, Without
<1> QED BY <1>1, <1>2, <1>3, <1>4, <1>5, <1>6, <1>7, <1>8, <1>9, <1>10, <1>11, <1>12 DEF IInv

\* The ledger is written.
LEMMA LedgerStep ==
    ASSUME NEW e \in Execution, IInv, Ledger(e)
    PROVE  IInv'
<1>0. /\ TypeOK /\ Locked /\ Views /\ Unborn /\ Fresh /\ Once /\ Unanswered /\ Answers /\ Dropping
      /\ Drawn /\ TurnsSurvive /\ ImagesLostOnlyToSweeps
  BY DEF IInv
<1>1. TypeOK'
  BY <1>0, Planned DEF TypeOK, Ledger, Goto, ghosts
<1>2. Locked'
  BY <1>0 DEF Locked, Holds, Kind, Ledger, Goto
<1>3. Views'
  BY <1>0 DEF Views, Kind, Ledger, Goto
<1>4. Unborn'
  BY <1>0 DEF Unborn, Kind, Unwritten, Early, Ledger, Goto, ghosts
<1>5. Fresh'
  BY <1>0 DEF Fresh, Ledger, ghosts
<1>6. Once'
  BY <1>0 DEF Once, Unwritten, Early, Exists, Req, Ledger, Goto, ghosts
<1>7. Unanswered'
  BY <1>0 DEF Unanswered, UpToDate, Revision, Recorded, Req, Ledger, Goto, ghosts
<1>8. Answers'
  BY <1>0 DEF Answers, Req, Ledger, Goto, ghosts
<1>9. Dropping'
  BY <1>0 DEF Dropping, Replaced, Recorded, Kind, Exists, Ledger, Goto, ghosts
<1>10. Drawn'
  BY <1>0 DEF Drawn, Unwritten, Early, UpToDate, Revision, Req, Ledger, Goto, ghosts
<1>11. TurnsSurvive'
  BY <1>0 DEF TurnsSurvive, Ledger, ghosts
<1>12. ImagesLostOnlyToSweeps'
  BY <1>0 DEF ImagesLostOnlyToSweeps, Ledger, ghosts
<1> QED BY <1>1, <1>2, <1>3, <1>4, <1>5, <1>6, <1>7, <1>8, <1>9, <1>10, <1>11, <1>12 DEF IInv

\* An execution fails behind its commit.
LEMMA FailCommittedStep ==
    ASSUME NEW e \in Execution, IInv, FailCommitted(e)
    PROVE  IInv'
<1>0. /\ TypeOK /\ Locked /\ Views /\ Unborn /\ Fresh /\ Once /\ Unanswered /\ Answers /\ Dropping
      /\ Drawn /\ TurnsSurvive /\ ImagesLostOnlyToSweeps
  BY DEF IInv
<1>1. TypeOK'
  BY <1>0, Planned DEF TypeOK, FailCommitted, Goto, Leave, Sweep, Without
<1>2. Locked'
  BY <1>0 DEF Locked, Holds, Kind, FailCommitted, Goto, Leave
<1>3. Views'
  BY <1>0 DEF Views, Kind, TypeOK, FailCommitted, Goto, Leave
<1>4. Unborn'
  BY <1>0 DEF Unborn, Kind, Unwritten, Early, FailCommitted, Goto, Leave
<1>5. Fresh'
  BY <1>0 DEF Fresh, Locked, Holds, FailCommitted, Leave
<1>6. Once'
  BY <1>0 DEF Once, Unwritten, Early, Exists, Req, FailCommitted, Goto, Leave
<1>7. Unanswered'
  BY <1>0 DEF Unanswered, UpToDate, Revision, Recorded, Req, FailCommitted, Goto, Leave
<1>8. Answers'
  BY <1>0 DEF Answers, Req, TypeOK, FailCommitted, Goto, Leave
<1>9. Dropping'
  BY <1>0 DEF Dropping, Replaced, Recorded, Kind, Exists, FailCommitted, Goto, Leave
<1>10. Drawn'
  BY <1>0 DEF Drawn, Unwritten, Early, UpToDate, Revision, Req, FailCommitted, Goto, Leave, Sweep,
       Without
<1>11. TurnsSurvive'
  BY <1>0 DEF TurnsSurvive, FailCommitted
<1>12. ImagesLostOnlyToSweeps'
  BY <1>0 DEF ImagesLostOnlyToSweeps, Once, TurnsSurvive, FailCommitted, Sweep, Without
<1> QED BY <1>1, <1>2, <1>3, <1>4, <1>5, <1>6, <1>7, <1>8, <1>9, <1>10, <1>11, <1>12 DEF IInv

\* An execution returns.
LEMMA ReplyStep ==
    ASSUME NEW e \in Execution, IInv, Reply(e)
    PROVE  IInv'
<1>0. /\ TypeOK /\ Locked /\ Views /\ Unborn /\ Fresh /\ Once /\ Unanswered /\ Answers /\ Dropping
      /\ Drawn /\ TurnsSurvive /\ ImagesLostOnlyToSweeps
  BY DEF IInv
<1>1. TypeOK'
  BY <1>0, Planned DEF TypeOK, Reply, Goto, Leave, ghosts
<1>2. Locked'
  BY <1>0 DEF Locked, Holds, Kind, Reply, Goto, Leave
<1>3. Views'
  BY <1>0 DEF Views, Kind, TypeOK, Reply, Goto, Leave
<1>4. Unborn'
  BY <1>0 DEF Unborn, Kind, Unwritten, Early, Reply, Goto, Leave, ghosts
<1>5. Fresh'
  BY <1>0 DEF Fresh, Locked, Holds, Reply, Leave, ghosts
<1>6. Once'
  BY <1>0 DEF Once, Unwritten, Early, Exists, Req, Reply, Goto, Leave, ghosts
<1>7. Unanswered'
  BY <1>0 DEF Unanswered, UpToDate, Revision, Recorded, Req, Reply, Goto, Leave, ghosts
<1>8. Answers'
  BY <1>0 DEF Answers, Req, TypeOK, Reply, Goto, Leave, ghosts
<1>9. Dropping'
  BY <1>0 DEF Dropping, Replaced, Recorded, Kind, Exists, Reply, Goto, Leave, ghosts
<1>10. Drawn'
  BY <1>0 DEF Drawn, Unwritten, Early, UpToDate, Revision, Req, Reply, Goto, Leave, ghosts
<1>11. TurnsSurvive'
  BY <1>0 DEF TurnsSurvive, Reply, ghosts
<1>12. ImagesLostOnlyToSweeps'
  BY <1>0 DEF ImagesLostOnlyToSweeps, Reply, ghosts
<1> QED BY <1>1, <1>2, <1>3, <1>4, <1>5, <1>6, <1>7, <1>8, <1>9, <1>10, <1>11, <1>12 DEF IInv

\* The process of an execution ends.
LEMMA CrashStep ==
    ASSUME NEW e \in Execution, IInv, Crash(e)
    PROVE  IInv'
<1>0. /\ TypeOK /\ Locked /\ Views /\ Unborn /\ Fresh /\ Once /\ Unanswered /\ Answers /\ Dropping
      /\ Drawn /\ TurnsSurvive /\ ImagesLostOnlyToSweeps
  BY DEF IInv
<1>a. \A f \in Execution : Unwritten(f)' => Unwritten(f)
  BY <1>0 DEF Crash, Leave, Goto, Locked, Holds, Unwritten, Early, TypeOK
<1>1. TypeOK'
  BY <1>0, Planned DEF TypeOK, Crash, Goto, Leave, ghosts
<1>2. Locked'
  BY <1>0 DEF Locked, Holds, TypeOK, Kind, Crash, Goto, Leave
<1>3. Views'
  BY <1>0 DEF Views, Kind, TypeOK, Crash, Goto, Leave
<1>4. Unborn'
  BY <1>0 DEF Unborn, Kind, Unwritten, Early, TypeOK, Locked, Holds, Crash, Goto, Leave, ghosts
<1>5. Fresh'
  BY <1>0 DEF Fresh, Holds, Crash, Leave, ghosts
<1>6. Once'
  BY <1>0, <1>a DEF Once, Exists, Crash, Leave, Goto, TypeOK, Turns, Req, ghosts
<1>7. Unanswered'
  BY <1>0 DEF Unanswered, UpToDate, Revision, Recorded, Req, TypeOK, Locked, Holds, Crash, Goto,
       Leave, ghosts
<1>8. Answers'
  BY <1>0 DEF Answers, Req, TypeOK, Locked, Holds, Crash, Goto, Leave, ghosts
<1>9. Dropping'
  BY <1>0 DEF Dropping, Replaced, Recorded, Kind, Exists, Crash, Goto, Leave, ghosts
<1>10. Drawn'
  BY <1>0 DEF Drawn, Unwritten, UpToDate, Revision, Req, TypeOK, Locked, Holds, Crash, Goto, Leave,
       ghosts
<1>11. TurnsSurvive'
  BY <1>0 DEF TurnsSurvive, Crash, ghosts
<1>12. ImagesLostOnlyToSweeps'
  BY <1>0 DEF ImagesLostOnlyToSweeps, Crash, ghosts
<1> QED BY <1>1, <1>2, <1>3, <1>4, <1>5, <1>6, <1>7, <1>8, <1>9, <1>10, <1>11, <1>12 DEF IInv

\* An editor takes the lock.
LEMMA LockEditStep ==
    ASSUME NEW d \in Edit, IInv, LockToEdit(d)
    PROVE  IInv'
<1>0. /\ TypeOK /\ Locked /\ Views /\ Unborn /\ Fresh /\ Once /\ Unanswered /\ Answers /\ Dropping
      /\ Drawn /\ TurnsSurvive /\ ImagesLostOnlyToSweeps
  BY DEF IInv
<1>a. /\ lock = Free /\ Exists /\ UNCHANGED <<file, art, run, copy, ghosts>>
      /\ d.op = "remove" => d.turn \in TurnsOf(file)
      /\ d.op # "delete" => file.revision < MaxRevision
  BY DEF LockToEdit
<1>b. lock' \in Locks /\ lock' # Free /\ lock'.by = d /\ lock'.copy = file /\ lock'.wrote = FALSE
  BY <1>0, Locking DEF LockToEdit
<1>c. d \notin Execution /\ \A f \in Execution : pc[f] # "locked" /\ (Unwritten(f)' <=> Unwritten(f))
  BY <1>0, <1>a, SpecialAssumption DEF Locked, Holds, Unwritten, run
<1>1. TypeOK'
  BY <1>0, <1>a, <1>b DEF TypeOK, run, ghosts
<1>2. Locked'
  BY <1>0, <1>a, <1>b, <1>c DEF Locked, Holds, Exists, run
<1>3. Views'
  BY <1>0, <1>a DEF Views, Kind, run
<1>4. Unborn'
  BY <1>0 DEF Unborn, Kind, Unwritten, Locked, Holds, LockToEdit, Exists, run
<1>5. Fresh'
  BY <1>0, <1>a, <1>b, <1>c DEF Fresh, run, ghosts
<1>6. Once'
  BY <1>0, <1>a, <1>c DEF Once, TypeOK, Turns, Req, run, ghosts
<1>7. Unanswered'
  BY <1>0 DEF Unanswered, UpToDate, Revision, Recorded, Req, Locked, Holds, LockToEdit, run, ghosts
<1>8. Answers'
  BY <1>0 DEF Answers, Req, LockToEdit, run, ghosts
<1>9. Dropping'
  BY <1>0 DEF Dropping, LockToEdit
<1>10. Drawn'
  BY <1>0 DEF Drawn, Unwritten, UpToDate, Revision, Req, Locked, Holds, LockToEdit, run, ghosts
<1>11. TurnsSurvive'
  BY <1>0 DEF TurnsSurvive, LockToEdit, ghosts
<1>12. ImagesLostOnlyToSweeps'
  BY <1>0 DEF ImagesLostOnlyToSweeps, LockToEdit, ghosts
<1> QED BY <1>1, <1>2, <1>3, <1>4, <1>5, <1>6, <1>7, <1>8, <1>9, <1>10, <1>11, <1>12 DEF IInv

\* What an editor writes, and whom it leaves behind.
LEMMA EditWritten ==
    ASSUME NEW d \in Edit, IInv, WriteEdit(d)
    PROVE  /\ d \notin Execution /\ \A f \in Execution : pc[f] # "locked" /\ (Unwritten(f)' <=> Unwritten(f))
           /\ lock.copy \in Contents /\ lock.copy # NoFile /\ lock.copy.turns \in Seq(Turns)
           /\ TurnsOf(lock.copy) = ToSet(lock.copy.turns) /\ TurnsOf(lock.copy) \subseteq Turns
           /\ RevisionOf(lock.copy) = lock.copy.revision /\ lock.copy.revision \in Nat
           /\ d.op \in {"remove", "rename", "close", "delete"}
           /\ IF d.op = "remove" THEN d.turn \in TurnsOf(lock.copy) ELSE d.turn = NoTurn
           /\ \/ d.op = "delete" /\ file' = NoFile /\ gone' = gone \cup TurnsOf(lock.copy)
              \/ /\ d.op # "delete" /\ file' \in Contents /\ file' # NoFile
                 /\ gone' = gone \cup ({d.turn} \ {NoTurn})
                 /\ file'.revision = lock.copy.revision + 1
                 /\ OncePerRequest(lock.copy.turns) =>
                      OncePerRequest(file'.turns) /\ TurnsOf(file') = TurnsOf(lock.copy) \ {d.turn}
           /\ ~clobbered => lock.copy = file /\ OncePerRequest(lock.copy.turns)
           /\ ~clobbered => \A f \in Execution : pc[f] # "idle" /\ Unwritten(f) => ~UpToDate(f)'
<1>0. /\ TypeOK /\ Locked /\ Views /\ Unborn /\ Fresh /\ Once /\ Unanswered /\ Answers /\ Dropping
      /\ Drawn /\ TurnsSurvive /\ ImagesLostOnlyToSweeps
  BY DEF IInv
<1>a. /\ Holds(d) /\ lock # Free /\ lock.by = d /\ ~lock.wrote
      /\ UNCHANGED <<art, run, copy, committed, swept, clobbered>>
  BY DEF WriteEdit, Holds
<1>b. d \notin Execution /\ \A f \in Execution : pc[f] # "locked" /\ (Unwritten(f)' <=> Unwritten(f))
  BY <1>0, <1>a, SpecialAssumption DEF Locked, Holds, Unwritten, run
<1>c. /\ lock.copy \in Contents /\ lock.copy # NoFile /\ lock.copy.turns \in Seq(Turns)
      /\ TurnsOf(lock.copy) = ToSet(lock.copy.turns) /\ TurnsOf(lock.copy) \subseteq Turns
      /\ RevisionOf(lock.copy) = lock.copy.revision /\ lock.copy.revision \in Nat
      /\ d.op \in {"remove", "rename", "close", "delete"}
      /\ IF d.op = "remove" THEN d.turn \in TurnsOf(lock.copy) ELSE d.turn = NoTurn
  BY <1>0, <1>a, HeldRecord, RecordParts, ShapeAssumption DEF Locked, Edit
<1>e. \/ d.op = "delete" /\ file' = NoFile /\ gone' = gone \cup TurnsOf(lock.copy)
      \/ /\ d.op # "delete" /\ file' \in Contents /\ file' # NoFile /\ gone' = gone \cup ({d.turn} \ {NoTurn})
         /\ file'.revision = lock.copy.revision + 1
         /\ OncePerRequest(lock.copy.turns) =>
              OncePerRequest(file'.turns) /\ TurnsOf(file') = TurnsOf(lock.copy) \ {d.turn}
  BY <1>0, <1>a, EditedRecord DEF WriteEdit
<1>f. ~clobbered => lock.copy = file /\ OncePerRequest(lock.copy.turns)
  BY <1>0, <1>a, <1>c DEF Fresh, Once, Exists
<1>g. ASSUME ~clobbered, NEW f \in Execution, pc[f] # "idle", Unwritten(f) PROVE ~UpToDate(f)'
  <2>1. view[f] # NoFile
    BY <1>0, <1>a, <1>b, <1>g DEF Views, Unborn, Unwritten, Early
  <2>2. view[f].revision \in Nat \ {0} /\ RevisionOf(view[f]) = view[f].revision
    BY <1>0, <2>1, RecordParts DEF TypeOK
  <2>3. view[f].revision <= lock.copy.revision
    BY <1>0, <1>c, <1>f, <1>g, <2>1, <2>2 DEF Fresh
  <2>4. UpToDate(f)' <=> view[f].revision = RevisionOf(file')
    BY <1>a, <2>2 DEF UpToDate, Revision, RevisionOf, run
  <2> QED BY <1>c, <1>e, <2>2, <2>3, <2>4 DEF RevisionOf
<1> QED BY <1>b, <1>c, <1>e, <1>f, <1>g

\* An editor writes the record.
LEMMA WriteEditStep ==
    ASSUME NEW d \in Edit, IInv, WriteEdit(d)
    PROVE  IInv'
<1>0. /\ TypeOK /\ Locked /\ Views /\ Unborn /\ Fresh /\ Once /\ Unanswered /\ Answers /\ Dropping
      /\ Drawn /\ TurnsSurvive /\ ImagesLostOnlyToSweeps
  BY DEF IInv
<1>a. /\ Holds(d) /\ lock # Free /\ lock.by = d /\ ~lock.wrote
      /\ UNCHANGED <<art, run, copy, committed, swept, clobbered>>
  BY DEF WriteEdit, Holds
<1>b. d \notin Execution /\ \A f \in Execution : pc[f] # "locked" /\ (Unwritten(f)' <=> Unwritten(f))
  BY EditWritten
<1>c. /\ lock.copy \in Contents /\ lock.copy # NoFile /\ lock.copy.turns \in Seq(Turns)
      /\ TurnsOf(lock.copy) = ToSet(lock.copy.turns) /\ TurnsOf(lock.copy) \subseteq Turns
      /\ RevisionOf(lock.copy) = lock.copy.revision /\ lock.copy.revision \in Nat
      /\ d.op \in {"remove", "rename", "close", "delete"}
      /\ IF d.op = "remove" THEN d.turn \in TurnsOf(lock.copy) ELSE d.turn = NoTurn
  BY EditWritten
<1>d. \/ lock' = Free
      \/ /\ lock' \in Locks /\ lock'.by = d /\ lock'.copy = lock.copy /\ lock'.wrote
         /\ d.op \in {"remove", "delete"}
  BY <1>0, <1>a, <1>c, HeldRecord DEF WriteEdit
<1>e. \/ d.op = "delete" /\ file' = NoFile /\ gone' = gone \cup TurnsOf(lock.copy)
      \/ /\ d.op # "delete" /\ file' \in Contents /\ file' # NoFile /\ gone' = gone \cup ({d.turn} \ {NoTurn})
         /\ file'.revision = lock.copy.revision + 1
         /\ OncePerRequest(lock.copy.turns) =>
              OncePerRequest(file'.turns) /\ TurnsOf(file') = TurnsOf(lock.copy) \ {d.turn}
  BY EditWritten
<1>f. ~clobbered => lock.copy = file /\ OncePerRequest(lock.copy.turns)
  BY EditWritten
<1>g. ASSUME ~clobbered, NEW f \in Execution, pc[f] \notin Early, Unwritten(f) PROVE ~UpToDate(f)'
  BY <1>g, EditWritten DEF Early
<1>1. TypeOK'
  BY <1>0, <1>a, <1>c, <1>d, <1>e DEF TypeOK, run
<1>2. Locked'
  BY <1>0, <1>a, <1>b, <1>c, <1>d DEF Locked, Holds, run
<1>3. Views'
  BY <1>0, <1>a DEF Views, Kind, run
<1>4. Unborn'
  BY <1>0, <1>a, <1>b DEF Unborn, Kind, run
<1>5. Fresh'
  <2> SUFFICES ASSUME ~clobbered, NEW f \in Execution, view[f] # NoFile, file' # NoFile
               PROVE  view[f].revision < file'.revision
    BY <1>a, <1>b, <1>d DEF Fresh, run
  <2>1. view[f] = file \/ view[f].revision < file.revision
    BY <1>0, <1>c, <1>f DEF Fresh
  <2>2. view[f].revision \in Nat
    BY <1>0, RecordParts DEF TypeOK
  <2> QED BY <1>c, <1>e, <1>f, <2>1, <2>2
<1>6. Once'
  <2>1. \A t \in committed : t.by \in Execution
    BY <1>0 DEF TypeOK, Turns
  <2>2. ~clobbered => gone' \subseteq committed
    BY <1>0, <1>c, <1>e, <1>f DEF Once, TurnsSurvive
  <2> QED BY <1>0, <1>a, <1>b, <1>e, <1>f, <2>1, <2>2 DEF Once, Exists, Req, run
<1>7. Unanswered'
  BY <1>a, <1>b, <1>g DEF Unanswered, Unwritten, Early, run
<1>8. Answers'
  BY <1>0, <1>a, <1>b DEF Answers, Req, run
<1>9. Dropping'
  <2> SUFFICES ASSUME ~clobbered, d.op = "remove", NEW t \in TurnsOf(file'), t.req = d.turn.req
               PROVE  FALSE
    BY <1>a, <1>b, <1>d, <1>e DEF Dropping, Recorded, Exists
  <2> QED BY <1>c, <1>e, <1>f, OneTurn
<1>10. Drawn'
  BY <1>0, <1>a, <1>b, <1>g DEF Drawn, run
<1>11. TurnsSurvive'
  <2>1. file' = NoFile => TurnsOf(file') = {}
    BY DEF TurnsOf
  <2>2. NoTurn \notin TurnsOf(lock.copy)
    BY <1>c, SpecialAssumption
  <2> QED BY <1>0, <1>a, <1>c, <1>e, <1>f, <2>1, <2>2 DEF TurnsSurvive
<1>12. ImagesLostOnlyToSweeps'
  <2>1. ~clobbered => TurnsOf(file') \subseteq TurnsOf(file)
    BY <1>e, <1>f DEF TurnsOf
  <2> QED BY <1>0, <1>a, <2>1 DEF ImagesLostOnlyToSweeps
<1> QED BY <1>1, <1>2, <1>3, <1>4, <1>5, <1>6, <1>7, <1>8, <1>9, <1>10, <1>11, <1>12 DEF IInv

\* An editor removes images.
LEMMA UnlockEditStep ==
    ASSUME NEW d \in Edit, IInv, UnlockEdit(d)
    PROVE  IInv'
<1>0. /\ TypeOK /\ Locked /\ Views /\ Unborn /\ Fresh /\ Once /\ Unanswered /\ Answers /\ Dropping
      /\ Drawn /\ TurnsSurvive /\ ImagesLostOnlyToSweeps
  BY DEF IInv
<1>a. /\ Holds(d) /\ lock # Free /\ lock.by = d /\ lock.wrote /\ lock' = Free
      /\ IF d.op = "remove" THEN Discard(d.turn.req) ELSE art' = {} /\ UNCHANGED swept
      /\ UNCHANGED <<file, run, copy, committed, gone, clobbered>>
  BY DEF UnlockEdit, Holds
<1>b. d \notin Execution /\ \A f \in Execution : pc[f] # "locked" /\ (Unwritten(f)' <=> Unwritten(f))
  BY <1>0, <1>a, SpecialAssumption DEF Locked, Holds, Unwritten, run
<1>c. d.op = "remove" => d.turn.req \in Request
  BY SpecialAssumption DEF Edit, Turns
<1>d. ~clobbered => IF d.op = "remove" THEN Recorded(d.turn.req) = {} ELSE file = NoFile
  BY <1>0, <1>a DEF Dropping, Exists
<1>1. TypeOK'
  BY <1>0, <1>a, <1>c DEF TypeOK, Discard, Without, run
<1>2. Locked'
  BY <1>0, <1>a, <1>b DEF Locked, Holds, run
<1>3. Views'
  BY <1>0, <1>a DEF Views, Kind, run
<1>4. Unborn'
  BY <1>0, <1>a, <1>b DEF Unborn, Kind, run
<1>5. Fresh'
  BY <1>0 DEF Fresh, UnlockEdit, run
<1>6. Once'
  BY <1>0, <1>a, <1>b DEF Once, TypeOK, Turns, Exists, Req, run
<1>7. Unanswered'
  BY <1>0, <1>a, <1>b DEF Unanswered, UpToDate, Revision, Recorded, Req, run
<1>8. Answers'
  BY <1>0 DEF Answers, Req, UnlockEdit, run
<1>9. Dropping'
  BY <1>0 DEF Dropping, UnlockEdit
<1>10. Drawn'
  <2> SUFFICES ASSUME NEW f \in Execution, ~clobbered, Unwritten(f), UpToDate(f), image[f]
               PROVE  f \in art' \/ Req(f) \in swept'
    BY <1>0, <1>a, <1>b DEF Drawn, Early, UpToDate, Revision, Req, run
  <2>1. f \in art \/ Req(f) \in swept
    BY <1>0 DEF Drawn
  <2>2. pc[f] \in {"answered", "looked"}
    BY <1>0, <1>b DEF Drawn, Unwritten
  <2>3. CASE d.op = "remove"
    BY <1>a, <2>1, <2>2, <2>3 DEF Discard, Without, Overtaken, UpToDate
  <2>4. CASE d.op # "remove"
    <3>1. view[f] = NoFile
      BY <1>0, <1>d, <2>4, RecordParts DEF UpToDate, Revision, RevisionOf, TypeOK
    <3> QED BY <1>0, <1>a, <1>b, <2>2, <3>1 DEF Views, Unborn
  <2> QED BY <2>3, <2>4
<1>11. TurnsSurvive'
  BY <1>0 DEF TurnsSurvive, UnlockEdit
<1>12. ImagesLostOnlyToSweeps'
  <2>1. ASSUME ~clobbered, NEW t \in TurnsOf(file)
        PROVE  d.op = "remove" /\ t.by \in Execution /\ t.req = Req(t.by) /\ t.req # d.turn.req
    BY <1>0, <1>d, <2>1 DEF TypeOK, Turns, TurnsOf, TurnsSurvive, Once, Recorded
  <2> QED BY <1>0, <1>a, <2>1 DEF ImagesLostOnlyToSweeps, Discard, Without
<1> QED BY <1>1, <1>2, <1>3, <1>4, <1>5, <1>6, <1>7, <1>8, <1>9, <1>10, <1>11, <1>12 DEF IInv

\* An editor fails.
LEMMA FailEditStep ==
    ASSUME NEW d \in Edit, IInv, FailEdit(d)
    PROVE  IInv'
<1>0. /\ TypeOK /\ Locked /\ Views /\ Unborn /\ Fresh /\ Once /\ Unanswered /\ Answers /\ Dropping
      /\ Drawn /\ TurnsSurvive /\ ImagesLostOnlyToSweeps
  BY DEF IInv
<1>a. lock # Free /\ lock.by = d /\ lock' = Free /\ UNCHANGED <<file, art, run, copy, ghosts>>
  BY DEF FailEdit, Holds
<1>b. d \notin Execution /\ \A f \in Execution : pc[f] # "locked" /\ (Unwritten(f)' <=> Unwritten(f))
  BY <1>0, <1>a, SpecialAssumption DEF Locked, Holds, Unwritten, run
<1>1. TypeOK'
  BY <1>0, Planned DEF TypeOK, FailEdit, run, ghosts
<1>2. Locked'
  BY <1>0, <1>a, <1>b DEF Locked, Holds, run
<1>3. Views'
  BY <1>0, <1>a DEF Views, Kind, run
<1>4. Unborn'
  BY <1>0, <1>a, <1>b DEF Unborn, Kind, run
<1>5. Fresh'
  BY <1>0 DEF Fresh, FailEdit, run, ghosts
<1>6. Once'
  BY <1>0, <1>a, <1>b DEF Once, TypeOK, Turns, Exists, Req, run, ghosts
<1>7. Unanswered'
  BY <1>0, <1>a, <1>b DEF Unanswered, UpToDate, Revision, Recorded, Req, run, ghosts
<1>8. Answers'
  BY <1>0, <1>a, <1>b DEF Answers, Req, run, ghosts
<1>9. Dropping'
  BY <1>0 DEF Dropping, FailEdit
<1>10. Drawn'
  BY <1>0, <1>a, <1>b DEF Drawn, UpToDate, Revision, Req, run, ghosts
<1>11. TurnsSurvive'
  BY <1>0 DEF TurnsSurvive, FailEdit, ghosts
<1>12. ImagesLostOnlyToSweeps'
  BY <1>0 DEF ImagesLostOnlyToSweeps, FailEdit, ghosts
<1> QED BY <1>1, <1>2, <1>3, <1>4, <1>5, <1>6, <1>7, <1>8, <1>9, <1>10, <1>11, <1>12 DEF IInv

\* A mark reads the record.
LEMMA ReadStep ==
    ASSUME NEW m \in Mark, IInv, ReadToMark(m)
    PROVE  IInv'
<1>0. /\ TypeOK /\ Locked /\ Views /\ Unborn /\ Fresh /\ Once /\ Unanswered /\ Answers /\ Dropping
      /\ Drawn /\ TurnsSurvive /\ ImagesLostOnlyToSweeps
  BY DEF IInv
<1>1. TypeOK'
  BY <1>0, Planned DEF TypeOK, ReadToMark, run, ghosts
<1>2. Locked'
  BY <1>0 DEF Locked, Holds, Kind, ReadToMark, run
<1>3. Views'
  BY <1>0 DEF Views, Kind, ReadToMark, run
<1>4. Unborn'
  BY <1>0 DEF Unborn, Kind, Unwritten, ReadToMark, Exists, run
<1>5. Fresh'
  BY <1>0 DEF Fresh, ReadToMark, run, ghosts
<1>6. Once'
  BY <1>0 DEF Once, Unwritten, Req, ReadToMark, run, ghosts
<1>7. Unanswered'
  BY <1>0 DEF Unanswered, UpToDate, Revision, Recorded, Req, ReadToMark, run, ghosts
<1>8. Answers'
  BY <1>0 DEF Answers, Req, ReadToMark, run, ghosts
<1>9. Dropping'
  BY <1>0 DEF Dropping, Replaced, Recorded, Kind, ReadToMark, run, ghosts
<1>10. Drawn'
  BY <1>0 DEF Drawn, Unwritten, UpToDate, Revision, Req, ReadToMark, run, ghosts
<1>11. TurnsSurvive'
  BY <1>0 DEF TurnsSurvive, ReadToMark, ghosts
<1>12. ImagesLostOnlyToSweeps'
  BY <1>0 DEF ImagesLostOnlyToSweeps, ReadToMark, ghosts
<1> QED BY <1>1, <1>2, <1>3, <1>4, <1>5, <1>6, <1>7, <1>8, <1>9, <1>10, <1>11, <1>12 DEF IInv

\* A mark writes what it read.
LEMMA WriteMarkStep ==
    ASSUME NEW m \in Mark, IInv, WriteMark(m)
    PROVE  IInv'
<1>0. /\ TypeOK /\ Locked /\ Views /\ Unborn /\ Fresh /\ Once /\ Unanswered /\ Answers /\ Dropping
      /\ Drawn /\ TurnsSurvive /\ ImagesLostOnlyToSweeps
  BY DEF IInv
<1>a. ~clobbered' => ~clobbered /\ file' = file
  BY DEF WriteMark
<1>1. TypeOK'
  BY <1>0, Planned DEF TypeOK, WriteMark, run
<1>2. Locked'
  BY <1>0 DEF Locked, Holds, Kind, WriteMark, run
<1>3. Views'
  BY <1>0 DEF Views, Kind, WriteMark, run
<1>4. Unborn'
  BY <1>0 DEF Unborn, Kind, Unwritten, WriteMark, run
<1>5. Fresh'
  BY <1>0 DEF Fresh, WriteMark, run
<1>6. Once'
  BY <1>0 DEF Once, Unwritten, Exists, Req, WriteMark, run
<1>7. Unanswered'
  BY <1>0, <1>a DEF WriteMark, Unanswered, UpToDate, Revision, Recorded, Req, run
<1>8. Answers'
  BY <1>0 DEF Answers, Req, WriteMark, run
<1>9. Dropping'
  BY <1>0 DEF Dropping, Replaced, Recorded, Kind, Exists, WriteMark, run
<1>10. Drawn'
  BY <1>0 DEF Drawn, Unwritten, UpToDate, Revision, Req, WriteMark, run
<1>11. TurnsSurvive'
  BY <1>0 DEF TurnsSurvive, WriteMark
<1>12. ImagesLostOnlyToSweeps'
  BY <1>0 DEF ImagesLostOnlyToSweeps, WriteMark
<1> QED BY <1>1, <1>2, <1>3, <1>4, <1>5, <1>6, <1>7, <1>8, <1>9, <1>10, <1>11, <1>12 DEF IInv

\* Nothing happens.
LEMMA StutterStep ==
    ASSUME IInv, UNCHANGED vars
    PROVE  IInv'
<1>0. /\ TypeOK /\ Locked /\ Views /\ Unborn /\ Fresh /\ Once /\ Unanswered /\ Answers /\ Dropping
      /\ Drawn /\ TurnsSurvive /\ ImagesLostOnlyToSweeps
  BY DEF IInv
<1>1. TypeOK'
  BY <1>0, Planned DEF TypeOK, vars, run, ghosts
<1>2. Locked'
  BY <1>0 DEF Locked, Holds, Kind, vars, run
<1>3. Views'
  BY <1>0 DEF Views, Kind, vars, run
<1>4. Unborn'
  BY <1>0 DEF Unborn, Kind, Unwritten, vars, run, ghosts
<1>5. Fresh'
  BY <1>0 DEF Fresh, vars, run, ghosts
<1>6. Once'
  BY <1>0 DEF Once, Unwritten, Exists, Req, vars, run, ghosts
<1>7. Unanswered'
  BY <1>0 DEF Unanswered, UpToDate, Revision, Recorded, Req, vars, run, ghosts
<1>8. Answers'
  BY <1>0 DEF Answers, Req, vars, run, ghosts
<1>9. Dropping'
  BY <1>0 DEF Dropping, Replaced, Recorded, Kind, Exists, vars, run, ghosts
<1>10. Drawn'
  BY <1>0 DEF Drawn, Unwritten, UpToDate, Revision, Req, vars, run, ghosts
<1>11. TurnsSurvive'
  BY <1>0 DEF TurnsSurvive, vars, ghosts
<1>12. ImagesLostOnlyToSweeps'
  BY <1>0 DEF ImagesLostOnlyToSweeps, vars, ghosts
<1> QED BY <1>1, <1>2, <1>3, <1>4, <1>5, <1>6, <1>7, <1>8, <1>9, <1>10, <1>11, <1>12 DEF IInv

-----------------------------------------------------------------------------
\* The turns of the session there is to begin with, one after the other.
LEMMA Listed ==
    ASSUME NEW S, IsFiniteSet(S)
    PROVE  SetToSeq(S) \in Seq(S) /\ ToSet(SetToSeq(S)) = S /\ IsInjective(SetToSeq(S))
<1> DEFINE n == Cardinality(S)
           s == SetToSeq(S)
<1>1. n \in Nat /\ IsFiniteSet(1 .. n) /\ Cardinality(1 .. n) = n
  BY FS_CardinalityType, FS_Interval
<1>2. \E f \in [1 .. n -> S] : IsInjective(f)
  BY FS_CardinalityType DEF ExistsBijection, Bijection, Injection
<1>3. s \in [1 .. n -> S] /\ IsInjective(s)
  BY <1>2 DEF SetToSeq
<1> HIDE DEF n, s
<1>4. s \in Injection(1 .. n, S)
  BY <1>3 DEF Injection
<1>5. s \in Surjection(1 .. n, S)
  BY <1>1, <1>4, FS_Injection DEF n
<1>6. s \in Seq(S)
  BY <1>1, <1>3
<1>7. ToSet(s) = S
  BY <1>3, <1>5 DEF Surjection, ToSet
<1> QED BY <1>3, <1>6, <1>7 DEF s

LEMMA Begun ==
    ASSUME sent \in Sent
    PROVE  /\ Past \subseteq Execution /\ PastTurns \subseteq Turns
           /\ SetToSeq(PastTurns) \in Seq(Turns) /\ ToSet(SetToSeq(PastTurns)) = PastTurns
           /\ OncePerRequest(SetToSeq(PastTurns))
           /\ \A t \in PastTurns : t.by \in Past /\ t.req = Req(t.by)
           /\ Past = {} => PastTurns = {}
           /\ \A e \in Execution : Kind(e) = "create" => Past = {}
<1> DEFINE turn == [e \in Past |-> [req |-> Req(e), by |-> e, image |-> TRUE]]
           s == SetToSeq(PastTurns)
<1>1. /\ sent \in [Execution -> [req : Request, kind : Kinds]]
      /\ \A e, f \in Execution : e # f /\ Kind(e) \in Begins /\ Kind(f) \in Begins =>
           Kind(e) = "past" /\ Kind(f) = "past" /\ Req(e) # Req(f)
  BY ShapeAssumption DEF Kind, Req
<1>2. Past \subseteq Execution /\ IsFiniteSet(Past)
  BY ShapeAssumption, FS_Subset DEF Past
<1>3. turn \in Surjection(Past, PastTurns)
  BY DEF Surjection, PastTurns
<1>4. IsFiniteSet(PastTurns)
  BY <1>2, <1>3, FS_Surjection
<1>5. PastTurns \subseteq Turns /\ \A t \in PastTurns : t.by \in Past /\ t.req = Req(t.by)
  <2>1. \A e \in Past : Req(e) \in Request
    BY <1>1, <1>2 DEF Req
  <2>2. ASSUME NEW t \in PastTurns PROVE t \in Turns /\ t.by \in Past /\ t.req = Req(t.by)
    <3>1. PICK e \in Past : t = [req |-> Req(e), by |-> e, image |-> TRUE]
      BY DEF PastTurns
    <3> QED BY <1>2, <2>1, <3>1 DEF Turns
  <2> QED BY <2>2
<1>6. s \in Seq(PastTurns) /\ ToSet(s) = PastTurns /\ IsInjective(s)
  BY <1>4, Listed
<1> HIDE DEF s
<1>7. s \in Seq(Turns)
  BY <1>5, <1>6
<1>8. \A t, u \in PastTurns : t.req = u.req => t = u
  <2>1. \A e, f \in Past : Req(e) = Req(f) => e = f
    <3>1. \A e \in Past : e \in Execution /\ Kind(e) \in Begins
      BY DEF Past, Begins
    <3> QED BY <1>1, <3>1
  <2> SUFFICES ASSUME NEW t \in PastTurns, NEW u \in PastTurns, t.req = u.req PROVE t = u
    OBVIOUS
  <2>2. PICK e \in Past : t = [req |-> Req(e), by |-> e, image |-> TRUE]
    BY DEF PastTurns
  <2>3. PICK f \in Past : u = [req |-> Req(f), by |-> f, image |-> TRUE]
    BY DEF PastTurns
  <2>4. t.req = Req(e) /\ u.req = Req(f)
    BY <2>2, <2>3
  <2> QED BY <2>1, <2>2, <2>3, <2>4
<1>9. OncePerRequest(s)
  BY <1>6, <1>8 DEF OncePerRequest, IsInjective, ToSet
<1>10. /\ Past = {} => PastTurns = {}
       /\ \A e \in Execution : Kind(e) = "create" => Past = {}
  BY <1>1, <1>2 DEF Past, PastTurns, Begins
<1> QED BY <1>2, <1>5, <1>6, <1>7, <1>9, <1>10 DEF s

LEMMA Starts == Init => IInv
<1> SUFFICES ASSUME Init PROVE IInv
  OBVIOUS
<1>1. /\ sent \in Sent /\ lock = Free /\ art = Past /\ swept = {} /\ gone = {} /\ clobbered = FALSE
      /\ pc = [e \in Execution |-> IF Kind(e) = "past" THEN "done" ELSE "idle"]
      /\ view = [e \in Execution |-> NoFile] /\ image = [e \in Execution |-> FALSE]
      /\ answer = [e \in Execution |-> NoTurn] /\ copy = [m \in Mark |-> NoFile]
      /\ committed = PastTurns
  BY DEF Init
<1>2. /\ Past \subseteq Execution /\ PastTurns \subseteq Turns
      /\ \A t \in PastTurns : t.by \in Past /\ t.req = Req(t.by)
      /\ \A e \in Execution : Kind(e) = "create" => Past = {}
      /\ Past = {} => PastTurns = {}
  BY <1>1, Begun
<1>3. /\ file \in Contents \cup {NoFile} /\ TurnsOf(file) = PastTurns
      /\ Exists => OncePerRequest(file.turns)
      /\ Past = {} => file = NoFile
  <2>1. CASE Past = {}
    BY <1>2, <2>1 DEF Init, TurnsOf, Exists
  <2>2. CASE Past # {}
    <3>1. file = [revision |-> 1, status |-> "active", turns |-> SetToSeq(PastTurns)]
      BY <2>2 DEF Init
    <3>2. SetToSeq(PastTurns) \in Seq(Turns) /\ ToSet(SetToSeq(PastTurns)) = PastTurns
      BY <1>1, Begun
    <3>3. file \in Contents /\ file # NoFile /\ file.turns = SetToSeq(PastTurns)
      BY <3>1, <3>2, SpecialAssumption, ShapeAssumption DEF Contents
    <3> QED BY <1>1, <2>2, <3>2, <3>3, Begun DEF TurnsOf
  <2> QED BY <2>1, <2>2
<1>4. TypeOK
  BY <1>1, <1>2, <1>3 DEF TypeOK
<1>5. \A e \in Execution : pc[e] = "idle" \/ (pc[e] = "done" /\ Kind(e) = "past")
  BY <1>1
<1>6. Locked /\ Views /\ Fresh /\ Unanswered /\ Answers /\ Dropping
  BY <1>1, <1>5 DEF Locked, Holds, Views, Fresh, Unanswered, Answers, Dropping
<1>7. Unborn
  BY <1>1, <1>2, <1>3 DEF Unborn
<1>8. Once
  BY <1>1, <1>2, <1>3 DEF Once, Unwritten, Early, Past
<1>9. Drawn /\ TurnsSurvive /\ ImagesLostOnlyToSweeps
  BY <1>1, <1>2, <1>3 DEF Drawn, TurnsSurvive, ImagesLostOnlyToSweeps
<1> QED BY <1>4, <1>6, <1>7, <1>8, <1>9 DEF IInv

LEMMA Steps == IInv /\ [Next]_vars => IInv'
<1> SUFFICES ASSUME IInv, [Next]_vars PROVE IInv'
  OBVIOUS
<1>1. ASSUME NEW e \in Execution, Prepare(e) \/ Load(e) \/ RefuseRetry(e) \/ Draw(e) \/ DrawFails(e) \/ Compose(e)
      PROVE  IInv'
  BY <1>1, PrepareStep, LoadStep, RefuseStep, DrawStep, DrawFailsStep, ComposeStep
<1>2. ASSUME NEW e \in Execution, Look(e) \/ LockToCommit(e) \/ Conflict(e) \/ Write(e) \/ Unlock(e)
      PROVE  IInv'
  BY <1>2, LookStep, LockStep, ConflictStep, WriteStep, UnlockStep
<1>3. ASSUME NEW e \in Execution, Ledger(e) \/ FailCommitted(e) \/ Reply(e) \/ Crash(e) \/ Fail(e)
      PROVE  IInv'
  BY <1>3, LedgerStep, FailCommittedStep, ReplyStep, CrashStep, FailStep
<1>4. ASSUME NEW d \in Edit, LockToEdit(d) \/ WriteEdit(d) \/ UnlockEdit(d) \/ FailEdit(d)
      PROVE  IInv'
  BY <1>4, LockEditStep, WriteEditStep, UnlockEditStep, FailEditStep
<1>5. ASSUME NEW m \in Mark, ReadToMark(m) \/ WriteMark(m) PROVE IInv'
  BY <1>5, ReadStep, WriteMarkStep
<1>6. ASSUME UNCHANGED vars PROVE IInv'
  BY <1>6, StutterStep
<1> QED BY <1>1, <1>2, <1>3, <1>4, <1>5, <1>6 DEF Next, Work

(* The inductive invariant holds in every state.                           *)
THEOREM Invariant == Spec => []IInv
<1>1. Init => IInv
  BY Starts
<1>2. IInv /\ [Next]_vars => IInv'
  BY Steps
<1> QED BY <1>1, <1>2, PTL DEF Spec

(* Record, lock, images and what every execution, editor and mark has read *)
(* keep their types.                                                       *)
THEOREM TypeCorrect == Spec => []TypeOK
<1>1. IInv => TypeOK
  BY DEF IInv
<1> QED BY <1>1, Invariant, PTL

(* A commit builds its record from the very record its answer was composed *)
(* on, unless a mark has turned the record back.                           *)
THEOREM CommitsAreFresh == Spec => []CommitsOnWhatItSaw
<1>1. IInv => CommitsOnWhatItSaw
  BY DEF IInv, Locked, Holds, Fresh, CommitsOnWhatItSaw
<1> QED BY <1>1, Invariant, PTL

(* What was committed and not taken back on request is in the record, and  *)
(* nothing else is.                                                        *)
THEOREM TurnsAlwaysSurvive == Spec => []TurnsSurvive
<1>1. IInv => TurnsSurvive
  BY DEF IInv
<1> QED BY <1>1, Invariant, PTL

(* An execution answers with a turn that was recorded for its request.     *)
THEOREM AnswersAreRecorded == Spec => []AnsweredIsRecorded
<1>1. IInv => AnsweredIsRecorded
  BY DEF IInv, Answers, AnsweredIsRecorded
<1> QED BY <1>1, Invariant, PTL

(* The image of a recorded turn is on disk unless a failing execution of   *)
(* the same request, or the removal of an earlier turn of it, took it.     *)
THEOREM ImagesKept == Spec => []ImagesLostOnlyToSweeps
<1>1. IInv => ImagesLostOnlyToSweeps
  BY DEF IInv
<1> QED BY <1>1, Invariant, PTL
-----------------------------------------------------------------------------
(* The session is a conversation.                                             *)

\* A record has had a turn, so a deleted one is not one that never was; whoever
\* regenerates or removes a turn has found the session active.
TalkInv ==
    ~clobbered =>
        /\ Exists => committed # {}
        /\ lock # Free /\ ~lock.wrote =>
             ((lock.by \in Execution /\ Kind(lock.by) = "retry") \/ (lock.by \in Edit /\ lock.by.op = "remove")
                => lock.copy.status = "active")

LEMMA TalkStarts == Init => TalkInv
<1> SUFFICES ASSUME Init PROVE TalkInv
  OBVIOUS
<1>1. Past # {} => PastTurns # {}
  BY DEF PastTurns
<1> QED BY <1>1 DEF Init, TalkInv, Exists

LEMMA TalkSteps == IInv /\ TalkInv /\ [Next]_vars => TalkInv'
<1> SUFFICES ASSUME IInv, TalkInv, [Next]_vars PROVE TalkInv'
  OBVIOUS
<1>a. TypeOK /\ Locked
  BY DEF IInv
<1>1. ASSUME UNCHANGED <<file, committed, clobbered, sent>>, lock' = lock \/ lock' = Free PROVE TalkInv'
  BY <1>1 DEF TalkInv, Exists, Kind
<1>2. ASSUME NEW e \in Execution, Work(e), ~LockToCommit(e), ~Write(e) PROVE TalkInv'
  BY <1>1, <1>2 DEF Work, Prepare, Load, RefuseRetry, Draw, DrawFails, Compose, Fail, Look, Conflict, Unlock,
                    Ledger, FailCommitted, Reply, Crash, Goto, Leave, ghosts
<1>3. ASSUME NEW e \in Execution, LockToCommit(e) PROVE TalkInv'
  <2>1. /\ lock'.by = e /\ lock'.copy = file /\ UNCHANGED <<file, sent, committed, clobbered>>
        /\ Kind(e) = "retry" => file.status = "active"
    BY <1>a, <1>3, Locking DEF LockToCommit, MayCommit, Active, Goto, ghosts
  <2>2. e \notin Edit
    BY SpecialAssumption
  <2> QED BY <2>1, <2>2 DEF TalkInv, Exists, Kind
<1>4. ASSUME NEW e \in Execution, Write(e) PROVE TalkInv'
  <2>1. lock'.wrote
    BY <1>a, <1>4, HeldRecord DEF Write, Holds
  <2>2. (file' \in Contents /\ TurnOf(e) \in TurnsOf(file')) \/ clobbered
    <3> SUFFICES ASSUME ~clobbered PROVE file' \in Contents /\ TurnOf(e) \in TurnsOf(file')
      OBVIOUS
    <3>1. /\ Holds(e) /\ file' = Answered(e, lock.copy)
          /\ lock.copy = file /\ Recorded(Req(e)) = {}
      BY <1>4, Outdated DEF Write
    <3>2. /\ \A t \in TurnsOf(lock.copy) : t.req # Req(e)
          /\ lock.copy # NoFile => OncePerRequest(lock.copy.turns)
      BY <3>1 DEF Recorded, IInv, Once, Exists
    <3> QED BY <1>a, <3>1, <3>2, AnsweredRecord, AnsweredTurns
  <2> QED BY <1>4, <2>1, <2>2 DEF TalkInv, Write
<1>5. ASSUME NEW d \in Edit, LockToEdit(d) PROVE TalkInv'
  <2>1. /\ lock'.by = d /\ lock'.copy = file /\ UNCHANGED <<file, sent, committed, clobbered>>
        /\ d.op = "remove" => file.status = "active"
    BY <1>a, <1>5, Locking DEF LockToEdit, Active, run, ghosts
  <2>2. d \notin Execution
    BY SpecialAssumption
  <2> QED BY <2>1, <2>2 DEF TalkInv, Exists
<1>6. ASSUME NEW d \in Edit, WriteEdit(d) PROVE TalkInv'
  <2>1. lock' = Free \/ lock'.wrote
    BY <1>a, <1>6, HeldRecord DEF WriteEdit, Holds
  <2>2. ~clobbered => Exists
    BY <1>6, EditWritten DEF Exists
  <2> QED BY <1>6, <2>1, <2>2 DEF TalkInv, WriteEdit
<1>7. ASSUME NEW d \in Edit, UnlockEdit(d) \/ FailEdit(d) PROVE TalkInv'
  BY <1>1, <1>7 DEF UnlockEdit, FailEdit, run, ghosts
<1>8. ASSUME NEW m \in Mark, ReadToMark(m) \/ WriteMark(m) PROVE TalkInv'
  <2>1. CASE ReadToMark(m)
    BY <1>1, <2>1 DEF ReadToMark, run, ghosts
  <2>2. CASE WriteMark(m)
    <3>1. ~clobbered' => ~clobbered /\ file' = file
      BY <2>2 DEF WriteMark
    <3>2. UNCHANGED <<lock, committed, sent>>
      BY <2>2 DEF WriteMark, run
    <3> QED BY <3>1, <3>2 DEF TalkInv, Exists, Kind
  <2> QED BY <1>8, <2>1, <2>2
<1>9. ASSUME UNCHANGED vars PROVE TalkInv'
  BY <1>1, <1>9 DEF vars, run, ghosts
<1> QED BY <1>2, <1>3, <1>4, <1>5, <1>6, <1>7, <1>8, <1>9 DEF Next

\* Who is still to write and has begun.
LEMMA PendingIs == \A e \in Execution : Pending(e) <=> Unwritten(e) /\ pc[e] # "idle"
BY DEF Pending, Unwritten, Early

\* Executions whose files and turns stay as they are.
LEMMA StageSame ==
    ASSUME NEW f \in Execution, UNCHANGED <<file, clobbered>>,
           pc'[f] = pc[f], view'[f] = view[f], pc[f] = "locked" => lock'.wrote = lock.wrote
    PROVE  StageOf(f)' = StageOf(f)
BY DEF StageOf, Pending, Revision

\* What a step of an execution that writes nothing does to stages.
LEMMA WorkMoves ==
    ASSUME IInv, NEW e \in Execution, Work(e), ~Write(e)
    PROVE  /\ UNCHANGED <<StatusOf, Said>>
           /\ \A f \in Execution : f # e => StageOf(f)' = StageOf(f)
           /\ \/ StageOf(e)' = StageOf(e)
              \/ StageOf(e) = "thinking" /\ StageOf(e)' = "over"
              \/ StageOf(e) = "idle" /\ StageOf(e)' = "thinking" /\ StatusOf \in {"none", "active", "closed"}
<1>a. TypeOK /\ Locked /\ Views /\ Unborn
  BY DEF IInv
<1>b. UNCHANGED <<file, clobbered, committed>>
  BY DEF Work, Prepare, Load, RefuseRetry, Draw, DrawFails, Compose, Fail, Look, LockToCommit, Conflict, Unlock,
         Ledger, FailCommitted, Reply, Crash, Goto, Leave, ghosts
<1>1. UNCHANGED <<StatusOf, Said>>
  BY <1>b DEF StatusOf, Said, Exists
<1>c. file # NoFile => file.status \in {"active", "closed"}
  BY <1>a DEF TypeOK, Contents
<1>2. ASSUME NEW f \in Execution, f # e PROVE StageOf(f)' = StageOf(f)
  <2>1. pc'[f] = pc[f] /\ view'[f] = view[f]
    BY <1>a, <1>2 DEF Work, Prepare, Load, RefuseRetry, Draw, DrawFails, Compose, Fail, Look, LockToCommit, Conflict,
                      Unlock, Ledger, FailCommitted, Reply, Crash, Goto, Leave, TypeOK
  <2>2. pc[f] = "locked" => lock # Free /\ lock.by = f /\ pc[e] # "locked"
    BY <1>a, <1>2 DEF Locked, Holds
  <2>3. pc[f] = "locked" => lock' = lock
    BY <1>a, <1>2, <2>2 DEF Work, Prepare, Load, RefuseRetry, Draw, DrawFails, Compose, Fail, Look, LockToCommit,
                      Conflict, Unlock, Ledger, FailCommitted, Reply, Crash, Locked, Holds
  <2> QED BY <1>b, <2>1, <2>3, StageSame
<1>3. CASE clobbered
  BY <1>b, <1>1, <1>2, <1>3 DEF StageOf
<1>4. ASSUME ~clobbered, Prepare(e) \/ Load(e), pc[e] = "idle"
      PROVE  StageOf(e)' = "thinking" /\ StageOf(e) = "idle" /\ StatusOf \in {"none", "active", "closed"}
  <2>1. pc'[e] \in {"prepared", "working"}
    BY <1>a, <1>4 DEF Prepare, Load, Goto, TypeOK
  <2>2. CASE Kind(e) = "create"
    <3>1. view[e] = NoFile /\ file = NoFile /\ committed = {} /\ view' = view
      BY <1>a, <1>4, <2>2 DEF Unborn, Unwritten, Early, Views, Prepare, Load
    <3> QED BY <1>b, <1>4, <2>1, <3>1 DEF StageOf, StatusOf, Pending, Revision, RevisionOf, Exists
  <2>3. CASE Kind(e) # "create"
    <3>1. view'[e] = file /\ file # NoFile
      BY <1>a, <1>4, <2>3 DEF Prepare, Load, TypeOK, Active, Exists
    <3> QED BY <1>b, <1>c, <1>4, <2>1, <3>1 DEF StageOf, StatusOf, Pending, Revision, Exists
  <2> QED BY <2>2, <2>3
<1>5. ASSUME ~clobbered, Load(e), pc[e] = "prepared" PROVE StageOf(e)' = StageOf(e)
  BY <1>a, <1>b, <1>5 DEF Load, Goto, StageOf, Pending, Revision, TypeOK
<1>6. ASSUME ~clobbered, pc[e] # "idle", view'[e] = view[e], pc'[e] \notin {"idle", "locked"}
      PROVE  StageOf(e)' = StageOf(e) \/ (StageOf(e) = "thinking" /\ StageOf(e)' = "over")
                                      \/ (~Pending(e) /\ Pending(e)')
  BY <1>b, <1>6 DEF StageOf, Revision
<1>7. ASSUME ~clobbered, pc'[e] \in {"persisted", "answering", "done"}, pc[e] # "idle"
      PROVE  StageOf(e)' = StageOf(e) \/ (StageOf(e) = "thinking" /\ StageOf(e)' = "over")
  BY <1>b, <1>7 DEF StageOf, Pending
<1>8. ASSUME ~clobbered, Draw(e) \/ DrawFails(e) \/ Compose(e) \/ (Look(e) /\ pc'[e] = "looked")
      PROVE  StageOf(e)' = StageOf(e)
  BY <1>a, <1>b, <1>8 DEF Draw, DrawFails, Compose, Look, Goto, StageOf, Pending, Revision, TypeOK
<1>9. ASSUME ~clobbered, LockToCommit(e) PROVE StageOf(e)' = StageOf(e)
  <2>1. pc[e] = "looked" /\ pc'[e] = "locked" /\ ~lock'.wrote /\ view' = view
    BY <1>a, <1>9, Locking DEF LockToCommit, Goto, TypeOK
  <2> QED BY <1>b, <1>9, <2>1 DEF StageOf, Pending, Revision
<1>10. ASSUME RefuseRetry(e) \/ Fail(e) \/ Conflict(e) \/ Unlock(e) \/ Ledger(e) \/ FailCommitted(e) \/ Reply(e)
                \/ Crash(e) \/ (Look(e) /\ pc'[e] # "looked")
       PROVE  pc'[e] \in {"persisted", "answering", "done"} /\ pc[e] # "idle"
  BY <1>a, <1>10 DEF RefuseRetry, Fail, Conflict, Unlock, Ledger, FailCommitted, Reply, Crash, Look, Goto, Leave, TypeOK
<1>11. Prepare(e) \/ Load(e) => pc[e] \in {"idle", "prepared"} /\ (Prepare(e) => pc[e] = "idle")
  BY DEF Prepare, Load
<1> QED BY <1>1, <1>2, <1>3, <1>4, <1>5, <1>7, <1>8, <1>9, <1>10, <1>11 DEF Work

\* An answer is written: it is the answer of one who thinks.
LEMMA WriteAnswers ==
    ASSUME IInv, TalkInv, NEW e \in Execution, Write(e), ~clobbered
    PROVE  Talk!Answer(e)
<1>a. TypeOK /\ Locked /\ Views
  BY DEF IInv
<1>b. /\ pc[e] = "locked" /\ Holds(e) /\ lock # Free /\ lock.by = e /\ ~lock.wrote
      /\ file' = Answered(e, lock.copy) /\ UNCHANGED <<sent, pc, view, clobbered>>
  BY DEF Write, Holds
<1>c. lock.copy = file /\ view[e] = file /\ Recorded(Req(e)) = {} /\ \A f \in Execution : ~UpToDate(f)'
  BY Outdated
<1>d. /\ file' \in Contents /\ file' # NoFile /\ TurnOf(e) \in Turns
      /\ TurnOf(e).by = e /\ TurnOf(e).req = Req(e)
  BY <1>a, <1>b, AnsweredRecord DEF TurnOf
<1>e. /\ Said \in Seq(Turns) /\ (Exists => Said = file.turns /\ TurnsOf(file) = ToSet(file.turns))
      /\ (~Exists => Said = <<>>)
  BY <1>a, RecordParts DEF Said, Exists, TypeOK
<1>1. StageOf(e) = "thinking"
  BY <1>b, <1>c DEF StageOf, Pending, Revision
<1>2. StatusOf' = "active" /\ Said' = Answered(e, file).turns
  BY <1>b, <1>c, <1>d DEF StatusOf, Said, Exists, Answered
<1>3. Talk!Interrupt
  <2>1. ASSUME NEW f \in Execution
        PROVE  StageOf(f)' = IF StageOf(f) = "thinking" THEN "over" ELSE StageOf(f)
    <3>1. StageOf(f)' = IF pc[f] = "idle" THEN "idle" ELSE "over"
      BY <1>b, <1>c DEF StageOf, UpToDate
    <3>2. StageOf(f) = "idle" <=> pc[f] = "idle"
      BY DEF StageOf
    <3>3. StageOf(f) \in {"idle", "thinking", "over"}
      BY DEF StageOf
    <3> QED BY <3>1, <3>2, <3>3
  <2> QED BY <2>1 DEF Talk!Interrupt
<1>4. ~Talk!Asked(Req(e))
  <2> SUFFICES ASSUME NEW i \in DOMAIN Said, Said[i].req = Req(e) PROVE FALSE
    BY DEF Talk!Asked
  <2>1. Exists /\ Said[i] \in TurnsOf(file)
    BY <1>e DEF ToSet
  <2> QED BY <1>c, <2>1 DEF Recorded
<1>5. \/ Said' = Append(Said, TurnOf(e))
      \/ StatusOf = "active" /\ Said # <<>> /\ Said' = Append(Talk!Front(Said), TurnOf(e))
  <2>1. CASE Kind(e) = "retry"
    <3>1. Exists /\ file.turns # <<>> /\ file.status = "active"
      BY <1>a, <1>b, <1>c, <2>1 DEF Locked, TalkInv, Exists
    <3>2. Talk!Front(Said) = Front(Said)
      BY DEF Talk!Front, Front
    <3>3. StatusOf = "active" /\ Said = file.turns
      BY <1>e, <3>1 DEF StatusOf, Exists
    <3>4. Said' = Append(Front(file.turns), TurnOf(e))
      BY <1>2, <2>1, <3>1 DEF Answered, Exists
    <3> QED BY <3>1, <3>2, <3>3, <3>4
  <2>2. CASE Kind(e) # "retry"
    <3>1. ~\E t \in TurnsOf(file) : t.req = Req(e)
      BY <1>c DEF Recorded
    <3> QED BY <1>e, <1>2, <2>2, <3>1 DEF Answered, Exists
  <2> QED BY <2>1, <2>2
<1> QED BY <1>d, <1>1, <1>2, <1>3, <1>4, <1>5 DEF Talk!Answer

\* What an editor writes is a change of the conversation.
LEMMA EditChanges ==
    ASSUME IInv, TalkInv, NEW d \in Edit, WriteEdit(d), ~clobbered
    PROVE  Talk!Retitle \/ Talk!Close \/ Talk!Delete \/ \E i \in DOMAIN Said : Talk!TakeBack(i)
<1>a. TypeOK /\ Locked /\ Views
  BY DEF IInv
<1>b. /\ Holds(d) /\ lock # Free /\ lock.by = d /\ ~lock.wrote /\ UNCHANGED <<pc, view, committed, clobbered>>
  BY DEF WriteEdit, Holds, run
<1>c. /\ lock.copy = file /\ file \in Contents /\ file # NoFile
      /\ \A f \in Execution : (Unwritten(f)' <=> Unwritten(f))
      /\ \A f \in Execution : pc[f] # "idle" /\ Unwritten(f) => ~UpToDate(f)'
      /\ d.op \in {"remove", "rename", "close", "delete"}
      /\ d.op = "remove" => d.turn \in ToSet(file.turns)
  BY EditWritten
<1>d. file.status \in {"active", "closed"} /\ file.turns \in Seq(Turns) /\ StatusOf = file.status /\ Said = file.turns
  BY <1>c DEF Contents, StatusOf, Said, Exists
<1>1. Talk!Interrupt
  <2>1. ASSUME NEW f \in Execution
        PROVE  StageOf(f)' = IF StageOf(f) = "thinking" THEN "over" ELSE StageOf(f)
    <3>1. (Pending(f)' <=> Unwritten(f)' /\ pc'[f] # "idle") /\ (Pending(f) <=> Unwritten(f) /\ pc[f] # "idle")
      BY PendingIs DEF Pending, Unwritten, Early
    <3>2. StageOf(f)' = IF pc[f] = "idle" THEN "idle" ELSE "over"
      BY <1>b, <1>c, <3>1 DEF StageOf, UpToDate
    <3>3. (StageOf(f) = "idle" <=> pc[f] = "idle") /\ StageOf(f) \in {"idle", "thinking", "over"}
      BY DEF StageOf
    <3> QED BY <3>2, <3>3
  <2> QED BY <2>1 DEF Talk!Interrupt
<1>2. CASE d.op = "delete"
  <2>1. file' = NoFile /\ committed # {}
    BY <1>c, <1>2, EditWritten DEF TalkInv, Exists
  <2>2. StatusOf' = "deleted" /\ Said' = <<>>
    BY <1>b, <2>1 DEF StatusOf, Said, Exists
  <2> QED BY <1>d, <1>1, <2>2 DEF Talk!Delete
<1>3. CASE d.op # "delete"
  <2>1. /\ file' = Edited(d, file) /\ file' # NoFile
        /\ file'.status = IF d.op = "close" THEN "closed" ELSE file.status
        /\ file'.turns = IF d.op = "remove" THEN RemoveAt(file.turns, Place(d.turn, file.turns)) ELSE file.turns
    BY <1>a, <1>b, <1>c, <1>3, EditedRecord DEF WriteEdit
  <2>2. StatusOf' = file'.status /\ Said' = file'.turns
    BY <1>b, <2>1 DEF StatusOf, Said, Exists
  <2>3. CASE d.op = "remove"
    <3>1. Place(d.turn, file.turns) \in DOMAIN file.turns
      BY <1>c, <2>3 DEF Place, ToSet
    <3>2. file.status = "active"
      BY <1>b, <1>c, <2>3 DEF TalkInv
    <3>3. Talk!TakeBack(Place(d.turn, file.turns))
      BY <1>d, <1>1, <2>1, <2>2, <2>3, <3>2 DEF Talk!TakeBack, Talk!RemoveAt, RemoveAt
    <3> QED BY <1>d, <3>1, <3>3
  <2>4. CASE d.op = "close"
    BY <1>d, <1>1, <2>1, <2>2, <2>4 DEF Talk!Close
  <2>5. CASE d.op = "rename"
    BY <1>d, <1>1, <2>1, <2>2, <2>5 DEF Talk!Retitle
  <2> QED BY <1>c, <1>3, <2>3, <2>4, <2>5
<1> QED BY <1>2, <1>3

LEMMA TalkBegins == Init => Talk!Init
<1> SUFFICES ASSUME Init PROVE Talk!Init
  OBVIOUS
<1>1. [e \in Execution |-> StageOf(e)] \in [Execution -> {"idle", "over"}]
  BY DEF Init, StageOf, Pending
<1>2. CASE Past = {}
  <2>1. PastTurns = {}
    BY <1>2, Begun DEF Init
  <2>2. StatusOf = "none" /\ Said = <<>>
    BY <1>2, <2>1 DEF Init, StatusOf, Said, Exists
  <2> QED BY <1>1, <2>2 DEF Talk!Init
<1>3. CASE Past # {}
  <2>1. file \in Contents /\ file.status = "active" /\ ~clobbered
    BY <1>3, Begun, ShapeAssumption DEF Init, Contents
  <2>2. StatusOf = "active" /\ Said \in Seq(Turns)
    BY <2>1, SpecialAssumption DEF StatusOf, Said, Exists, Contents
  <2> QED BY <1>1, <2>2 DEF Talk!Init
<1> QED BY <1>2, <1>3

LEMMA StepIsTalk == IInv /\ TalkInv /\ [Next]_vars => [Talk!Next]_(Talk!vars)
<1> DEFINE stages == [e \in Execution |-> StageOf(e)]
<1> SUFFICES ASSUME IInv, TalkInv, [Next]_vars
             PROVE  Talk!Next \/ (UNCHANGED <<StatusOf, Said>> /\ stages' = stages)
  BY DEF Talk!vars
<1>a. TypeOK /\ Locked
  BY DEF IInv
<1>1. ASSUME NEW e \in Execution, Work(e), ~Write(e)
      PROVE  Talk!Next \/ (UNCHANGED <<StatusOf, Said>> /\ stages' = stages)
  <2>1. /\ UNCHANGED <<StatusOf, Said>>
        /\ \A f \in Execution : f # e => StageOf(f)' = StageOf(f)
    BY <1>1, WorkMoves
  <2>2. CASE StageOf(e)' = StageOf(e)
    BY <2>1, <2>2
  <2>3. CASE StageOf(e) = "thinking" /\ StageOf(e)' = "over"
    <3>1. Talk!GiveUp(e)
      BY <2>1, <2>3 DEF Talk!GiveUp
    <3> QED BY <3>1 DEF Talk!Next
  <2>4. CASE StageOf(e) = "idle" /\ StageOf(e)' = "thinking" /\ StatusOf \in {"none", "active", "closed"}
    <3>1. Talk!Begin(e)
      BY <2>1, <2>4 DEF Talk!Begin
    <3> QED BY <3>1 DEF Talk!Next
  <2> QED BY <1>1, <2>2, <2>3, <2>4, WorkMoves
<1>2. ASSUME clobbered, clobbered'
      PROVE  UNCHANGED <<StatusOf, Said>> /\ stages' = stages
  BY <1>2 DEF StatusOf, Said, StageOf
<1>3. ASSUME NEW e \in Execution, Write(e) PROVE Talk!Next \/ (UNCHANGED <<StatusOf, Said>> /\ stages' = stages)
  <2>1. CASE clobbered
    BY <1>2, <1>3, <2>1 DEF Write
  <2>2. CASE ~clobbered
    BY <1>3, <2>2, WriteAnswers DEF Talk!Next
  <2> QED BY <2>1, <2>2
<1>4. ASSUME NEW d \in Edit, WriteEdit(d) PROVE Talk!Next \/ (UNCHANGED <<StatusOf, Said>> /\ stages' = stages)
  <2>1. CASE clobbered
    BY <1>2, <1>4, <2>1 DEF WriteEdit
  <2>2. CASE ~clobbered
    BY <1>4, <2>2, EditChanges DEF Talk!Next
  <2> QED BY <2>1, <2>2
<1>5. ASSUME UNCHANGED <<file, pc, view, committed, clobbered>>,
             \A f \in Execution : pc[f] = "locked" => lock'.wrote = lock.wrote
      PROVE  UNCHANGED <<StatusOf, Said>> /\ stages' = stages
  <2>1. \A f \in Execution : StageOf(f)' = StageOf(f)
    BY <1>5, StageSame
  <2> QED BY <1>5, <2>1 DEF StatusOf, Said, Exists
<1>6. ASSUME NEW d \in Edit, LockToEdit(d) \/ UnlockEdit(d) \/ FailEdit(d)
      PROVE  UNCHANGED <<StatusOf, Said>> /\ stages' = stages
  <2>1. \A f \in Execution : pc[f] # "locked"
    BY <1>a, <1>6, SpecialAssumption DEF LockToEdit, UnlockEdit, FailEdit, Locked, Holds
  <2> QED BY <1>5, <1>6, <2>1 DEF LockToEdit, UnlockEdit, FailEdit, run, ghosts
<1>7. ASSUME NEW m \in Mark, ReadToMark(m) \/ WriteMark(m)
      PROVE  Talk!Next \/ (UNCHANGED <<StatusOf, Said>> /\ stages' = stages)
  <2>1. CASE ReadToMark(m)
    BY <1>5, <2>1 DEF ReadToMark, run, ghosts
  <2>2. CASE WriteMark(m) /\ ~clobbered'
    <3>1. UNCHANGED <<file, pc, view, lock, committed, clobbered>>
      BY <2>2 DEF WriteMark, run, IInv, TypeOK
    <3> QED BY <1>5, <3>1
  <2>3. CASE WriteMark(m) /\ clobbered'
    <3>1. Talk!Lose
      BY <2>3 DEF Talk!Lose, StatusOf, Said, StageOf
    <3> QED BY <3>1 DEF Talk!Next
  <2> QED BY <1>7, <2>1, <2>2, <2>3
<1>8. ASSUME UNCHANGED vars PROVE UNCHANGED <<StatusOf, Said>> /\ stages' = stages
  BY <1>5, <1>8 DEF vars, run, ghosts
<1> HIDE DEF stages
<1> QED BY <1>1, <1>3, <1>4, <1>6, <1>7, <1>8 DEF Next

(* Record, revisions, lock and retries implement a conversation.           *)
THEOREM ImplementsConversation == Spec => TalkSpec
<1> QED BY TalkStarts, TalkSteps, TalkBegins, StepIsTalk, Invariant, PTL DEF Spec, TalkSpec, Talk!Spec
=============================================================================
