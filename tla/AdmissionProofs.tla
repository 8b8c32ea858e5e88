-------------------------- MODULE AdmissionProofs --------------------------
(***************************************************************************)
(* Theorems about permits, waves and failures of ModelAdmission, for any   *)
(* tasks, sources, segments, ceilings and bounds.                          *)
(***************************************************************************)
EXTENDS ModelAdmission, FiniteSetTheorems, TLAPS

(* Calls that have not come to an end, and those that hold a permit.       *)
Unsettled == {"asking", "queued", "entered", "calling", "struck"}
Held == {c \in Call : call[c] \in Holding}

(* No attempt reserves the key of the calls, an attempt holds the other    *)
(* key while it has a place there, and runs while its task does.           *)
OneHolder ==
    /\ holder[CallKey] = Nobody
    /\ \A t \in Task : (holder[AdmissionKey] = t) <=> place[t] \in {"reserved", "admitted", "running"}
    /\ \A t \in Task : place[t] = "running" <=> state[t] = "running"

(* The counter of the pool is the number of the calls that hold a permit.  *)
Counted == active[CallKey] = Cardinality(Held)

(* Whoever asked for a permit keeps the limit down to the ceiling of its   *)
(* task.                                                                   *)
UnderCeiling ==
    \A c \in Call : call[c] \in {"queued"} \cup Holding => limit[CallKey] <= Limit[TaskOf[c[1]]]

(* A call that has not ended belongs to the wave of an open source, whose  *)
(* task runs.  Before the wave all calls succeeded, behind it there are    *)
(* none.                                                                   *)
InWave(c) == c[2] > cursor[c[1]] /\ c[2] <= cursor[c[1]] + width[c[1]]
UnsettledInWave ==
    \A c \in Call : call[c] \in Unsettled => source[c[1]] = "open" /\ InWave(c)
WavesOrdered ==
    \A c \in Call : /\ c[2] <= cursor[c[1]] => call[c] = "ok"
                    /\ c[2] > cursor[c[1]] + width[c[1]] => call[c] = "none"
Fits == \A s \in Source : cursor[s] + width[s] <= Segments[s]
CallsOfRunning ==
    /\ \A c \in Call : call[c] # "none" => place[TaskOf[c[1]]] = "running"
    /\ \A s \in Source : source[s] = "open" => place[TaskOf[s]] = "running"
Blank ==
    \A s \in Source : source[s] = "waiting" \/ place[TaskOf[s]] # "running" =>
        cursor[s] = 0 /\ \A c \in Call : c[1] = s => call[c] = "none"

(* A retryable failure without a final one makes its source retryable,     *)
(* unless the task is cancelled.                                           *)
HopeKept ==
    \A s \in Source : Hopeful(s) =>
        source[s] \in {"open", "retryable"} \/ (source[s] = "cancelled" /\ TaskOf[s] \in cancel)

IInv == /\ TypeOK /\ OneHolder /\ Counted /\ UnderCeiling /\ UnsettledInWave /\ WavesOrdered
        /\ Fits /\ CallsOfRunning /\ Blank /\ HopeKept /\ WithinContract

-----------------------------------------------------------------------------
(* The smallest of three numbers is one of them and not above any.         *)
LEMMA ThreeMin ==
    ASSUME NEW a \in Int, NEW b \in Int, NEW c \in Int
    PROVE  Min({a, b, c}) \in {a, b, c} /\ Min({a, b, c}) <= a /\ Min({a, b, c}) <= b /\ Min({a, b, c}) <= c
<1>1. \E x \in {a, b, c} : \A y \in {a, b, c} : x <= y
  <2>1. CASE a <= b /\ a <= c
    BY <2>1
  <2>2. CASE b <= a /\ b <= c
    BY <2>2
  <2>3. CASE c <= a /\ c <= b
    BY <2>3
  <2> QED BY <2>1, <2>2, <2>3
<1> QED BY <1>1 DEF Min

LEMMA TwoKeys == AdmissionKey # CallKey /\ AdmissionKey \in Key /\ CallKey \in Key
BY DEF AdmissionKey, CallKey, Key

(* What a call is made of.                                                 *)
LEMMA CallParts ==
    /\ \A c \in Call : c[1] \in Source /\ c[2] \in Segment(c[1]) /\ c = <<c[1], c[2]>> /\ TaskOf[c[1]] \in Task
    /\ \A s \in Source : \A i \in Segment(s) : <<s, i>> \in Call
<1> USE AdmissionAssumption
<1>1. \A s \in Source : {s} \X Segment(s) \subseteq Call
  BY DEF Call
<1>2. ASSUME NEW c \in Call PROVE \E s \in Source : c \in {s} \X Segment(s)
  BY <1>2 DEF Call
<1> QED BY <1>1, <1>2

LEMMA CallsFinite == IsFiniteSet(Call)
<1> USE AdmissionAssumption
<1> DEFINE f == [s \in Source |-> {s} \X Segment(s)]
           T == {{s} \X Segment(s) : s \in Source}
<1>1. f \in Surjection(Source, T)
  BY DEF Surjection
<1>2. IsFiniteSet(T)
  BY <1>1, FS_Surjection
<1>3. ASSUME NEW s \in Source PROVE IsFiniteSet({s} \X Segment(s))
  <2>1. IsFiniteSet({s})
    BY FS_Singleton
  <2>2. IsFiniteSet(Segment(s))
    <3>1. Segments[s] \in Int
      OBVIOUS
    <3> QED BY <3>1, FS_Interval DEF Segment
  <2> QED BY <2>1, <2>2, FS_Product
<1>4. \A X \in T : IsFiniteSet(X)
  BY <1>3
<1> QED BY <1>2, <1>4, FS_UNION DEF Call

(* Calls can be counted, and fewer calls count less.                       *)
LEMMA CallsCount ==
    ASSUME NEW X \in SUBSET Call
    PROVE  /\ IsFiniteSet(X) /\ Cardinality(X) \in Nat
           /\ \A Y \in SUBSET X : Cardinality(Y) \in Nat /\ Cardinality(Y) <= Cardinality(X)
<1>1. IsFiniteSet(X)
  BY CallsFinite, FS_Subset
<1>2. ASSUME NEW Y \in SUBSET X PROVE Cardinality(Y) \in Nat /\ Cardinality(Y) <= Cardinality(X)
  <2>1. IsFiniteSet(Y) /\ Cardinality(Y) <= Cardinality(X)
    BY <1>1, FS_Subset
  <2> QED BY <2>1, FS_CardinalityType
<1> QED BY <1>1, <1>2, FS_CardinalityType

(* The calls of a wave, by their numbers.                                  *)
LEMMA WaveIs ==
    ASSUME NEW s \in Source, NEW n \in Nat, NEW m \in Nat, NEW c \in Call
    PROVE  c \in {<<s, i>> : i \in (n + 1)..(n + m)} <=> c[1] = s /\ c[2] > n /\ c[2] <= n + m
<1>1. c = <<c[1], c[2]>> /\ c[2] \in Nat
  BY CallParts DEF Segment
<1> QED BY <1>1

LEMMA NoneHeld == ASSUME \A c \in Call : call[c] = "none" PROVE Held = {} /\ \A t \in Task : InFlight(t) = {}
BY DEF Held, InFlight, Holding

(* A first wave has no more calls than its source has segments.            *)
LEMMA FirstFits == \A s \in Source : FirstWave(s) \in Nat /\ FirstWave(s) <= Segments[s]
<1> USE AdmissionAssumption
<1> SUFFICES ASSUME NEW s \in Source PROVE FirstWave(s) \in Nat /\ FirstWave(s) <= Segments[s]
  OBVIOUS
<1> DEFINE m == Min({2, Limit[TaskOf[s]], Segments[s]})
<1>1. TaskOf[s] \in Task /\ Limit[TaskOf[s]] \in Nat /\ Segments[s] \in Nat
  OBVIOUS
<1>2. 2 \in Int /\ Limit[TaskOf[s]] \in Int /\ Segments[s] \in Int
  BY <1>1
<1>3. m \in {2, Limit[TaskOf[s]], Segments[s]} /\ m <= Segments[s]
  BY <1>2, ThreeMin, Zenon
<1>4. FirstWave(s) = m
  BY DEF FirstWave
<1> HIDE DEF m
<1> QED BY <1>1, <1>3, <1>4

LEMMA InitInv == Init => IInv
<1> SUFFICES ASSUME Init PROVE IInv
  OBVIOUS
<1> USE AdmissionAssumption
<1>1. \A s \in Source : FirstWave(s) \in Nat /\ FirstWave(s) <= Segments[s]
  BY FirstFits
<1>2. TypeOK
  <2>1. /\ paused \in BOOLEAN /\ noted \subseteq Task /\ limit \in [Key -> Nat] /\ active \in [Key -> Nat]
        /\ holder \in [Key -> Task \cup {Nobody}] /\ slots \in [Task -> Nat] /\ cooling \subseteq Key
    BY DEF Init
  <2>2. /\ state \in [Task -> {"queued", "running", "completed", "partially_failed", "cancelled"}]
        /\ attempts \in [Task -> Nat] /\ cancel \subseteq Task
        /\ place \in [Task -> {"idle", "waiting", "reserved", "admitted", "running"}]
    BY DEF Init
  <2>3. /\ source \in [Source -> {"waiting", "open", "processed"} \cup Failure]
        /\ cursor \in [Source -> Nat] /\ width \in [Source -> Nat]
    BY <1>1 DEF Init
  <2>4. call \in [Call -> {"none", "asking", "queued", "struck"} \cup Holding \cup Settled]
    BY DEF Init
  <2> QED BY <2>1, <2>2, <2>3, <2>4 DEF TypeOK
<1>3. \A c \in Call : call[c] = "none"
  BY DEF Init
<1>4. Counted /\ WithinContract
  <2>1. Cardinality(Held) = 0 /\ active[CallKey] = 0
    BY <1>3, NoneHeld, FS_EmptySet, TwoKeys DEF Init
  <2>2. \A t \in Task : Cardinality(InFlight(t)) = 0
    BY <1>3, NoneHeld, FS_EmptySet
  <2> QED BY <2>1, <2>2 DEF Counted, WithinContract
<1>5. OneHolder
  BY TwoKeys DEF Init, OneHolder
<1>6. UnderCeiling /\ UnsettledInWave /\ CallsOfRunning
  BY <1>3 DEF Init, UnderCeiling, UnsettledInWave, CallsOfRunning, Holding, Unsettled
<1>7. Fits
  BY <1>1 DEF Init, Fits
<1>8. WavesOrdered /\ Blank
  <2>1. \A c \in Call : c[1] \in Source /\ c[2] \in Nat /\ c[2] > 0
    BY CallParts DEF Segment
  <2>2. \A c \in Call : ~(c[2] <= cursor[c[1]])
    BY <2>1 DEF Init
  <2> QED BY <1>3, <2>2 DEF Init, WavesOrdered, Blank
<1>9. HopeKept
  BY <1>3, CallParts DEF HopeKept, Hopeful
<1> QED BY <1>2, <1>4, <1>5, <1>6, <1>7, <1>8, <1>9 DEF IInv

-----------------------------------------------------------------------------
(* When calls, sources and the pool's view of them stay, so does what the  *)
(* invariant says of them.                                                 *)
LEMMA SameCalls ==
    ASSUME UNCHANGED <<call, waves>>, cancel \subseteq cancel',
           Counted, UnsettledInWave, WavesOrdered, Fits, HopeKept, WithinContract, UnderCeiling,
           active'[CallKey] = active[CallKey], limit'[CallKey] = limit[CallKey]
    PROVE  /\ Counted' /\ UnsettledInWave' /\ WavesOrdered' /\ Fits' /\ HopeKept' /\ WithinContract'
           /\ UnderCeiling'
<1>1. Counted' /\ WithinContract'
  BY DEF Counted, Held, WithinContract, InFlight
<1>2. UnsettledInWave' /\ WavesOrdered' /\ Fits' /\ UnderCeiling'
  BY DEF UnsettledInWave, InWave, WavesOrdered, Fits, UnderCeiling, waves
<1>3. HopeKept'
  BY DEF HopeKept, Hopeful, waves
<1> QED BY <1>1, <1>2, <1>3

LEMMA OutsideStep == ASSUME IInv, SetPaused \/ (\E k \in Key : CooldownEnds(k)) \/ UNCHANGED vars PROVE IInv'
<1>1. UNCHANGED <<pool, tasks, waves, call>> /\ paused' \in BOOLEAN /\ noted' \subseteq Task
      /\ cooling' \subseteq Key
  BY DEF SetPaused, CooldownEnds, vars, control, IInv, TypeOK
<1>2. TypeOK' /\ OneHolder' /\ CallsOfRunning' /\ Blank'
  BY <1>1 DEF IInv, TypeOK, OneHolder, CallsOfRunning, Blank, pool, tasks, waves
<1> QED BY <1>1, <1>2, SameCalls DEF IInv, pool, tasks

(* The way of an attempt to its claim, or back.                            *)
OnTheWayIn(t) == Execute(t) \/ Reserve(t) \/ Admit(t) \/ Conflict(t) \/ GiveUp(t)

(* An attempt on its way in or out, and what the user does to a task.      *)
LEMMA TaskStep ==
    ASSUME IInv, NEW t \in Task,
           RequestCancel(t) \/ AdmitRecovery(t) \/ OnTheWayIn(t)
    PROVE  IInv'
<1> USE AdmissionAssumption
<1>a. TypeOK /\ OneHolder
  BY DEF IInv
<1>b. /\ UNCHANGED <<waves, call, active>> /\ cancel \subseteq cancel'
      /\ limit'[CallKey] = limit[CallKey]
  BY <1>a, TwoKeys DEF RequestCancel, AdmitRecovery, OnTheWayIn, Execute, Reserve, Admit, Conflict, GiveUp, Leave, pool, TypeOK
<1>c. \A u \in Task : place'[u] = "running" <=> place[u] = "running"
  BY <1>a DEF RequestCancel, AdmitRecovery, OnTheWayIn, Execute, Reserve, Admit, Conflict, GiveUp, Leave, TypeOK
<1>1. TypeOK'
  <2>1. CASE RequestCancel(t)
    BY <1>a, <2>1 DEF RequestCancel, TypeOK, pool, control, waves
  <2>2. CASE AdmitRecovery(t)
    BY <1>a, <2>2 DEF AdmitRecovery, TypeOK, pool, control, waves
  <2>3. CASE Execute(t)
    <3>1. limit' \in [Key -> Nat]
      BY <1>a, <2>3 DEF Execute, LimitAfter, TypeOK, Key
    <3> QED BY <1>a, <2>3, <3>1 DEF Execute, TypeOK, control, waves
  <2>4. CASE Reserve(t)
    BY <1>a, <2>4 DEF Reserve, TypeOK, control, waves, Key
  <2>5. CASE GiveUp(t) \/ Conflict(t)
    <3>1. holder' \in [Key -> Task \cup {Nobody}]
      BY <1>a, <2>5 DEF GiveUp, Conflict, Leave, Released, TypeOK
    <3> QED BY <1>a, <2>5, <3>1 DEF GiveUp, Conflict, Leave, TypeOK, waves
  <2>6. CASE Admit(t)
    BY <1>a, <2>6 DEF Admit, TypeOK, pool, waves
  <2> QED BY <2>1, <2>2, <2>3, <2>4, <2>5, <2>6 DEF OnTheWayIn
<1>2. OneHolder'
  <2>1. CASE RequestCancel(t) \/ AdmitRecovery(t)
    BY <1>a, <2>1 DEF RequestCancel, AdmitRecovery, Recoverable, OneHolder, TypeOK, pool
  <2>2. CASE Execute(t)
    BY <1>a, <2>2 DEF Execute, OneHolder, TypeOK
  <2>3. CASE Reserve(t)
    BY <1>a, <2>3, TwoKeys DEF Reserve, Idle, OneHolder, TypeOK
  <2>4. CASE GiveUp(t) \/ Conflict(t)
    BY <1>a, <2>4, TwoKeys DEF GiveUp, Conflict, Leave, Released, OneHolder, TypeOK
  <2>5. CASE Admit(t)
    BY <1>a, <2>5 DEF Admit, OneHolder, TypeOK, pool
  <2> QED BY <2>1, <2>2, <2>3, <2>4, <2>5 DEF OnTheWayIn
<1>3. CallsOfRunning' /\ Blank'
  BY <1>b, <1>c, CallParts DEF IInv, CallsOfRunning, Blank, waves
<1> QED BY <1>1, <1>2, <1>3, <1>b, SameCalls DEF IInv

(* The claim opens nothing: the sources of its task have no calls yet.     *)
LEMMA ClaimStep == ASSUME IInv, NEW t \in Task, Claim(t) PROVE IInv'
<1> USE AdmissionAssumption
<1>a. TypeOK /\ OneHolder /\ Blank /\ CallsOfRunning
  BY DEF IInv
<1>b. /\ UNCHANGED <<call, cursor, width, pool, cancel>>
      /\ place' = [place EXCEPT ![t] = "running"] /\ state' = [state EXCEPT ![t] = "running"]
      /\ place[t] = "admitted"
  BY DEF Claim
<1>c. \A s \in Source : source'[s] = source[s] \/ (TaskOf[s] = t /\ source'[s] = "waiting")
  BY DEF Claim
<1>d. \A s \in Source : TaskOf[s] = t => cursor[s] = 0 /\ \A c \in Call : c[1] = s => call[c] = "none"
  BY <1>a, <1>b DEF Blank
<1>1. TypeOK'
  BY <1>a, <1>b DEF Claim, TypeOK, pool
<1>2. OneHolder'
  BY <1>a, <1>b DEF OneHolder, TypeOK, pool
<1>3. Counted' /\ WithinContract' /\ UnderCeiling'
  BY <1>b DEF IInv, Counted, Held, WithinContract, InFlight, UnderCeiling, pool
<1>4. UnsettledInWave' /\ WavesOrdered' /\ Fits'
  BY <1>b, <1>c, <1>d, CallParts DEF IInv, UnsettledInWave, InWave, WavesOrdered, Fits, Unsettled
<1>5. CallsOfRunning'
  BY <1>a, <1>b, <1>c, CallParts DEF CallsOfRunning, TypeOK
<1>6. Blank'
  <2> SUFFICES ASSUME NEW s \in Source, source'[s] = "waiting" \/ place'[TaskOf[s]] # "running"
               PROVE  cursor[s] = 0 /\ \A c \in Call : c[1] = s => call[c] = "none"
    BY <1>b DEF Blank
  <2>1. CASE TaskOf[s] = t
    BY <1>d, <2>1
  <2>2. CASE TaskOf[s] # t
    BY <1>a, <1>b, <1>c, <2>2 DEF Blank, TypeOK
  <2> QED BY <2>1, <2>2
<1>7. HopeKept'
  <2> SUFFICES ASSUME NEW s \in Source, Hopeful(s)'
               PROVE  source'[s] \in {"open", "retryable"} \/ (source'[s] = "cancelled" /\ TaskOf[s] \in cancel')
    BY DEF HopeKept
  <2>1. Hopeful(s)
    BY <1>b DEF Hopeful
  <2>2. TaskOf[s] # t
    BY <1>d, <2>1, CallParts DEF Hopeful
  <2> QED BY <1>b, <1>c, <2>1, <2>2 DEF IInv, HopeKept
<1> QED BY <1>1, <1>2, <1>3, <1>4, <1>5, <1>6, <1>7 DEF IInv

-----------------------------------------------------------------------------
(* A call that has not ended takes a step and its source and task none.    *)
LEMMA CallMoves ==
    ASSUME IInv, NEW c \in Call, NEW st \in Unsettled \cup Settled, call[c] \in Unsettled,
           call' = [call EXCEPT ![c] = st], UNCHANGED <<waves, tasks>>
    PROVE  /\ call' \in [Call -> {"none", "asking", "queued", "struck"} \cup Holding \cup Settled]
           /\ UnsettledInWave' /\ WavesOrdered' /\ Fits' /\ CallsOfRunning' /\ Blank' /\ HopeKept'
<1>a. TypeOK /\ UnsettledInWave /\ WavesOrdered /\ Fits /\ CallsOfRunning /\ Blank /\ HopeKept
  BY DEF IInv
<1>b. source[c[1]] = "open" /\ InWave(c) /\ place[TaskOf[c[1]]] = "running" /\ c[1] \in Source
  BY <1>a, CallParts DEF UnsettledInWave, CallsOfRunning, Unsettled
<1>c. \A d \in Call : d # c => call'[d] = call[d]
  BY <1>a DEF TypeOK
<1>d. call'[c] = st /\ st # "none"
  BY <1>a DEF TypeOK, Unsettled, Settled, Failure
<1>e. \A d \in Call : d[2] \in Nat /\ cursor[d[1]] \in Nat /\ width[d[1]] \in Nat
  BY <1>a, CallParts DEF TypeOK, Segment
<1>1. call' \in [Call -> {"none", "asking", "queued", "struck"} \cup Holding \cup Settled]
  BY <1>a DEF TypeOK, Unsettled, Settled, Failure, Holding
<1>2. UnsettledInWave' /\ Fits' /\ CallsOfRunning'
  BY <1>a, <1>b, <1>c DEF UnsettledInWave, InWave, Fits, CallsOfRunning, waves, tasks
<1>3. WavesOrdered'
  BY <1>a, <1>b, <1>c, <1>e DEF WavesOrdered, InWave, waves
<1>4. Blank'
  BY <1>a, <1>b, <1>c DEF Blank, waves, tasks
<1>5. HopeKept'
  <2> SUFFICES ASSUME NEW s \in Source, Hopeful(s)'
               PROVE  source[s] \in {"open", "retryable"} \/ (source[s] = "cancelled" /\ TaskOf[s] \in cancel)
    BY DEF HopeKept, waves, tasks
  <2>1. CASE s = c[1]
    BY <1>b, <2>1
  <2>2. CASE s # c[1]
    <3>1. \A i \in Segment(s) : call'[<<s, i>>] = call[<<s, i>>]
      BY <1>c, <2>2, CallParts
    <3>2. Hopeful(s)
      BY <3>1 DEF Hopeful
    <3> QED BY <1>a, <3>2 DEF HopeKept
  <2> QED BY <2>1, <2>2
<1> QED BY <1>1, <1>2, <1>3, <1>4, <1>5

(* A call that neither takes nor gives back a permit.                      *)
LEMMA PermitStays ==
    ASSUME TypeOK, Counted, WithinContract, NEW c \in Call, NEW st,
           call' = [call EXCEPT ![c] = st], call[c] \in Holding <=> st \in Holding,
           active' = active
    PROVE  Counted' /\ WithinContract'
<1>1. \A d \in Call : call'[d] \in Holding <=> call[d] \in Holding
  BY DEF TypeOK
<1>2. Held' = Held /\ \A t \in Task : InFlight(t)' = InFlight(t)
  BY <1>1 DEF Held, InFlight
<1> QED BY <1>2 DEF Counted, WithinContract

(* A call that gives its permit back.                                      *)
LEMMA PermitGiven ==
    ASSUME IInv, NEW c \in Call, NEW st, call[c] \in Holding, st \notin Holding,
           call' = [call EXCEPT ![c] = st], active' = Given(c)
    PROVE  Counted' /\ WithinContract' /\ active' \in [Key -> Nat]
<1> USE AdmissionAssumption
<1>a. TypeOK /\ Counted /\ WithinContract /\ OneHolder
  BY DEF IInv
<1>b. active' = [active EXCEPT ![CallKey] = @ - 1] /\ CallKey \in Key
  BY <1>a, CallParts DEF Given, Reserved, OneHolder, Key
<1>1. Held' = Held \ {c} /\ c \in Held
  BY <1>a DEF Held, TypeOK
<1>2. IsFiniteSet(Held) /\ Held \in SUBSET Call /\ Cardinality(Held) \in Nat
  BY CallsCount DEF Held
<1>3. Cardinality(Held') = Cardinality(Held) - 1 /\ Cardinality(Held') \in Nat
  BY <1>1, <1>2, FS_RemoveElement, CallsCount
<1>4. Counted' /\ active' \in [Key -> Nat]
  BY <1>a, <1>b, <1>3 DEF Counted, TypeOK
<1>5. WithinContract'
  <2> SUFFICES ASSUME NEW t \in Task PROVE Cardinality(InFlight(t)') <= Limit[t]
    BY DEF WithinContract
  <2>1. InFlight(t)' \in SUBSET InFlight(t) /\ InFlight(t) \in SUBSET Call
    BY <1>a DEF InFlight, TypeOK
  <2>2. Cardinality(InFlight(t)') <= Cardinality(InFlight(t)) /\ Cardinality(InFlight(t)') \in Nat
        /\ Cardinality(InFlight(t)) \in Nat
    BY <2>1, CallsCount
  <2> QED BY <1>a, <2>2 DEF WithinContract
<1> QED BY <1>4, <1>5

(* Two calls that are not blank are of one task, the one that runs.        *)
LEMMA OneTaskCalls ==
    ASSUME IInv, NEW c \in Call, NEW d \in Call, call[c] # "none", call[d] # "none"
    PROVE  TaskOf[c[1]] = TaskOf[d[1]]
<1>1. place[TaskOf[c[1]]] = "running" /\ place[TaskOf[d[1]]] = "running"
  BY DEF IInv, CallsOfRunning
<1> QED BY <1>1, CallParts DEF IInv, OneHolder

LEMMA AskStep == ASSUME IInv, NEW c \in Call, AskCall(c) PROVE IInv'
<1> USE AdmissionAssumption
<1>a. TypeOK /\ OneHolder /\ Counted /\ WithinContract /\ UnderCeiling
  BY DEF IInv
<1>b. PICK st \in {"cancelled", "limited", "queued"} : call' = [call EXCEPT ![c] = st]
  BY DEF AskCall, Become
<1>c. call[c] = "asking" /\ UNCHANGED <<control, holder, active, slots, cooling, tasks, waves>>
  BY DEF AskCall
<1>d. ~Reserved(c) /\ TaskOf[c[1]] \in Task /\ CallKey \in Key
  BY <1>a, CallParts DEF Reserved, OneHolder, Key
<1> DEFINE n == Limit[TaskOf[c[1]]]
<1>e. \/ limit' = limit /\ st # "queued"
      \/ limit' = [limit EXCEPT ![CallKey] = LimitAfter(CallKey, n)]
  <2>1. CASE Cancelled(c[1]) /\ Become(c, "cancelled") /\ UNCHANGED limit
    BY <1>a, <1>b, <2>1 DEF Become, TypeOK
  <2>2. CASE ~Cancelled(c[1]) /\ ~paused /\ CallKey \in cooling /\ ~Reserved(c)
             /\ Become(c, "limited") /\ UNCHANGED limit
    BY <1>a, <1>b, <2>2 DEF Become, TypeOK
  <2> QED BY <1>d, <2>1, <2>2 DEF AskCall
<1>f. n \in Nat /\ LimitAfter(CallKey, n) \in Nat /\ LimitAfter(CallKey, n) <= n
  BY <1>a, <1>d DEF LimitAfter, TypeOK
<1>1. /\ call' \in [Call -> {"none", "asking", "queued", "struck"} \cup Holding \cup Settled]
      /\ UnsettledInWave' /\ WavesOrdered' /\ Fits' /\ CallsOfRunning' /\ Blank' /\ HopeKept'
  BY <1>b, <1>c, CallMoves DEF Unsettled, Settled, Failure
<1>2. Counted' /\ WithinContract'
  BY <1>a, <1>b, <1>c, PermitStays DEF Holding
<1>3. TypeOK'
  <2>1. limit' \in [Key -> Nat]
    BY <1>a, <1>e, <1>f DEF TypeOK
  <2> QED BY <1>a, <1>c, <1>1, <2>1 DEF TypeOK, control, tasks, waves
<1>4. OneHolder'
  BY <1>a, <1>c DEF OneHolder, tasks
<1>5. UnderCeiling'
  <2> SUFFICES ASSUME NEW d \in Call, call'[d] \in {"queued"} \cup Holding
               PROVE  limit'[CallKey] <= Limit[TaskOf[d[1]]]
    BY DEF UnderCeiling
  <2>1. CASE limit' = limit /\ st # "queued"
    <3>1. d # c
      BY <1>a, <1>b, <2>1 DEF TypeOK, Holding
    <3> QED BY <1>a, <1>b, <2>1, <3>1 DEF UnderCeiling, TypeOK
  <2>2. CASE limit' = [limit EXCEPT ![CallKey] = LimitAfter(CallKey, n)]
    <3>1. call[d] # "none"
      BY <1>a, <1>b, <1>c DEF TypeOK, Holding
    <3>2. TaskOf[d[1]] = TaskOf[c[1]]
      BY <1>c, <3>1, OneTaskCalls
    <3> QED BY <1>a, <1>d, <1>f, <2>2, <3>2 DEF TypeOK
  <2> QED BY <1>e, <2>1, <2>2
<1> QED BY <1>1, <1>2, <1>3, <1>4, <1>5 DEF IInv

(* A permit is given out below the limit, which is not above the ceiling   *)
(* of whoever waits for one.                                               *)
LEMMA EnterStep == ASSUME IInv, NEW c \in Call, EnterCall(c) PROVE IInv'
<1> USE AdmissionAssumption
<1>a. TypeOK /\ OneHolder /\ Counted /\ WithinContract /\ UnderCeiling
  BY DEF IInv
<1>b. PICK st \in {"entered", "cancelled"} : call' = [call EXCEPT ![c] = st]
  BY DEF EnterCall, Become
<1>c. call[c] = "queued" /\ UNCHANGED <<control, limit, holder, slots, cooling, tasks, waves>>
  BY DEF EnterCall
<1>d. ~Reserved(c) /\ TaskOf[c[1]] \in Task /\ CallKey \in Key
  BY <1>a, CallParts DEF Reserved, OneHolder, Key
<1>1. /\ call' \in [Call -> {"none", "asking", "queued", "struck"} \cup Holding \cup Settled]
      /\ UnsettledInWave' /\ WavesOrdered' /\ Fits' /\ CallsOfRunning' /\ Blank' /\ HopeKept'
  BY <1>b, <1>c, CallMoves DEF Unsettled, Settled, Failure
<1>2. Counted' /\ WithinContract' /\ active' \in [Key -> Nat]
  <2>1. CASE Room(c) /\ Become(c, "entered") /\ active' = Taken(c)
    <3>1. active' = [active EXCEPT ![CallKey] = @ + 1] /\ active[CallKey] < limit[CallKey]
      BY <1>d, <2>1 DEF Taken, Room
    <3>2. Held' = Held \cup {c} /\ c \notin Held
      BY <1>a, <1>c, <2>1 DEF Become, Held, Holding, TypeOK
    <3>3. Held \in SUBSET Call /\ Held' \in SUBSET Call
      BY DEF Held
    <3>4. Cardinality(Held') = Cardinality(Held) + 1
      BY <3>2, <3>3, CallsCount, FS_AddElement
    <3>5. Counted' /\ active' \in [Key -> Nat]
      BY <1>a, <1>d, <3>1, <3>4 DEF Counted, TypeOK
    <3>6. WithinContract'
      <4> SUFFICES ASSUME NEW t \in Task PROVE Cardinality(InFlight(t)') <= Limit[t]
        BY DEF WithinContract
      <4>1. CASE t = TaskOf[c[1]]
        <5>1. InFlight(t)' \in SUBSET (Held')
          BY DEF InFlight, Held
        <5>2. Cardinality(InFlight(t)') <= Cardinality(Held') /\ Cardinality(InFlight(t)') \in Nat
              /\ Cardinality(Held') \in Nat
          BY <3>3, <5>1, CallsCount
        <5>3. Cardinality(Held') <= limit[CallKey]
          BY <1>a, <1>d, <3>1, <3>4 DEF Counted, TypeOK
        <5>4. limit[CallKey] <= Limit[t]
          BY <1>a, <1>c, <4>1 DEF UnderCeiling
        <5> QED BY <1>a, <1>d, <5>2, <5>3, <5>4 DEF TypeOK
      <4>2. CASE t # TaskOf[c[1]]
        <5>1. InFlight(t)' = InFlight(t)
          BY <1>a, <1>b, <4>2 DEF InFlight, TypeOK
        <5> QED BY <1>a, <5>1 DEF WithinContract
      <4> QED BY <4>1, <4>2
    <3> QED BY <3>5, <3>6
  <2>2. CASE ~Room(c) /\ Cancelled(c[1]) /\ Become(c, "cancelled") /\ UNCHANGED active
    <3>1. Counted' /\ WithinContract'
      BY <1>a, <1>c, <2>2, PermitStays DEF Become, Holding
    <3> QED BY <1>a, <2>2, <3>1 DEF TypeOK
  <2> QED BY <2>1, <2>2 DEF EnterCall
<1>3. TypeOK' /\ OneHolder'
  BY <1>a, <1>c, <1>1, <1>2 DEF TypeOK, control, OneHolder, tasks, waves
<1>4. UnderCeiling'
  BY <1>a, <1>b, <1>c DEF UnderCeiling, TypeOK, Holding
<1> QED BY <1>1, <1>2, <1>3, <1>4 DEF IInv

(* A call that is admitted, deferred, answered or struck.                  *)
LEMMA PermitStep ==
    ASSUME IInv, NEW c \in Call, AdmitCall(c) \/ Answer(c) \/ ImposeCooldown(c)
    PROVE  IInv'
<1> USE AdmissionAssumption
<1>a. TypeOK /\ OneHolder /\ Counted /\ WithinContract /\ UnderCeiling
  BY DEF IInv
<1>b. PICK st \in {"cancelled", "limited", "calling", "ok", "retryable", "fatal", "struck"} :
        /\ call' = [call EXCEPT ![c] = st]
        /\ \/ call[c] \in Holding /\ st \notin Holding /\ active' = Given(c)
           \/ (call[c] \in Holding <=> st \in Holding) /\ active' = active
        /\ st = "calling" => call[c] = "entered"
  <2>1. CASE AdmitCall(c)
    BY <2>1 DEF AdmitCall, Become, Deferred, Holding
  <2>2. CASE Answer(c)
    BY <2>2 DEF Answer, Become, Holding
  <2>3. CASE ImposeCooldown(c)
    BY <2>3 DEF ImposeCooldown, Become, Holding, pool
  <2> QED BY <2>1, <2>2, <2>3
<1>c. /\ call[c] \in Unsettled /\ UNCHANGED <<control, limit, holder, slots, tasks, waves>>
      /\ cooling' \subseteq Key
  BY <1>a DEF AdmitCall, Answer, ImposeCooldown, Unsettled, pool, TypeOK, Key
<1>1. /\ call' \in [Call -> {"none", "asking", "queued", "struck"} \cup Holding \cup Settled]
      /\ UnsettledInWave' /\ WavesOrdered' /\ Fits' /\ CallsOfRunning' /\ Blank' /\ HopeKept'
  BY <1>b, <1>c, CallMoves DEF Unsettled, Settled, Failure
<1>2. Counted' /\ WithinContract' /\ active' \in [Key -> Nat]
  <2>1. CASE call[c] \in Holding /\ st \notin Holding /\ active' = Given(c)
    BY <1>b, <2>1, PermitGiven
  <2>2. CASE (call[c] \in Holding <=> st \in Holding) /\ active' = active
    <3>1. Counted' /\ WithinContract'
      BY <1>a, <1>b, <2>2, PermitStays
    <3> QED BY <1>a, <2>2, <3>1 DEF TypeOK
  <2> QED BY <1>b, <2>1, <2>2
<1>3. TypeOK' /\ OneHolder'
  BY <1>a, <1>c, <1>1, <1>2 DEF TypeOK, control, OneHolder, tasks, waves
<1>4. UnderCeiling'
  BY <1>a, <1>b, <1>c DEF UnderCeiling, TypeOK, Holding
<1> QED BY <1>1, <1>2, <1>3, <1>4 DEF IInv

-----------------------------------------------------------------------------
(* A new wave of a source: calls that were blank ask.                      *)
LEMMA WaveStarts ==
    ASSUME IInv, NEW s \in Source, source[s] \in {"waiting", "open"}, source'[s] = "open",
           place[TaskOf[s]] = "running", NEW n \in Nat, NEW m \in Nat, n + m <= Segments[s],
           StartWave(s, n, m), cursor'[s] = n, width'[s] = m,
           \A c \in Call : c[1] = s => (c[2] <= n => call[c] = "ok") /\ (c[2] > n => call[c] = "none"),
           \A r \in Source : r # s => cursor'[r] = cursor[r] /\ width'[r] = width[r] /\ source'[r] = source[r],
           UNCHANGED <<pool, tasks>>
    PROVE  /\ call' \in [Call -> {"none", "asking", "queued", "struck"} \cup Holding \cup Settled]
           /\ Counted' /\ UnderCeiling' /\ UnsettledInWave' /\ WavesOrdered' /\ Fits' /\ CallsOfRunning' /\ Blank'
           /\ HopeKept' /\ WithinContract'
<1> USE AdmissionAssumption
<1>a. TypeOK /\ UnsettledInWave /\ WavesOrdered /\ Fits /\ CallsOfRunning /\ Blank /\ HopeKept /\ UnderCeiling
      /\ Counted /\ WithinContract
  BY DEF IInv
<1>b. \A c \in Call : call'[c] = IF c[1] = s /\ c[2] > n /\ c[2] <= n + m THEN "asking" ELSE call[c]
  <2> SUFFICES ASSUME NEW c \in Call
               PROVE  call'[c] = IF c[1] = s /\ c[2] > n /\ c[2] <= n + m THEN "asking" ELSE call[c]
    OBVIOUS
  <2>1. c \in {<<s, i>> : i \in (n + 1)..(n + m)} <=> c[1] = s /\ c[2] > n /\ c[2] <= n + m
    <3>1. c = <<c[1], c[2]>> /\ c[2] \in Nat
      BY CallParts DEF Segment
    <3> QED BY <3>1
  <2> DEFINE X == {<<s, i>> : i \in (n + 1)..(n + m)}
  <2>2. call' = [d \in Call |-> IF d \in X THEN "asking" ELSE call[d]]
    BY DEF StartWave
  <2>3. c \in X <=> c[1] = s /\ c[2] > n /\ c[2] <= n + m
    BY <2>1
  <2> HIDE DEF X
  <2> QED BY <2>2, <2>3
<1>c. \A c \in Call : c[1] \in Source /\ c[2] \in Nat
  BY CallParts DEF Segment
<1>d. \A c \in Call : call'[c] # call[c] => c[1] = s /\ call[c] = "none" /\ call'[c] = "asking"
  BY <1>b
<1>e. DOMAIN call' = Call /\ call' = [c \in Call |-> call'[c]]
  BY DEF StartWave
<1>1. call' \in [Call -> {"none", "asking", "queued", "struck"} \cup Holding \cup Settled]
  <2>1. \A c \in Call : call'[c] \in {"none", "asking", "queued", "struck"} \cup Holding \cup Settled
    BY <1>a, <1>d DEF TypeOK
  <2> QED BY <1>e, <2>1
<1>2. Counted' /\ WithinContract'
  <2>1. Held' = Held /\ \A t \in Task : InFlight(t)' = InFlight(t)
    BY <1>d DEF Held, InFlight, Holding
  <2> QED BY <1>a, <2>1 DEF Counted, WithinContract, pool
<1>3. UnderCeiling' /\ CallsOfRunning'
  BY <1>a, <1>d DEF UnderCeiling, CallsOfRunning, Holding, pool, tasks
<1>4. UnsettledInWave'
  <2> SUFFICES ASSUME NEW c \in Call, call'[c] \in Unsettled PROVE source'[c[1]] = "open" /\ InWave(c)'
    BY DEF UnsettledInWave
  <2>1. CASE c[1] = s
    BY <1>b, <1>c, <2>1 DEF InWave, Unsettled
  <2>2. CASE c[1] # s
    BY <1>a, <1>b, <1>c, <2>2 DEF UnsettledInWave, InWave
  <2> QED BY <2>1, <2>2
<1>5. WavesOrdered'
  <2> SUFFICES ASSUME NEW c \in Call
               PROVE  /\ c[2] <= cursor'[c[1]] => call'[c] = "ok"
                      /\ c[2] > cursor'[c[1]] + width'[c[1]] => call'[c] = "none"
    BY DEF WavesOrdered
  <2>1. CASE c[1] = s
    BY <1>b, <1>c, <2>1
  <2>2. CASE c[1] # s
    BY <1>a, <1>b, <1>c, <2>2 DEF WavesOrdered
  <2> QED BY <2>1, <2>2
<1>6. Fits'
  BY <1>a DEF Fits
<1>7. Blank'
  <2> SUFFICES ASSUME NEW r \in Source, source'[r] = "waiting" \/ place'[TaskOf[r]] # "running"
               PROVE  cursor'[r] = 0 /\ \A c \in Call : c[1] = r => call'[c] = "none"
    BY DEF Blank
  <2>1. r # s
    BY DEF tasks
  <2> QED BY <1>a, <1>b, <2>1 DEF Blank, tasks
<1>8. HopeKept'
  <2> SUFFICES ASSUME NEW r \in Source, r # s, Hopeful(r)'
               PROVE  source'[r] \in {"open", "retryable"} \/ (source'[r] = "cancelled" /\ TaskOf[r] \in cancel')
    BY DEF HopeKept
  <2>1. \A i \in Segment(r) : call'[<<r, i>>] = call[<<r, i>>]
    BY <1>b, CallParts
  <2>2. Hopeful(r)
    BY <2>1 DEF Hopeful
  <2> QED BY <1>a, <2>2 DEF HopeKept, tasks
<1> QED BY <1>1, <1>2, <1>3, <1>4, <1>5, <1>6, <1>7, <1>8

LEMMA OpenStep == ASSUME IInv, NEW s \in Source, OpenSource(s) PROVE IInv'
<1> USE AdmissionAssumption
<1>a. TypeOK /\ OneHolder /\ Blank
  BY DEF IInv
<1>b. /\ place[TaskOf[s]] = "running" /\ source[s] = "waiting"
      /\ UNCHANGED <<control, pool, cooling, tasks, cursor, width>>
  BY DEF OpenSource
<1>c. cursor[s] = 0 /\ \A c \in Call : c[1] = s => call[c] = "none"
  BY <1>a, <1>b DEF Blank
<1>d. \A c \in Call : c[1] \in Source /\ c[2] \in Nat /\ c[2] > 0
  BY CallParts DEF Segment
<1>e. source' \in [Source -> {"waiting", "open", "processed"} \cup Failure]
  BY <1>a DEF OpenSource, TypeOK, Failure
<1>1. OneHolder'
  BY <1>a, <1>b DEF OneHolder, pool, tasks
<1>2. CASE Cancelled(s) /\ source' = [source EXCEPT ![s] = "cancelled"] /\ UNCHANGED call
  <2>1. TypeOK'
    BY <1>a, <1>b, <1>e, <1>2 DEF TypeOK, control, pool, tasks
  <2>2. Counted' /\ WithinContract' /\ UnderCeiling'
    BY <1>b, <1>2 DEF IInv, Counted, Held, WithinContract, InFlight, UnderCeiling, pool
  <2>3. UnsettledInWave' /\ WavesOrdered' /\ Fits' /\ CallsOfRunning'
    BY <1>a, <1>b, <1>c, <1>d, <1>2 DEF IInv, UnsettledInWave, InWave, WavesOrdered, Fits, CallsOfRunning, Unsettled,
                                        TypeOK, tasks
  <2>4. Blank'
    BY <1>a, <1>b, <1>c, <1>2 DEF Blank, TypeOK, tasks
  <2>5. HopeKept'
    BY <1>a, <1>b, <1>2 DEF IInv, HopeKept, Hopeful, Cancelled, TypeOK, tasks
  <2> QED BY <1>1, <2>1, <2>2, <2>3, <2>4, <2>5 DEF IInv
<1>3. CASE ~Cancelled(s) /\ source' = [source EXCEPT ![s] = "open"] /\ StartWave(s, 0, width[s])
  <2>1. source'[s] = "open" /\ \A r \in Source : r # s => source'[r] = source[r]
    BY <1>a, <1>3 DEF TypeOK
  <2>2. width[s] \in Nat /\ 0 + width[s] <= Segments[s]
    BY <1>a, <1>c DEF IInv, Fits, TypeOK
  <2>3. \A c \in Call : c[1] = s => (c[2] <= 0 => call[c] = "ok") /\ (c[2] > 0 => call[c] = "none")
    BY <1>c, <1>d
  <2>4. /\ call' \in [Call -> {"none", "asking", "queued", "struck"} \cup Holding \cup Settled]
        /\ Counted' /\ UnderCeiling' /\ UnsettledInWave' /\ WavesOrdered' /\ Fits' /\ CallsOfRunning' /\ Blank'
        /\ HopeKept' /\ WithinContract'
    <3>1. source[s] \in {"waiting", "open"} /\ source'[s] = "open" /\ place[TaskOf[s]] = "running"
      BY <1>b, <2>1
    <3>2. 0 \in Nat /\ cursor'[s] = 0 /\ width'[s] = width[s] /\ StartWave(s, 0, width[s])
      BY <1>b, <1>c, <1>3
    <3>3. \A r \in Source : r # s => cursor'[r] = cursor[r] /\ width'[r] = width[r] /\ source'[r] = source[r]
      BY <1>b, <2>1
    <3>4. UNCHANGED <<pool, tasks>>
      BY <1>b
    <3> QED BY <2>2, <2>3, <3>1, <3>2, <3>3, <3>4, WaveStarts
  <2>5. TypeOK'
    BY <1>a, <1>b, <1>e, <2>4 DEF TypeOK, control, pool, tasks
  <2> QED BY <1>1, <2>4, <2>5 DEF IInv
<1> QED BY <1>2, <1>3 DEF OpenSource

(* The calls of a wave at its end.                                         *)
LEMMA EndedWave ==
    ASSUME IInv, NEW s \in Source, \A c \in Wave(s) : call[c] \in Settled
    PROVE  /\ \A c \in Call : c \in Wave(s) <=> c[1] = s /\ InWave(c)
           /\ \A c \in Call : c[1] = s => call[c] \notin Unsettled
<1>1. \A c \in Call : c \in Wave(s) <=> c[1] = s /\ InWave(c)
  <2>1. cursor[s] \in Nat /\ width[s] \in Nat
    BY DEF IInv, TypeOK
  <2> QED BY <2>1, WaveIs DEF Wave, InWave
<1>2. ASSUME NEW c \in Call, c[1] = s, call[c] \in Unsettled PROVE FALSE
  <2>1. c \in Wave(s)
    BY <1>1, <1>2 DEF IInv, UnsettledInWave
  <2> QED BY <1>2, <2>1 DEF Unsettled, Settled, Failure
<1> QED BY <1>1, <1>2

(* What a failed wave makes of its source is a failure; a retryable one    *)
(* when there was one, none was final and nobody cancelled.                *)
LEMMA FailedWave ==
    ASSUME NEW s \in Source, NEW bad \in SUBSET Failure, NEW o \in Outcomes(s, bad)
    PROVE  /\ o \in Failure
           /\ "retryable" \in bad /\ "fatal" \notin bad =>
                o = "retryable" \/ (o = "cancelled" /\ TaskOf[s] \in cancel)
<1>1. CASE Cancelled(s)
  BY <1>1 DEF Outcomes, ModelFailures, Failure, Cancelled
<1>2. CASE ~Cancelled(s)
  BY <1>2 DEF Outcomes, ModelFailures, Failure, Cancelled
<1> QED BY <1>1, <1>2

LEMMA NextFits ==
    ASSUME IInv, NEW s \in Source
    PROVE  NextWidth(s) \in Nat /\ cursor[s] + width[s] + NextWidth(s) <= Segments[s]
<1> USE AdmissionAssumption
<1> DEFINE a == width[s] + 1
           b == Limit[TaskOf[s]]
           c == Segments[s] - cursor[s] - width[s]
           m == Min({a, b, c})
<1>1. cursor[s] \in Nat /\ width[s] \in Nat /\ cursor[s] + width[s] <= Segments[s] /\ Segments[s] \in Nat
      /\ TaskOf[s] \in Task
  BY DEF IInv, TypeOK, Fits
<1>2. a \in Nat /\ b \in Nat /\ c \in Nat
  BY <1>1
<1>3. a \in Int /\ b \in Int /\ c \in Int
  BY <1>2
<1>4. NextWidth(s) = m
  BY DEF NextWidth
<1>5. cursor[s] + width[s] + c = Segments[s]
  BY <1>1
<1> HIDE DEF a, b, c
<1>6. m \in {a, b, c} /\ m <= c
  BY <1>3, ThreeMin, Zenon
<1> HIDE DEF m
<1> QED BY <1>1, <1>2, <1>4, <1>5, <1>6

LEMMA WaveStep == ASSUME IInv, NEW s \in Source, EndWave(s) PROVE IInv'
<1> USE AdmissionAssumption
<1> DEFINE bad == {call[c] : c \in Wave(s)} \ {"ok"}
           behind == cursor[s] + width[s]
<1>a. TypeOK /\ OneHolder /\ UnsettledInWave /\ WavesOrdered /\ Fits /\ CallsOfRunning /\ Blank /\ HopeKept
  BY DEF IInv
<1>b. /\ source[s] = "open" /\ \A c \in Wave(s) : call[c] \in Settled
      /\ UNCHANGED <<control, pool, cooling, tasks>>
  BY DEF EndWave
<1>c. \A c \in Call : (c \in Wave(s) <=> c[1] = s /\ InWave(c)) /\ (c[1] = s => call[c] \notin Unsettled)
  BY <1>b, EndedWave
<1>d. \A c \in Call : c[1] \in Source /\ c[2] \in Nat /\ c[2] > 0 /\ c[2] <= Segments[c[1]]
  BY CallParts DEF Segment
<1>e. cursor[s] \in Nat /\ width[s] \in Nat /\ behind \in Nat /\ Segments[s] \in Nat
  BY <1>a DEF TypeOK
<1>f. place[TaskOf[s]] = "running"
  BY <1>a, <1>b DEF CallsOfRunning
<1>1. OneHolder'
  BY <1>a, <1>b DEF OneHolder, pool, tasks
<1>2. ASSUME NEW o \in Outcomes(s, bad), source' = [source EXCEPT ![s] = o], UNCHANGED <<cursor, width, call>>
      PROVE  IInv'
  <2>1. bad \in SUBSET Failure
    BY <1>b DEF Settled
  <2>2. o \in Failure /\ ("retryable" \in bad /\ "fatal" \notin bad =>
          o = "retryable" \/ (o = "cancelled" /\ TaskOf[s] \in cancel))
    BY <2>1, <1>2, FailedWave
  <2>3. TypeOK'
    BY <1>a, <1>b, <1>2, <2>2 DEF TypeOK, control, pool, tasks
  <2>4. Counted' /\ WithinContract' /\ UnderCeiling'
    BY <1>b, <1>2 DEF IInv, Counted, Held, WithinContract, InFlight, UnderCeiling, pool
  <2>5. UnsettledInWave' /\ WavesOrdered' /\ Fits' /\ CallsOfRunning'
    BY <1>a, <1>b, <1>c, <1>2 DEF UnsettledInWave, InWave, WavesOrdered, Fits, CallsOfRunning, TypeOK, tasks
  <2>6. Blank'
    BY <1>a, <1>b, <1>2, <2>2, <1>f DEF Blank, TypeOK, tasks, Failure
  <2>7. HopeKept'
    <3> SUFFICES ASSUME NEW r \in Source, Hopeful(r)
                 PROVE  source'[r] \in {"open", "retryable"} \/ (source'[r] = "cancelled" /\ TaskOf[r] \in cancel')
      BY <1>2 DEF HopeKept, Hopeful
    <3>1. CASE r # s
      BY <1>a, <1>b, <1>2, <3>1 DEF HopeKept, TypeOK, tasks
    <3>2. CASE r = s
      <4>1. PICK i \in Segment(s) : call[<<s, i>>] = "retryable"
        BY <3>2 DEF Hopeful
      <4>2. <<s, i>> \in Wave(s)
        <5>1. <<s, i>> \in Call /\ <<s, i>>[1] = s /\ <<s, i>>[2] = i /\ i \in Nat
          BY CallParts DEF Segment
        <5>2. ~(i <= cursor[s]) /\ ~(i > cursor[s] + width[s])
          BY <1>a, <4>1, <5>1 DEF WavesOrdered
        <5> QED BY <1>c, <1>e, <5>1, <5>2 DEF InWave
      <4>3. "retryable" \in bad
        BY <4>1, <4>2
      <4>4. "fatal" \notin bad
        <5> SUFFICES ASSUME NEW c \in Wave(s), call[c] = "fatal" PROVE FALSE
          OBVIOUS
        <5>1. PICK j \in (cursor[s] + 1)..(cursor[s] + width[s]) : c = <<s, j>>
          BY DEF Wave
        <5>2. j \in Segment(s)
          BY <1>a, <1>e, <5>1 DEF Segment, Fits
        <5> QED BY <3>2, <5>1, <5>2 DEF Hopeful
      <4> QED BY <1>a, <1>b, <1>2, <2>2, <3>2, <4>3, <4>4 DEF TypeOK, tasks
    <3> QED BY <3>1, <3>2
  <2> QED BY <1>1, <2>3, <2>4, <2>5, <2>6, <2>7 DEF IInv
<1>3. ASSUME WaveSucceeds(bad),
             cursor' = [cursor EXCEPT ![s] = behind], width' = [width EXCEPT ![s] = NextWidth(s)],
             IF behind = Segments[s]
               THEN source' = [source EXCEPT ![s] = "processed"] /\ UNCHANGED call
               ELSE ~Cancelled(s) /\ StartWave(s, behind, NextWidth(s)) /\ UNCHANGED source
      PROVE  IInv'
  <2>1. \A c \in Call : c[1] = s => (c[2] <= behind => call[c] = "ok") /\ (c[2] > behind => call[c] = "none")
    <3>1. \A c \in Wave(s) : call[c] = "ok"
      BY <1>3 DEF WaveSucceeds
    <3> QED BY <1>a, <1>c, <1>d, <1>e, <3>1 DEF WavesOrdered, InWave
  <2>2. NextWidth(s) \in Nat /\ behind + NextWidth(s) <= Segments[s]
    BY NextFits
  <2>3. /\ cursor'[s] = behind /\ width'[s] = NextWidth(s)
        /\ \A r \in Source : r # s => cursor'[r] = cursor[r] /\ width'[r] = width[r]
        /\ cursor' \in [Source -> Nat] /\ width' \in [Source -> Nat]
    BY <1>a, <1>e, <1>3, <2>2 DEF TypeOK
  <2> HIDE DEF bad, behind
  <2>4. CASE behind = Segments[s]
    <3>1. source' = [source EXCEPT ![s] = "processed"] /\ UNCHANGED call
      BY <1>3, <2>4
    <3>2. TypeOK'
      BY <1>a, <1>b, <2>3, <3>1 DEF TypeOK, control, pool, tasks
    <3>3. Counted' /\ WithinContract' /\ UnderCeiling'
      BY <1>b, <3>1 DEF IInv, Counted, Held, WithinContract, InFlight, UnderCeiling, pool
    <3>4. UnsettledInWave' /\ CallsOfRunning'
      BY <1>a, <1>b, <1>c, <1>d, <2>3, <3>1 DEF UnsettledInWave, InWave, CallsOfRunning, TypeOK, tasks
    <3>5. WavesOrdered'
      <4> SUFFICES ASSUME NEW c \in Call
                   PROVE  /\ c[2] <= cursor'[c[1]] => call[c] = "ok"
                          /\ c[2] > cursor'[c[1]] + width'[c[1]] => call[c] = "none"
        BY <3>1 DEF WavesOrdered
      <4>1. CASE c[1] = s
        BY <1>d, <1>e, <2>1, <2>2, <2>3, <4>1
      <4>2. CASE c[1] # s
        BY <1>a, <1>d, <2>3, <4>2 DEF WavesOrdered
      <4> QED BY <4>1, <4>2
    <3>6. Fits' /\ Blank'
      BY <1>a, <1>b, <1>f, <2>2, <2>3, <3>1 DEF Fits, Blank, TypeOK, tasks
    <3>7. HopeKept'
      <4> SUFFICES ASSUME NEW r \in Source, Hopeful(r)
                   PROVE  source'[r] \in {"open", "retryable"} \/ (source'[r] = "cancelled" /\ TaskOf[r] \in cancel')
        BY <3>1 DEF HopeKept, Hopeful
      <4>1. r # s
        <5> SUFFICES ASSUME NEW i \in Segment(s), call[<<s, i>>] = "retryable" PROVE FALSE
          BY DEF Hopeful
        <5>1. <<s, i>> \in Call /\ <<s, i>>[2] \in Nat
          BY <1>d, CallParts
        <5> QED BY <1>e, <2>1, <5>1
      <4> QED BY <1>a, <1>b, <3>1, <4>1 DEF HopeKept, TypeOK, tasks
    <3> QED BY <1>1, <3>2, <3>3, <3>4, <3>5, <3>6, <3>7 DEF IInv
  <2>5. CASE behind # Segments[s]
    <3>1. StartWave(s, behind, NextWidth(s)) /\ UNCHANGED source
      BY <1>3, <2>5
    <3>2. source[s] \in {"waiting", "open"} /\ source'[s] = "open"
      BY <1>b, <3>1
    <3>3. /\ call' \in [Call -> {"none", "asking", "queued", "struck"} \cup Holding \cup Settled]
          /\ Counted' /\ UnderCeiling' /\ UnsettledInWave' /\ WavesOrdered' /\ Fits' /\ CallsOfRunning' /\ Blank'
          /\ HopeKept' /\ WithinContract'
      <4>1. \A r \in Source : r # s => cursor'[r] = cursor[r] /\ width'[r] = width[r] /\ source'[r] = source[r]
        BY <2>3, <3>1
      <4>2. UNCHANGED <<pool, tasks>>
        BY <1>b
      <4> QED BY <1>e, <1>f, <2>1, <2>2, <2>3, <3>1, <3>2, <4>1, <4>2, WaveStarts
    <3>4. TypeOK'
      BY <1>a, <1>b, <2>3, <3>1, <3>3 DEF TypeOK, control, pool, tasks
    <3> QED BY <1>1, <3>3, <3>4 DEF IInv
  <2> QED BY <2>4, <2>5
<1> QED BY <1>2, <1>3 DEF EndWave

-----------------------------------------------------------------------------
(* The end of an attempt finds no call of its task under way.              *)
LEMMA FinishStep == ASSUME IInv, NEW t \in Task, Finish(t) PROVE IInv'
<1> USE AdmissionAssumption
<1>a. TypeOK /\ OneHolder /\ UnsettledInWave /\ WavesOrdered /\ Fits /\ CallsOfRunning /\ Blank /\ HopeKept
      /\ Counted /\ WithinContract /\ UnderCeiling
  BY DEF IInv
<1>b. /\ place[t] = "running" /\ Ended(t)
      /\ state' = [state EXCEPT ![t] = Outcome(t)] /\ place' = [place EXCEPT ![t] = "idle"]
      /\ holder' = Released(t) /\ slots' = [slots EXCEPT ![t] = 0] /\ noted' \subseteq noted
      /\ UNCHANGED <<paused, limit, active, cooling, attempts, cancel, source>>
  BY DEF Finish, Leave
<1>c. \A c \in Call : call'[c] = IF TaskOf[c[1]] = t THEN "none" ELSE call[c]
  BY DEF Finish
<1>d. \A c \in Call : TaskOf[c[1]] = t => call[c] \notin Unsettled
  BY <1>a, <1>b, CallParts DEF UnsettledInWave, Ended, Sources
<1>e. \A s \in Source : IF TaskOf[s] = t THEN cursor'[s] = 0 /\ width'[s] = FirstWave(s)
                                         ELSE cursor'[s] = cursor[s] /\ width'[s] = width[s]
  BY DEF Finish
<1>f. \A c \in Call : c[1] \in Source /\ c[2] \in Nat /\ c[2] > 0 /\ TaskOf[c[1]] \in Task
  BY CallParts DEF Segment
<1>1. TypeOK'
  <2>1. Outcome(t) \in {"cancelled", "completed", "partially_failed"}
    BY DEF Outcome
  <2>2. holder' \in [Key -> Task \cup {Nobody}]
    BY <1>a, <1>b DEF Released, TypeOK
  <2>3. call' \in [Call -> {"none", "asking", "queued", "struck"} \cup Holding \cup Settled]
    BY <1>a DEF Finish, TypeOK
  <2>4. cursor' \in [Source -> Nat] /\ width' \in [Source -> Nat]
    BY <1>a, FirstFits DEF Finish, TypeOK
  <2> QED BY <1>a, <1>b, <2>1, <2>2, <2>3, <2>4 DEF TypeOK
<1>2. OneHolder'
  <2>1. Outcome(t) # "running"
    BY DEF Outcome
  <2> QED BY <1>a, <1>b, <2>1, TwoKeys DEF OneHolder, Released, TypeOK
<1>3. Counted' /\ WithinContract'
  <2>1. \A c \in Call : call'[c] \in Holding <=> call[c] \in Holding
    BY <1>c, <1>d DEF Unsettled, Holding
  <2>2. Held' = Held /\ \A u \in Task : InFlight(u)' = InFlight(u)
    BY <2>1 DEF Held, InFlight
  <2> QED BY <1>a, <1>b, <2>2 DEF Counted, WithinContract
<1>4. UnderCeiling'
  BY <1>a, <1>b, <1>c DEF UnderCeiling, Holding
<1>5. UnsettledInWave'
  BY <1>a, <1>b, <1>c, <1>e, <1>f DEF UnsettledInWave, InWave, Unsettled
<1>6. WavesOrdered'
  BY <1>a, <1>c, <1>e, <1>f DEF WavesOrdered
<1>7. Fits'
  BY <1>a, <1>e, FirstFits DEF Fits
<1>8. CallsOfRunning' /\ Blank'
  BY <1>a, <1>b, <1>c, <1>e, <1>f DEF CallsOfRunning, Blank, Ended, Sources, TypeOK
<1>9. HopeKept'
  <2> SUFFICES ASSUME NEW s \in Source, Hopeful(s)'
               PROVE  source[s] \in {"open", "retryable"} \/ (source[s] = "cancelled" /\ TaskOf[s] \in cancel)
    BY <1>b DEF HopeKept
  <2>1. TaskOf[s] # t
    BY <1>c, CallParts DEF Hopeful
  <2>2. \A i \in Segment(s) : call'[<<s, i>>] = call[<<s, i>>]
    BY <1>c, <2>1, CallParts
  <2>3. Hopeful(s)
    BY <2>2 DEF Hopeful
  <2> QED BY <1>a, <2>3 DEF HopeKept
<1> QED BY <1>1, <1>2, <1>3, <1>4, <1>5, <1>6, <1>7, <1>8, <1>9 DEF IInv

LEMMA NextInv == IInv /\ [Next]_vars => IInv'
<1> SUFFICES ASSUME IInv, [Next]_vars PROVE IInv'
  OBVIOUS
<1>1. ASSUME NEW t \in Task, Execute(t) \/ AttemptStep(t) \/ RequestCancel(t) \/ AdmitRecovery(t) PROVE IInv'
  BY <1>1, TaskStep, ClaimStep, FinishStep DEF AttemptStep, OnTheWayIn
<1>2. ASSUME NEW s \in Source, SourceStep(s) PROVE IInv'
  BY <1>2, OpenStep, WaveStep DEF SourceStep
<1>3. ASSUME NEW c \in Call, CallStep(c) PROVE IInv'
  BY <1>3, AskStep, EnterStep, PermitStep DEF CallStep
<1> QED BY <1>1, <1>2, <1>3, OutsideStep DEF Next

LEMMA Invariant == Spec => []IInv
BY InitInv, NextInv, PTL DEF Spec

-----------------------------------------------------------------------------
(* Attempts, sources, requests and the pool keep their types.              *)
THEOREM TypeCorrect == Spec => []TypeOK
<1>1. IInv => TypeOK
  BY DEF IInv
<1> QED BY <1>1, Invariant, PTL

(* The requests in flight for a task never exceed the ceiling of its       *)
(* execution contract.                                                     *)
THEOREM ContractKept == Spec => []WithinContract
<1>1. IInv => WithinContract
  BY DEF IInv
<1> QED BY <1>1, Invariant, PTL

(* Permits and reservations are neither lost nor given back twice.         *)
THEOREM PermitsNeverDrift == Spec => []PermitsExact
<1>1. IInv => PermitsExact
  <2> SUFFICES ASSUME IInv PROVE PermitsExact
    OBVIOUS
  <2>1. \A c \in Call : ~Reserved(c)
    BY AdmissionAssumption, CallParts DEF IInv, OneHolder, Reserved
  <2>2. {c \in Call : call[c] \in Holding /\ ~Reserved(c)} = Held
    BY <2>1 DEF Held
  <2> QED BY <2>2 DEF IInv, Counted, OneHolder, PermitsExact
<1> QED BY <1>1, Invariant, PTL

(* A wave starts only behind waves all of whose requests succeeded.        *)
THEOREM WavesDisciplined == Spec => []WaveDiscipline
<1>1. IInv => WaveDiscipline
  <2> SUFFICES ASSUME IInv, NEW s \in Source, NEW i \in Segment(s)
               PROVE  /\ i <= cursor[s] => call[<<s, i>>] = "ok"
                      /\ i > cursor[s] + width[s] => call[<<s, i>>] = "none"
    BY DEF WaveDiscipline
  <2>1. <<s, i>> \in Call /\ <<s, i>>[1] = s /\ <<s, i>>[2] = i
    BY CallParts
  <2> QED BY <2>1 DEF IInv, WavesOrdered
<1> QED BY <1>1, Invariant, PTL

(* A retryable failure keeps its task recoverable, unless a neighbour in   *)
(* its source failed for good.                                             *)
THEOREM RetryableNeverHidden == Spec => RetryableStaysRecoverable
<1> DEFINE Keeps(s) == LET t == TaskOf[s]
                       IN  Hopeful(s) /\ place[t] = "running" /\ state'[t] = "partially_failed" => Recoverable(t)'
<1>1. IInv /\ [Next]_vars => [\A s \in Source : Keeps(s)]_vars
  <2> SUFFICES ASSUME IInv, Next, NEW s \in Source, Hopeful(s), place[TaskOf[s]] = "running",
                      state'[TaskOf[s]] = "partially_failed"
               PROVE  Recoverable(TaskOf[s])'
    OBVIOUS
  <2> USE AdmissionAssumption
  <2>1. state[TaskOf[s]] = "running" /\ TaskOf[s] \in Task
    BY DEF IInv, OneHolder
  <2>2. Finish(TaskOf[s])
    <3>1. ASSUME NEW t \in Task, RequestCancel(t) \/ AdmitRecovery(t) \/ Execute(t) \/ AttemptStep(t), ~Finish(TaskOf[s])
          PROVE  state'[TaskOf[s]] # "partially_failed"
      <4>1. CASE Finish(t)
        BY <2>1, <3>1, <4>1 DEF Finish, IInv, TypeOK
      <4> QED BY <2>1, <3>1, <4>1 DEF RequestCancel, AdmitRecovery, AttemptStep, Execute, Reserve, Admit, Claim, Conflict, GiveUp, IInv, TypeOK
    <3>2. ASSUME NEW r \in Source, SourceStep(r) PROVE UNCHANGED state
      BY <3>2 DEF SourceStep, OpenSource, EndWave, tasks
    <3>3. ASSUME NEW c \in Call, CallStep(c) PROVE UNCHANGED state
      BY <3>3 DEF CallStep, AskCall, EnterCall, AdmitCall, Answer, ImposeCooldown, tasks
    <3>4. ASSUME SetPaused \/ \E k \in Key : CooldownEnds(k) PROVE UNCHANGED state
      BY <3>4 DEF SetPaused, CooldownEnds, tasks
    <3> QED BY <2>1, <3>1, <3>2, <3>3, <3>4 DEF Next
  <2>3. source' = source /\ source[s] # "open" /\ Outcome(TaskOf[s]) = "partially_failed"
    BY <2>1, <2>2 DEF Finish, Ended, Sources, IInv, TypeOK
  <2>4. TaskOf[s] \notin cancel
    BY <2>3 DEF Outcome
  <2>5. source'[s] = "retryable"
    BY <2>3, <2>4 DEF IInv, HopeKept
  <2> QED BY <2>5 DEF Recoverable, Sources, Retryable
<1> QED BY <1>1, Invariant, PTL DEF Spec, RetryableStaysRecoverable

-----------------------------------------------------------------------------
(* An attempt on its way to the claim is queued still, or cancelled: what  *)
(* makes the claim the first of its attempt.                               *)
OnTheWay == \A t \in Task : place[t] \in {"waiting", "reserved", "admitted"} /\ t \notin cancel => state[t] = "queued"

(* The steps that leave tasks and attempts alone.                          *)
LEMMA OtherSteps ==
    ASSUME \/ SetPaused \/ (\E k \in Key : CooldownEnds(k)) \/ UNCHANGED vars
           \/ (\E s \in Source : SourceStep(s)) \/ (\E c \in Call : CallStep(c))
    PROVE  UNCHANGED tasks
<1>1. ASSUME NEW s \in Source, SourceStep(s) PROVE UNCHANGED tasks
  BY <1>1 DEF SourceStep, OpenSource, EndWave
<1>2. ASSUME NEW c \in Call, CallStep(c) PROVE UNCHANGED tasks
  BY <1>2 DEF CallStep, AskCall, EnterCall, AdmitCall, Answer, ImposeCooldown
<1> QED BY <1>1, <1>2 DEF SetPaused, CooldownEnds, vars

LEMMA OnTheWayKept == IInv /\ OnTheWay /\ [Next]_vars => OnTheWay'
<1> SUFFICES ASSUME IInv, OnTheWay, [Next]_vars PROVE OnTheWay'
  OBVIOUS
<1>a. TypeOK
  BY DEF IInv
<1>1. ASSUME NEW t \in Task, Execute(t) \/ AttemptStep(t) PROVE OnTheWay'
  <2>1. CASE OnTheWayIn(t)
    BY <1>a, <2>1 DEF OnTheWayIn, Execute, Reserve, Admit, Conflict, GiveUp, Leave, OnTheWay, TypeOK
  <2>2. CASE Claim(t) \/ Finish(t)
    BY <1>a, <2>2 DEF Claim, Finish, Leave, OnTheWay, TypeOK
  <2> QED BY <1>1, <2>1, <2>2 DEF AttemptStep, OnTheWayIn
<1>2. ASSUME NEW t \in Task, RequestCancel(t) \/ AdmitRecovery(t) PROVE OnTheWay'
  BY <1>a, <1>2 DEF RequestCancel, AdmitRecovery, OnTheWay, TypeOK
<1>3. ASSUME UNCHANGED tasks PROVE OnTheWay'
  BY <1>3 DEF OnTheWay, tasks
<1> QED BY <1>1, <1>2, <1>3, OtherSteps DEF Next

(* Each step is one of the contract of attempts, or none.                  *)
LEMMA StepIsOfLifecycle == IInv /\ OnTheWay /\ [Next]_vars => [Lifecycle!Next]_(Lifecycle!vars)
<1> DEFINE states == [t \in Task |-> StateOf(t)]
<1> SUFFICES ASSUME IInv, OnTheWay, [Next]_vars PROVE Lifecycle!Next \/ UNCHANGED <<states, attempts, Working>>
  BY DEF Lifecycle!vars
<1>a. TypeOK /\ OneHolder
  BY DEF IInv
<1>1. ASSUME NEW t \in Task, OnTheWayIn(t) PROVE UNCHANGED <<states, attempts, Working>>
  BY <1>a, <1>1 DEF OnTheWayIn, Execute, Reserve, Admit, Conflict, GiveUp, Leave, StateOf, Working, TypeOK
<1>2. ASSUME NEW t \in Task, Claim(t) PROVE Lifecycle!Next
  <2>1. state[t] = "queued" /\ place[t] # "running"
    BY <1>2 DEF Claim, Claimable, OnTheWay
  <2>2. states[t] = "queued" /\ \A r \in Working : r.by # t
    BY <2>1 DEF StateOf, Working
  <2>3. states' = [states EXCEPT ![t] = "running"] /\ UNCHANGED attempts
    BY <1>a, <1>2 DEF Claim, StateOf, TypeOK
  <2>4. Working' = Working \cup {[by |-> t, task |-> t, attempt |-> attempts[t]]}
    BY <1>a, <1>2 DEF Claim, Working, TypeOK
  <2>5. Lifecycle!Claim(t, t)
    BY <2>2, <2>3, <2>4 DEF Lifecycle!Claim, Lifecycle!Become
  <2> QED BY <2>5 DEF Lifecycle!Next
<1>3. ASSUME NEW t \in Task, Finish(t) PROVE Lifecycle!Next
  <2> DEFINE r == [by |-> t, task |-> t, attempt |-> attempts[t]]
  <2>1. state[t] = "running" /\ Outcome(t) \notin {"queued", "running"}
    BY <1>a, <1>3 DEF Finish, OneHolder, Outcome
  <2>2. r \in Working /\ states[t] = "running"
    BY <1>3, <2>1 DEF Finish, Working, StateOf
  <2>3. states' = [states EXCEPT ![t] = "over"] /\ UNCHANGED attempts
    BY <1>a, <1>3, <2>1 DEF Finish, Leave, StateOf, TypeOK
  <2>4. Working' = Working \ {r}
    BY <1>a, <1>3 DEF Finish, Leave, Working, TypeOK
  <2>5. Lifecycle!Settle(r)
    BY <2>2, <2>3, <2>4 DEF Lifecycle!Settle, Lifecycle!Become, Lifecycle!Current
  <2> QED BY <2>2, <2>5 DEF Lifecycle!Next
<1>4. ASSUME NEW t \in Task, RequestCancel(t) PROVE Lifecycle!Next \/ UNCHANGED <<states, attempts, Working>>
  <2>1. UNCHANGED <<attempts, Working>>
    BY <1>4 DEF RequestCancel, Working
  <2>2. CASE state[t] = "queued"
    <3>1. states[t] = "queued" /\ states' = [states EXCEPT ![t] = "over"]
      BY <1>a, <1>4, <2>2 DEF RequestCancel, StateOf, TypeOK
    <3>2. Lifecycle!Withdraw(t)
      BY <2>1, <3>1 DEF Lifecycle!Withdraw, Lifecycle!Become
    <3> QED BY <3>2 DEF Lifecycle!Next
  <2>3. CASE state[t] = "running"
    BY <1>a, <1>4, <2>1, <2>3 DEF RequestCancel, StateOf, TypeOK
  <2> QED BY <1>4, <2>2, <2>3 DEF RequestCancel
<1>5. ASSUME NEW t \in Task, AdmitRecovery(t) PROVE Lifecycle!Next
  <2>1. states[t] = "over" /\ states' = [states EXCEPT ![t] = "queued"]
    BY <1>a, <1>5 DEF AdmitRecovery, Recoverable, StateOf, TypeOK
  <2>2. attempts' = [attempts EXCEPT ![t] = attempts[t] + 1]
    BY <1>5 DEF AdmitRecovery
  <2>3. place[t] # "running"
    BY <1>a, <1>5 DEF AdmitRecovery, Recoverable, OneHolder
  <2>4. UNCHANGED Working
    BY <1>a, <1>5, <2>3 DEF AdmitRecovery, Working, TypeOK
  <2>5. Lifecycle!Open(t)
    BY <2>1, <2>2, <2>4 DEF Lifecycle!Open, Lifecycle!Become
  <2> QED BY <2>5 DEF Lifecycle!Next
<1>6. ASSUME UNCHANGED tasks PROVE UNCHANGED <<states, attempts, Working>>
  BY <1>6 DEF tasks, StateOf, Working
<1>7. ASSUME NEW t \in Task, Execute(t) \/ AttemptStep(t)
      PROVE  Lifecycle!Next \/ UNCHANGED <<states, attempts, Working>>
  BY <1>1, <1>2, <1>3, <1>7 DEF AttemptStep, OnTheWayIn
<1>8. \/ \E t \in Task : Execute(t) \/ AttemptStep(t) \/ RequestCancel(t) \/ AdmitRecovery(t)
      \/ UNCHANGED tasks
  BY OtherSteps DEF Next
<1> HIDE DEF states
<1> QED BY <1>4, <1>5, <1>6, <1>7, <1>8

(* From its admission to its end an attempt is within the contract of      *)
(* attempts: it is claimed once, while it is queued, and settled while it  *)
(* is the current one.                                                     *)
THEOREM KeepsLifecycle == Spec => LifecycleSpec
<1>1. Init => OnTheWay
  BY DEF Init, OnTheWay
<1>2. Init => Lifecycle!Init
  BY DEF Init, StateOf, Working, Lifecycle!Init
<1> QED BY Invariant, OnTheWayKept, StepIsOfLifecycle, <1>1, <1>2, PTL DEF Spec, LifecycleSpec, Lifecycle!Spec

-----------------------------------------------------------------------------
(* What the progress of attempts rests on: the key of the reservation has  *)
(* no permits of its own and never cools, who waits for a permit has set a *)
(* limit that lets one through, and every request of an open wave has been *)
(* made.                                                                   *)
KeyApart == active[AdmissionKey] = 0 /\ AdmissionKey \notin cooling
LimitSet == \A c \in Call : call[c] \in {"queued"} \cup Holding => limit[CallKey] # 0
WaveAsked == \A c \in Call : source[c[1]] = "open" /\ InWave(c) => call[c] # "none"
GoInv == KeyApart /\ LimitSet /\ WaveAsked

LEMMA GoInit == Init => GoInv
<1> SUFFICES ASSUME Init PROVE GoInv
  OBVIOUS
<1>1. KeyApart
  BY TwoKeys DEF Init, KeyApart
<1>2. \A c \in Call : call[c] = "none" /\ source[c[1]] # "open"
  BY CallParts DEF Init
<1> QED BY <1>1, <1>2 DEF GoInv, LimitSet, WaveAsked, Holding

(* What a request's step leaves alone.                                     *)
LEMMA CallChange ==
    ASSUME IInv, NEW c \in Call, CallStep(c)
    PROVE  /\ UNCHANGED <<waves, tasks>>
           /\ \E st \in Unsettled \cup Settled :
                /\ call' = [call EXCEPT ![c] = st]
                /\ call[c] # "queued" /\ st = "queued" => limit'[CallKey] # 0
                /\ call[c] \notin {"queued"} \cup Holding => st \notin Holding
           /\ active'[AdmissionKey] = active[AdmissionKey]
           /\ cooling' \subseteq cooling \cup {CallKey}
           /\ limit[CallKey] # 0 => limit'[CallKey] # 0
<1> USE AdmissionAssumption
<1>a. TypeOK /\ TaskOf[c[1]] \in Task
  BY CallParts DEF IInv
<1>b. Limit[TaskOf[c[1]]] # 0
  BY <1>a
<1>c. active \in [Key -> Nat] /\ limit \in [Key -> Nat]
  BY <1>a DEF TypeOK
<1>1. CASE AskCall(c)
  <2>1. LimitAfter(CallKey, Limit[TaskOf[c[1]]]) # 0
    BY <1>b DEF LimitAfter
  <2>2. \/ limit' = limit /\ (Become(c, "cancelled") \/ Become(c, "limited"))
        \/ /\ ~Reserved(c) /\ Become(c, "queued")
           /\ limit' = [limit EXCEPT ![CallKey] = LimitAfter(CallKey, Limit[TaskOf[c[1]]])]
    <3>1. ~Reserved(c)
      BY <1>a DEF IInv, OneHolder, Reserved
    <3> QED BY <1>1, <3>1 DEF AskCall
  <2>3. limit[CallKey] # 0 => limit'[CallKey] # 0
    BY <1>c, <2>1, <2>2, TwoKeys
  <2>4. Become(c, "queued") => limit'[CallKey] # 0
    BY <1>a, <1>c, <2>1, <2>2, TwoKeys DEF Become, TypeOK
  <2>5. UNCHANGED <<waves, tasks, active, cooling>> /\ call[c] = "asking"
    BY <1>1 DEF AskCall
  <2> QED BY <2>2, <2>3, <2>4, <2>5 DEF Become, Unsettled, Settled, Failure, Holding
<1>2. CASE EnterCall(c)
  <2>1. Taken(c)[AdmissionKey] = active[AdmissionKey]
    BY <1>c, TwoKeys DEF Taken
  <2> QED BY <1>2, <2>1 DEF EnterCall, Become, Unsettled, Settled, Failure
<1>3. Given(c)[AdmissionKey] = active[AdmissionKey]
  BY <1>c, TwoKeys DEF Given
<1>4. CASE AdmitCall(c)
  BY <1>3, <1>4 DEF AdmitCall, Deferred, Become, Unsettled, Settled, Failure, Holding
<1>5. CASE Answer(c)
  BY <1>3, <1>5 DEF Answer, Become, Unsettled, Settled, Failure, Holding
<1>6. CASE ImposeCooldown(c)
  BY <1>6 DEF ImposeCooldown, Become, Unsettled, Settled, Failure, Holding, pool
<1> QED BY <1>1, <1>2, <1>4, <1>5, <1>6 DEF CallStep

LEMMA GoStep == IInv /\ GoInv /\ [Next]_vars => GoInv'
<1> SUFFICES ASSUME IInv, GoInv, [Next]_vars PROVE GoInv'
  OBVIOUS
<1> USE AdmissionAssumption
<1>a. TypeOK /\ Blank /\ KeyApart /\ LimitSet /\ WaveAsked
  BY DEF IInv, GoInv
<1>b. \A c \in Call : c[1] \in Source /\ c[2] \in Nat /\ c[2] > 0
  BY CallParts DEF Segment
<1>1. ASSUME UNCHANGED <<call, waves, active>>, limit'[CallKey] = limit[CallKey], cooling' \subseteq cooling
      PROVE  GoInv'
  BY <1>a, <1>1 DEF GoInv, KeyApart, LimitSet, WaveAsked, InWave, waves
<1>2. ASSUME NEW t \in Task,
             OnTheWayIn(t) \/ RequestCancel(t) \/ AdmitRecovery(t)
      PROVE  GoInv'
  <2>1. limit'[CallKey] = limit[CallKey]
    BY <1>a, <1>2, TwoKeys DEF OnTheWayIn, Execute, Reserve, Admit, Conflict, GiveUp, Leave, RequestCancel, AdmitRecovery, pool, TypeOK
  <2> QED BY <1>1, <1>2, <2>1 DEF OnTheWayIn, Execute, Reserve, Admit, Conflict, GiveUp, Leave, RequestCancel, AdmitRecovery, pool
<1>3. ASSUME NEW t \in Task, Claim(t) PROVE GoInv'
  <2>1. \A s \in Source : source'[s] = "open" => source[s] = "open"
    BY <1>3 DEF Claim
  <2>2. UNCHANGED <<call, cursor, width, active, limit, cooling>>
    BY <1>3 DEF Claim, pool
  <2> QED BY <1>a, <1>b, <2>1, <2>2 DEF GoInv, KeyApart, LimitSet, WaveAsked, InWave
<1>4. ASSUME NEW t \in Task, Finish(t) PROVE GoInv'
  <2>1. \A s \in Source : source[s] = "open" => TaskOf[s] # t
    BY <1>4 DEF Finish, Ended, Sources
  <2>2. /\ UNCHANGED <<source, active, limit, cooling>>
        /\ \A c \in Call : call'[c] = IF TaskOf[c[1]] = t THEN "none" ELSE call[c]
        /\ \A s \in Source : TaskOf[s] # t => cursor'[s] = cursor[s] /\ width'[s] = width[s]
    BY <1>4 DEF Finish
  <2> QED BY <1>a, <1>b, <2>1, <2>2 DEF GoInv, KeyApart, LimitSet, WaveAsked, InWave, Holding
<1>5. ASSUME NEW s \in Source, NEW n \in Nat, NEW m \in Nat, StartWave(s, n, m),
             \A r \in Source : r # s => source'[r] = source[r] /\ cursor'[r] = cursor[r] /\ width'[r] = width[r],
             cursor'[s] = n, width'[s] = m, UNCHANGED <<limit, active, cooling>>
      PROVE  GoInv'
  <2>1. ASSUME NEW c \in Call
        PROVE  call'[c] = IF c[1] = s /\ c[2] > n /\ c[2] <= n + m THEN "asking" ELSE call[c]
    <3>1. call'[c] = IF c \in {<<s, i>> : i \in (n + 1)..(n + m)} THEN "asking" ELSE call[c]
      BY <1>5 DEF StartWave
    <3>2. c \in {<<s, i>> : i \in (n + 1)..(n + m)} <=> c[1] = s /\ c[2] > n /\ c[2] <= n + m
      BY WaveIs
    <3> QED BY <3>1, <3>2
  <2>2. LimitSet'
    BY <1>a, <1>5, <2>1 DEF LimitSet, Holding
  <2>3. WaveAsked'
    BY <1>a, <1>b, <1>5, <2>1 DEF WaveAsked, InWave
  <2> QED BY <1>a, <1>5, <2>2, <2>3 DEF GoInv, KeyApart
<1>6. ASSUME NEW s \in Source, UNCHANGED <<call, limit, active, cooling>>, source'[s] # "open",
             \A r \in Source : r # s => source'[r] = source[r] /\ cursor'[r] = cursor[r] /\ width'[r] = width[r]
      PROVE  GoInv'
  BY <1>a, <1>b, <1>6 DEF GoInv, KeyApart, LimitSet, WaveAsked, InWave
<1>7. ASSUME NEW s \in Source, OpenSource(s) PROVE GoInv'
  <2>1. source[s] = "waiting" /\ cursor[s] = 0 /\ width[s] \in Nat
    BY <1>a, <1>7 DEF OpenSource, Blank, TypeOK
  <2>2. UNCHANGED <<limit, active, cooling, cursor, width>>
    BY <1>7 DEF OpenSource, pool
  <2>3. CASE source' = [source EXCEPT ![s] = "cancelled"] /\ UNCHANGED call
    BY <1>a, <1>6, <2>2, <2>3 DEF TypeOK
  <2>4. CASE source' = [source EXCEPT ![s] = "open"] /\ StartWave(s, 0, width[s])
    BY <1>a, <1>5, <2>1, <2>2, <2>4 DEF TypeOK
  <2> QED BY <1>7, <2>3, <2>4 DEF OpenSource
<1>8. ASSUME NEW s \in Source, EndWave(s) PROVE GoInv'
  <2> DEFINE bad == {call[c] : c \in Wave(s)} \ {"ok"}
             behind == cursor[s] + width[s]
  <2>1. /\ cursor[s] \in Nat /\ width[s] \in Nat /\ behind \in Nat /\ NextWidth(s) \in Nat
        /\ UNCHANGED <<limit, active, cooling>>
        /\ \A c \in Wave(s) : call[c] \in Settled
    BY <1>a, <1>8, NextFits DEF EndWave, pool, TypeOK
  <2>2. ASSUME NEW o \in Outcomes(s, bad), source' = [source EXCEPT ![s] = o], UNCHANGED <<cursor, width, call>>
        PROVE  GoInv'
    <3>1. bad \in SUBSET Failure
      BY <2>1 DEF Settled
    <3>2. o # "open"
      BY <2>2, <3>1, FailedWave DEF Failure
    <3> QED BY <1>a, <1>6, <2>1, <2>2, <3>2 DEF TypeOK
  <2>3. ASSUME cursor' = [cursor EXCEPT ![s] = behind], width' = [width EXCEPT ![s] = NextWidth(s)],
               IF behind = Segments[s]
                 THEN source' = [source EXCEPT ![s] = "processed"] /\ UNCHANGED call
                 ELSE ~Cancelled(s) /\ StartWave(s, behind, NextWidth(s)) /\ UNCHANGED source
        PROVE  GoInv'
    <3> HIDE DEF behind
    <3>1. /\ cursor'[s] = behind /\ width'[s] = NextWidth(s)
          /\ \A r \in Source : r # s => cursor'[r] = cursor[r] /\ width'[r] = width[r]
      BY <1>a, <2>1, <2>3 DEF TypeOK
    <3>2. CASE behind = Segments[s]
      BY <1>a, <1>6, <2>1, <2>3, <3>1, <3>2 DEF TypeOK
    <3>3. CASE behind # Segments[s]
      BY <1>5, <2>1, <2>3, <3>1, <3>3
    <3> QED BY <3>2, <3>3
  <2> QED BY <1>8, <2>2, <2>3 DEF EndWave
<1>9. ASSUME NEW c \in Call, CallStep(c) PROVE GoInv'
  <2>1. PICK st \in Unsettled \cup Settled :
               /\ call' = [call EXCEPT ![c] = st]
               /\ call[c] # "queued" /\ st = "queued" => limit'[CallKey] # 0
               /\ call[c] \notin {"queued"} \cup Holding => st \notin Holding
    BY <1>9, CallChange
  <2>2. /\ UNCHANGED waves /\ active'[AdmissionKey] = active[AdmissionKey]
        /\ cooling' \subseteq cooling \cup {CallKey} /\ (limit[CallKey] # 0 => limit'[CallKey] # 0)
    BY <1>9, CallChange
  <2>3. st # "none" /\ call'[c] = st /\ \A d \in Call : d # c => call'[d] = call[d]
    BY <1>a, <2>1 DEF TypeOK, Unsettled, Settled, Failure
  <2>4. KeyApart'
    BY <1>a, <2>2, TwoKeys DEF KeyApart
  <2>5. LimitSet'
    BY <1>a, <2>1, <2>2, <2>3 DEF LimitSet
  <2>6. WaveAsked'
    BY <1>a, <1>b, <2>2, <2>3 DEF WaveAsked, InWave, waves
  <2> QED BY <2>4, <2>5, <2>6 DEF GoInv
<1>10. ASSUME SetPaused \/ (\E k \in Key : CooldownEnds(k)) \/ UNCHANGED vars PROVE GoInv'
  BY <1>1, <1>10 DEF SetPaused, CooldownEnds, vars, pool
<1> QED BY <1>2, <1>3, <1>4, <1>7, <1>8, <1>9, <1>10 DEF Next, AttemptStep, OnTheWayIn, SourceStep

(* The attempt that runs has a source or a request that can go on, unless  *)
(* its requests wait for permits: those are held by requests that can.     *)
LEMMA RunningGoes ==
    ASSUME IInv, GoInv, NEW t \in Task, place[t] = "running", t \in cancel \/ ~paused
    PROVE  Goes(t) \/ (t \notin cancel /\ \E u \in Task : Goes(u))
<1> USE AdmissionAssumption
<1>a. TypeOK /\ OneHolder /\ Counted /\ UnsettledInWave /\ WavesOrdered /\ Fits /\ CallsOfRunning
      /\ LimitSet /\ WaveAsked
  BY DEF IInv, GoInv
<1>b. \A c \in Call : TaskOf[c[1]] \in Task
  BY CallParts
<1>1. CASE Ended(t)
  BY <1>1 DEF Goes
<1>2. ASSUME NEW s \in Sources(t), source[s] = "open"
      PROVE  Goes(t) \/ (t \notin cancel /\ \E u \in Task : Goes(u))
  <2>1. CASE \A c \in Wave(s) : call[c] \in Settled
    BY <1>2, <2>1 DEF Goes, SourceGoes
  <2>2. ASSUME NEW c \in Wave(s), call[c] \notin Settled
        PROVE  Goes(t) \/ (t \notin cancel /\ \E u \in Task : Goes(u))
    <3>1. c \in Call /\ InWave(c) /\ c[1] = s
      <4>1. PICK i \in (cursor[s] + 1)..(cursor[s] + width[s]) : c = <<s, i>>
        BY DEF Wave
      <4>2. s \in Source /\ cursor[s] \in Nat /\ width[s] \in Nat /\ i \in Segment(s)
        BY <1>a, <4>1 DEF Sources, TypeOK, Fits, Segment
      <4> QED BY <4>1, <4>2, CallParts DEF InWave
    <3>2. call[c] \in Unsettled /\ TaskOf[c[1]] = t
      BY <1>a, <1>2, <2>2, <3>1 DEF WaveAsked, TypeOK, Unsettled, Holding, Sources
    <3>3. CASE CallGoes(c)
      BY <3>1, <3>2, <3>3 DEF Goes
    <3>4. CASE ~CallGoes(c)
      <4>1. call[c] = "queued" /\ ~Room(c) /\ ~paused /\ t \notin cancel
        BY <3>2, <3>4 DEF CallGoes, Cancelled, Unsettled
      <4>2. active[CallKey] >= limit[CallKey] /\ limit[CallKey] # 0 /\ limit[CallKey] \in Nat /\ active[CallKey] \in Nat
        <5>1. ~Reserved(c) /\ holder[CallKey] = Nobody
          BY <1>a, <1>b, <3>1 DEF Reserved, OneHolder
        <5>2. limit[CallKey] # 0
          BY <1>a, <3>1, <4>1 DEF LimitSet
        <5> QED BY <1>a, <4>1, <5>1, <5>2, TwoKeys DEF Room, TypeOK
      <4>3. Held # {}
        <5>1. Cardinality(Held) # 0
          BY <1>a, <4>2 DEF Counted
        <5> QED BY <5>1, FS_EmptySet
      <4>4. PICK d \in Call : call[d] \in Holding
        BY <4>3 DEF Held
      <4>5. CallGoes(d)
        BY <4>1, <4>4 DEF CallGoes, Holding
      <4>6. TaskOf[d[1]] \in Task /\ place[TaskOf[d[1]]] = "running"
        BY <1>a, <1>b, <4>4 DEF CallsOfRunning, Holding
      <4> QED BY <4>1, <4>4, <4>5, <4>6 DEF Goes
    <3> QED BY <3>3, <3>4
  <2> QED BY <2>1, <2>2
<1>3. ASSUME NEW s \in Sources(t), source[s] = "waiting", \A r \in Sources(t) : source[r] # "open"
      PROVE  Goes(t)
  <2>1. {r \in Sources(t) : source[r] = "open"} = {}
    BY <1>3
  <2>2. Cardinality({r \in Sources(t) : source[r] = "open"}) = 0
    BY <2>1, FS_EmptySet
  <2>3. IsFiniteSet(Sources(t)) /\ Cardinality(Sources(t)) \in Nat /\ Cardinality(Sources(t)) # 0
    <3>1. IsFiniteSet(Sources(t))
      BY FS_Subset DEF Sources
    <3> QED BY <1>3, <3>1, FS_CardinalityType, FS_EmptySet
  <2>4. Threads(t) \in Nat /\ Threads(t) # 0
    BY <2>3 DEF Threads, Lesser
  <2>5. TaskOf[s] = t
    BY <1>3 DEF Sources
  <2>6. SourceGoes(s)
    BY <1>3, <2>2, <2>4, <2>5 DEF SourceGoes
  <2> QED BY <1>3, <2>6 DEF Goes
<1> QED BY <1>1, <1>2, <1>3 DEF Ended

(* Nothing ever waits for what nobody is about to give back.               *)
THEOREM AttemptsGoOn == Spec => []NobodyIsStuck
<1>1. IInv /\ GoInv => NobodyIsStuck
  <2> SUFFICES ASSUME IInv, GoInv, NEW t \in Task, place[t] # "idle"
               PROVE  (t \in cancel => Goes(t)) /\ (~paused => \E u \in Task : Goes(u))
    BY DEF NobodyIsStuck
  <2>1. TypeOK /\ OneHolder /\ KeyApart
    BY DEF IInv, GoInv
  <2>2. CASE place[t] = "waiting"
    <3>1. CASE Idle(AdmissionKey) \/ t \in cancel
      BY <2>2, <3>1 DEF Goes
    <3>2. CASE ~Idle(AdmissionKey) /\ t \notin cancel
      <4> SUFFICES ASSUME ~paused PROVE \E u \in Task : Goes(u)
        BY <3>2
      <4>1. PICK u \in Task : holder[AdmissionKey] = u
        BY <2>1, <3>2, TwoKeys DEF Idle, KeyApart, TypeOK
      <4>2. place[u] \in {"reserved", "admitted", "running"}
        BY <2>1, <4>1 DEF OneHolder
      <4>3. CASE place[u] = "reserved"
        BY <2>1, <4>3 DEF Goes, Admitted, KeyApart
      <4>4. CASE place[u] = "running"
        BY <4>4, RunningGoes
      <4>5. CASE place[u] = "admitted"
        BY <4>5 DEF Goes
      <4> QED BY <4>2, <4>3, <4>4, <4>5
    <3> QED BY <3>1, <3>2
  <2>3. CASE place[t] = "reserved"
    BY <2>1, <2>3 DEF Goes, Admitted, KeyApart
  <2>4. CASE place[t] = "running"
    BY <2>4, RunningGoes
  <2>5. CASE place[t] = "admitted"
    BY <2>5 DEF Goes
  <2> QED BY <2>1, <2>2, <2>3, <2>4, <2>5 DEF TypeOK
<1> QED BY <1>1, GoInit, GoStep, Invariant, PTL DEF Spec

(* The key a coordinator reserves has no permits and never cools: so no    *)
(* cooldown of a provider ever keeps a claim waiting, for any number of    *)
(* tasks.  (ingest_execution.py:74, provider_control.py:31)                *)
THEOREM ReservedKeyNeverCools == Spec => [](active[AdmissionKey] = 0 /\ AdmissionKey \notin cooling)
<1>1. GoInv => active[AdmissionKey] = 0 /\ AdmissionKey \notin cooling
  BY DEF GoInv, KeyApart
<1> QED BY <1>1, GoInit, GoStep, Invariant, PTL DEF Spec
=============================================================================
