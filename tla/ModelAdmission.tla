-------------------------- MODULE ModelAdmission --------------------------
(***************************************************************************)
(* From an admitted task to the answers of the model provider: the         *)
(* reservation of ProviderPermitPool (runtime/provider_permits.py) around  *)
(* IngestTaskExecutor.execute, the threads of run_generation and of the    *)
(* waves of _compile_segment_batch (pipelines/ingest_auto.py), the permit  *)
(* of each request, the cooldown of provider_control.py, and what the      *)
(* failures of the segments leave of the task.                             *)
(*                                                                         *)
(* One process, one provider.  The pool knows a provider by a key.  The    *)
(* executor computes name:model:base_url from the execution contract; the  *)
(* extractor asks its client, a ModelGateway, which has no base_url, and   *)
(* gets name:model: instead.  Leases and versions are those of IngestStore *)
(* and time is a cooldown that ends.                                       *)
(***************************************************************************)
EXTENDS Naturals, FiniteSets, FiniteSetsExt

CONSTANTS
    Task, Source,
    Nobody,        \* no attempt holds the reservation
    TaskOf,        \* [Source -> Task]: the documents of the input generation
    Limit,         \* [Task -> Nat]: the ceiling the execution contract froze
    Committed,     \* sources another task committed before
    Segments,      \* [Source -> Nat]: the segments of a source
    MaxAttempts,   \* bound: [Task -> Nat], the attempts of a task
    MaxCancels     \* bound: cancelled tasks

ASSUME AdmissionAssumption ==
    /\ Nobody \notin Task
    /\ TaskOf \in [Source -> Task]
    /\ Limit \in [Task -> Nat \ {0}]
    /\ Segments \in [Source -> Nat \ {0}]
    /\ MaxAttempts \in [Task -> Nat] /\ MaxCancels \in Nat
    /\ IsFiniteSet(Source) /\ Committed \subseteq Source

AdmissionKey == "name:model:base_url"
CallKey == "name:model:"
Key == {AdmissionKey, CallKey}
Segment(s) == 1..Segments[s]
Call == UNION {{s} \X Segment(s) : s \in Source}

VARIABLES
    paused, noted,                  \* ingest_control; tasks whose admission has its version as it is
    limit, holder, active,          \* _ProviderState of a key; limit 0: none yet
    slots,                          \* request_slots of the reservation of a task
    cooling,                        \* keys whose cooldown deadline is ahead
    state, attempts, cancel, place, \* a task: state, attempts, cancel_requested, its operation
    source, cursor, width,          \* a source: outcome, segments behind it, size of its wave
    call                            \* a segment's request

control == <<paused, noted>>
pool == <<limit, holder, active, slots>>
tasks == <<state, attempts, cancel, place>>
waves == <<source, cursor, width>>
vars == <<control, pool, cooling, tasks, waves, call>>

Sources(t) == {s \in Source : TaskOf[s] = t}
Failure == {"retryable", "fatal", "limited", "cancelled"}
Settled == Failure \cup {"ok"}
Holding == {"entered", "calling"}
CancelledMutant(s) == TaskOf[s] \in cancel /\ ~paused
Cancelled(s) == TaskOf[s] \in cancel
Lesser(m, n) == IF m < n THEN m ELSE n

(* The size of the first wave, and the threads for the sources of a task.  *)
FirstWave(s) == Min({2, Limit[TaskOf[s]], Segments[s]})
Threads(t) == Lesser(Cardinality(Sources(t)), Limit[t])
Wave(s) == {<<s, i>> : i \in (cursor[s] + 1)..(cursor[s] + width[s])}

-----------------------------------------------------------------------------
(* Definitions named ...Mutant are plausible mistakes in the definition    *)
(* that follows them, used by no action.                                   *)

Init ==
    /\ paused = FALSE /\ noted = {}
    /\ limit = [k \in Key |-> 0]
    /\ holder = [k \in Key |-> Nobody]
    /\ active = [k \in Key |-> 0]
    /\ slots = [t \in Task |-> 0]
    /\ cooling = {}
    /\ state = [t \in Task |-> "queued"]
    /\ attempts = [t \in Task |-> 1]
    /\ cancel = {}
    /\ place = [t \in Task |-> "idle"]
    /\ source = [s \in Source |-> IF s \in Committed THEN "processed" ELSE "waiting"]
    /\ cursor = [s \in Source |-> 0]
    /\ width = [s \in Source |-> FirstWave(s)]
    /\ call = [c \in Call |-> "none"]

(* The user and the clock.  Every call of set_ingest_paused makes a new    *)
(* version of the control: no version noted before is current.             *)
SetPaused ==
    /\ paused' \in BOOLEAN /\ noted' = {}
    /\ UNCHANGED <<pool, cooling, tasks, waves, call>>

RequestCancel(t) ==
    /\ state[t] \in {"queued", "running"} /\ t \notin cancel
    /\ Cardinality(cancel) < MaxCancels
    /\ cancel' = cancel \cup {t}
    /\ state' = [state EXCEPT ![t] = IF state[t] = "queued" THEN "cancelled" ELSE "running"]
    /\ UNCHANGED <<control, pool, cooling, attempts, place, waves, call>>

CooldownEnds(k) ==
    /\ k \in cooling
    /\ cooling' = cooling \ {k}
    /\ UNCHANGED <<control, pool, tasks, waves, call>>

-----------------------------------------------------------------------------
(* The attempt: reserve_attempt, and the claim behind it.                  *)

(* _wait_runtime_admission lets the caller pass: not cancelled, not        *)
(* paused, no cooldown of the key.                                         *)
Admitted(t, k) == t \notin cancel /\ ~paused /\ k \notin cooling

(* _state: an idle provider takes any limit, a busy one a stricter one.    *)
Idle(k) == holder[k] = Nobody /\ active[k] = 0
LimitAfter(k, n) == IF limit[k] = 0 \/ Idle(k) \/ n < limit[k] THEN n ELSE limit[k]

Execute(t) ==
    /\ place[t] = "idle" /\ state[t] = "queued" /\ Admitted(t, AdmissionKey)
    /\ limit' = [limit EXCEPT ![AdmissionKey] = LimitAfter(AdmissionKey, Limit[t])]
    /\ place' = [place EXCEPT ![t] = "waiting"]
    /\ UNCHANGED <<control, holder, active, slots, cooling, state, attempts, cancel, waves, call>>

Reserve(t) ==
    /\ place[t] = "waiting" /\ Idle(AdmissionKey)
    /\ holder' = [holder EXCEPT ![AdmissionKey] = t]
    /\ slots' = [slots EXCEPT ![t] = limit[AdmissionKey]]
    /\ place' = [place EXCEPT ![t] = "reserved"]
    /\ UNCHANGED <<control, limit, active, cooling, state, attempts, cancel, waves, call>>

(* The admission behind the reservation notes the version of the control.  *)
Admit(t) ==
    /\ place[t] = "reserved" /\ Admitted(t, AdmissionKey)
    /\ place' = [place EXCEPT ![t] = "admitted"]
    /\ noted' = noted \cup {t}
    /\ UNCHANGED <<paused, pool, cooling, state, attempts, cancel, waves, call>>

(* The claim, under the control and the task as they are by then: what was *)
(* committed before is found and skipped, the other sources are compiled   *)
(* from their first segment.                                               *)
Claimable(t) == ~paused /\ t \in noted /\ t \notin cancel
Claim(t) ==
    /\ place[t] = "admitted" /\ Claimable(t)
    /\ state' = [state EXCEPT ![t] = "running"]
    /\ place' = [place EXCEPT ![t] = "running"]
    /\ noted' = noted \ {t}
    /\ source' = [s \in Source |-> IF TaskOf[s] = t /\ source[s] # "processed" THEN "waiting" ELSE source[s]]
    /\ UNCHANGED <<paused, pool, cooling, attempts, cancel, cursor, width, call>>

Released(t) == [k \in Key |-> IF holder[k] = t THEN Nobody ELSE holder[k]]
Leave(t) ==
    /\ holder' = Released(t)
    /\ slots' = [slots EXCEPT ![t] = 0]
    /\ place' = [place EXCEPT ![t] = "idle"]
    /\ noted' = noted \ {t}

(* A refused claim leaves the task as it is and gives the reservation      *)
(* back.                                                                   *)
Conflict(t) ==
    /\ place[t] = "admitted" /\ ~Claimable(t)
    /\ Leave(t)
    /\ UNCHANGED <<paused, limit, active, cooling, state, attempts, cancel, waves, call>>

(* A cancelled attempt leaves each wait; reserve_attempt gives back what   *)
(* it reserved.                                                            *)
GiveUp(t) ==
    /\ t \in cancel
    /\ place[t] = "reserved" \/ (place[t] = "waiting" /\ ~Idle(AdmissionKey))
    /\ Leave(t)
    /\ UNCHANGED <<paused, limit, active, cooling, state, attempts, cancel, waves, call>>

-----------------------------------------------------------------------------
(* A source: run_document in a thread of its own, wave after wave.  A      *)
(* cancelled source starts no wave.                                        *)
StartWave(s, n, m) ==
    call' = [c \in Call |-> IF c \in {<<s, i>> : i \in (n + 1)..(n + m)} THEN "asking" ELSE call[c]]

OpenSource(s) ==
    LET t == TaskOf[s]
    IN  /\ place[t] = "running" /\ source[s] = "waiting"
        /\ Cardinality({r \in Sources(t) : source[r] = "open"}) < Threads(t)
        /\ \/ Cancelled(s) /\ source' = [source EXCEPT ![s] = "cancelled"] /\ UNCHANGED call
           \/ ~Cancelled(s) /\ source' = [source EXCEPT ![s] = "open"] /\ StartWave(s, 0, width[s])
        /\ UNCHANGED <<control, pool, cooling, tasks, cursor, width>>

(* What a failed wave makes of its source.  A failure of the model hides   *)
(* the others; otherwise the first one to complete counts, any of them.    *)
(* The loop over the completed requests raises once it sees a              *)
(* cancellation.                                                           *)
ModelFailures(bad) == bad \cap {"retryable", "fatal"}
OutcomesMutant(s, bad) == bad
Outcomes(s, bad) == (IF ModelFailures(bad) # {} THEN ModelFailures(bad) ELSE bad)
                        \cup (IF Cancelled(s) THEN {"cancelled"} ELSE {})

NextWidth(s) == Min({width[s] + 1, Limit[TaskOf[s]], Segments[s] - cursor[s] - width[s]})

WaveSucceedsMutant(bad) == bad \subseteq {"limited"}
WaveSucceeds(bad) == bad = {}
EndWave(s) ==
    LET bad == {call[c] : c \in Wave(s)} \ {"ok"}
        behind == cursor[s] + width[s]
    IN  /\ source[s] = "open" /\ \A c \in Wave(s) : call[c] \in Settled
        /\ \/ /\ \E o \in Outcomes(s, bad) : source' = [source EXCEPT ![s] = o]
              /\ UNCHANGED <<cursor, width, call>>
           \/ /\ WaveSucceeds(bad)
              /\ cursor' = [cursor EXCEPT ![s] = behind]
              /\ width' = [width EXCEPT ![s] = NextWidth(s)]
              /\ IF behind = Segments[s]
                 THEN source' = [source EXCEPT ![s] = "processed"] /\ UNCHANGED call
                 ELSE ~Cancelled(s) /\ StartWave(s, behind, NextWidth(s)) /\ UNCHANGED source
        /\ UNCHANGED <<control, pool, cooling, tasks>>

-----------------------------------------------------------------------------
(* One request: ProviderPermitPool.acquire around run_with_failure.        *)
Become(c, st) == call' = [call EXCEPT ![c] = st]

(* The reservation is used by requests that carry its key.                 *)
Reserved(c) == holder[CallKey] = TaskOf[c[1]]
InFlight(t) == {c \in Call : TaskOf[c[1]] = t /\ call[c] \in Holding}
RoomMutant(c) == holder[CallKey] = Nobody /\ active[CallKey] <= limit[CallKey]
Room(c) == IF Reserved(c)
           THEN Cardinality(InFlight(TaskOf[c[1]])) < slots[TaskOf[c[1]]]
           ELSE holder[CallKey] = Nobody /\ active[CallKey] < limit[CallKey]
Given(c) == IF Reserved(c) THEN active ELSE [active EXCEPT ![CallKey] = @ - 1]
Taken(c) == IF Reserved(c) THEN active ELSE [active EXCEPT ![CallKey] = @ + 1]

(* Before the permit.  defer_on_cooldown: a running cooldown is not waited *)
(* for, it fails the request.                                              *)
AskCall(c) ==
    /\ call[c] = "asking"
    /\ \/ Cancelled(c[1]) /\ Become(c, "cancelled") /\ UNCHANGED limit
       \/ ~Cancelled(c[1]) /\ ~paused /\ CallKey \in cooling /\ ~Reserved(c)
          /\ Become(c, "limited") /\ UNCHANGED limit
       \/ /\ ~Cancelled(c[1]) /\ ~paused /\ (CallKey \notin cooling \/ Reserved(c))
          /\ Become(c, "queued")
          /\ limit' = IF Reserved(c) THEN limit
                      ELSE [limit EXCEPT ![CallKey] = LimitAfter(CallKey, Limit[TaskOf[c[1]]])]
    /\ UNCHANGED <<control, holder, active, slots, cooling, tasks, waves>>

EnterCall(c) ==
    /\ call[c] = "queued"
    /\ \/ Room(c) /\ Become(c, "entered") /\ active' = Taken(c)
       \/ ~Room(c) /\ Cancelled(c[1]) /\ Become(c, "cancelled") /\ UNCHANGED active
    /\ UNCHANGED <<control, limit, holder, slots, cooling, tasks, waves>>

(* Behind the permit: the admission is asked again, with the permit held.  *)
DeferredMutant(c) == active
Deferred(c) == Given(c)
AdmitCall(c) ==
    /\ call[c] = "entered"
    /\ \/ Cancelled(c[1]) /\ Become(c, "cancelled") /\ active' = Deferred(c)
       \/ ~Cancelled(c[1]) /\ ~paused /\ CallKey \in cooling
          /\ Become(c, "limited") /\ active' = Deferred(c)
       \/ ~Cancelled(c[1]) /\ ~paused /\ CallKey \notin cooling
          /\ Become(c, "calling") /\ UNCHANGED active
    /\ UNCHANGED <<control, limit, holder, slots, cooling, tasks, waves>>

(* The runner answers after its own retries, or raises in the pause        *)
(* between two of them when the task was cancelled.  The permit is given   *)
(* back before a rate limit becomes a cooldown.                            *)
Answer(c) ==
    /\ call[c] = "calling"
    /\ active' = Given(c)
    /\ \/ \E a \in {"ok", "retryable", "fatal", "struck"} : Become(c, a)
       \/ Cancelled(c[1]) /\ Become(c, "cancelled")
    /\ UNCHANGED <<control, limit, holder, slots, cooling, tasks, waves>>

ImposeCooldown(c) ==
    /\ call[c] = "struck"
    /\ cooling' = cooling \cup {CallKey}
    /\ Become(c, "limited")
    /\ UNCHANGED <<control, pool, tasks, waves>>

-----------------------------------------------------------------------------
(* The end of an attempt.  run_document makes a failed source of every     *)
(* exception but RunCancelled, ProviderRateLimited among them: a           *)
(* RuntimeError, which error_info calls not retryable.                     *)
Ended(t) == \A s \in Sources(t) : source[s] \notin {"waiting", "open"}
Retryable(s) == source[s] = "retryable"

Outcome(t) ==
    CASE t \in cancel -> "cancelled"
      [] \A s \in Sources(t) : source[s] = "processed" -> "completed"
      [] OTHER -> "partially_failed"

Finish(t) ==
    /\ place[t] = "running" /\ Ended(t)
    /\ state' = [state EXCEPT ![t] = Outcome(t)]
    /\ Leave(t)
    /\ cursor' = [s \in Source |-> IF TaskOf[s] = t THEN 0 ELSE cursor[s]]
    /\ width' = [s \in Source |-> IF TaskOf[s] = t THEN FirstWave(s) ELSE width[s]]
    /\ call' = [c \in Call |-> IF TaskOf[c[1]] = t THEN "none" ELSE call[c]]
    /\ UNCHANGED <<paused, limit, active, cooling, attempts, cancel, source>>

Recoverable(t) == state[t] = "partially_failed" /\ \E s \in Sources(t) : Retryable(s)
AdmitRecovery(t) ==
    /\ Recoverable(t) /\ attempts[t] < MaxAttempts[t]
    /\ state' = [state EXCEPT ![t] = "queued"]
    /\ attempts' = [attempts EXCEPT ![t] = @ + 1]
    /\ UNCHANGED <<control, pool, cooling, cancel, place, waves, call>>

-----------------------------------------------------------------------------
AttemptStep(t) == Reserve(t) \/ Admit(t) \/ Claim(t) \/ Conflict(t) \/ GiveUp(t) \/ Finish(t)
SourceStep(s) == OpenSource(s) \/ EndWave(s)
CallStep(c) == AskCall(c) \/ EnterCall(c) \/ AdmitCall(c) \/ Answer(c) \/ ImposeCooldown(c)

Next ==
    \/ SetPaused
    \/ \E k \in Key : CooldownEnds(k)
    \/ \E t \in Task : Execute(t) \/ AttemptStep(t) \/ RequestCancel(t) \/ AdmitRecovery(t)
    \/ \E s \in Source : SourceStep(s)
    \/ \E c \in Call : CallStep(c)

(* Threads go on, requests have a timeout and cooldowns end.  Nobody has   *)
(* to resume ingest, to cancel, to recover or to submit a task, one whose  *)
(* claim was refused among them.                                           *)
Fairness ==
    /\ \A k \in Key : WF_vars(CooldownEnds(k))
    /\ \A t \in Task : WF_vars(AttemptStep(t))
    /\ \A s \in Source : WF_vars(SourceStep(s))
    /\ \A c \in Call : WF_vars(CallStep(c))

Spec == Init /\ [][Next]_vars /\ Fairness

-----------------------------------------------------------------------------
TypeOK ==
    /\ paused \in BOOLEAN /\ noted \subseteq Task
    /\ limit \in [Key -> Nat] /\ active \in [Key -> Nat]
    /\ holder \in [Key -> Task \cup {Nobody}]
    /\ slots \in [Task -> Nat]
    /\ cooling \subseteq Key
    /\ state \in [Task -> {"queued", "running", "completed", "partially_failed", "cancelled"}]
    /\ attempts \in [Task -> Nat] /\ cancel \subseteq Task
    /\ place \in [Task -> {"idle", "waiting", "reserved", "admitted", "running"}]
    /\ source \in [Source -> {"waiting", "open", "processed"} \cup Failure]
    /\ cursor \in [Source -> Nat] /\ width \in [Source -> Nat]
    /\ call \in [Call -> {"none", "asking", "queued", "struck"} \cup Holding \cup Settled]

(* The requests of an attempt that hold a permit stay within the ceiling   *)
(* its execution contract froze, whatever attempts with other ceilings ran *)
(* or wait: sources times waves would exceed it.  (provider_permits.py:78, *)
(* specs/1.37-local-first-ingest-simplification/verification.md:191)       *)
WithinContract == \A t \in Task : Cardinality(InFlight(t)) <= Limit[t]

(* No way out of a permit or of a reservation loses it or gives it back    *)
(* twice.  (provider_permits.py:74, :102, :140)                            *)
PermitsExact ==
    /\ active[CallKey] = Cardinality({c \in Call : call[c] \in Holding /\ ~Reserved(c)})
    /\ \A t \in Task : (holder[AdmissionKey] = t) <=> place[t] \in {"reserved", "admitted", "running"}

(* A wave starts only behind waves that succeeded as a whole, so a rate    *)
(* limit stops a source, and what is processed is compiled as a whole.     *)
(* (ingest_auto.py:726-732, design.md:511-514)                             *)
WaveDiscipline ==
    \A s \in Source : place[TaskOf[s]] = "running" /\ source[s] # "waiting" => \A i \in Segment(s) :
        /\ i <= cursor[s] => call[<<s, i>>] = "ok"
        /\ i > cursor[s] + width[s] => call[<<s, i>>] = "none"

(* A segment the model may answer next time keeps its task recoverable,    *)
(* whichever way its neighbours in the wave failed, unless one of them     *)
(* failed for good.  (ingest_auto.py:761-766)                              *)
Hopeful(s) ==
    /\ \E i \in Segment(s) : call[<<s, i>>] = "retryable"
    /\ \A i \in Segment(s) : call[<<s, i>>] # "fatal"
RetryableStaysRecoverable ==
    [][\A s \in Source :
         LET t == TaskOf[s]
         IN  Hopeful(s) /\ place[t] = "running" /\ state'[t] = "partially_failed" => Recoverable(t)']_vars

(* An attempt waits for nothing that may not come: a permit is given back, *)
(* a cooldown ends, and a cancellation gets it out of every other wait,    *)
(* that for the end of a pause among them.  (design.md:500: "application   *)
(* shutdown and user cancellation interrupt every wait")  Only somebody    *)
(* who pauses and resumes ingest for ever, and submits what was refused    *)
(* over that, may keep another attempt from the reservation.               *)
AttemptsEnd ==
    <>[][~SetPaused]_vars =>
        \A t \in Task : place[t] # "idle" ~> place[t] = "idle" \/ (paused /\ t \notin cancel)

(* Who can take a step: a request that does not wait for a permit or for   *)
(* the end of a pause, a source with a free thread or behind its wave, an  *)
(* attempt that need not wait for the reservation or for admission.        *)
CallGoes(c) ==
    \/ call[c] \in {"asking", "entered"} /\ (Cancelled(c[1]) \/ ~paused)
    \/ call[c] = "queued" /\ (Cancelled(c[1]) \/ Room(c))
    \/ call[c] \in {"calling", "struck"}
SourceGoes(s) ==
    \/ /\ source[s] = "waiting"
       /\ Cardinality({r \in Sources(TaskOf[s]) : source[r] = "open"}) < Threads(TaskOf[s])
    \/ source[s] = "open" /\ \A c \in Wave(s) : call[c] \in Settled
Goes(t) ==
    \/ place[t] = "waiting" /\ (t \in cancel \/ Idle(AdmissionKey))
    \/ place[t] = "reserved" /\ (t \in cancel \/ Admitted(t, AdmissionKey))
    \/ place[t] = "admitted"
    \/ /\ place[t] = "running"
       /\ \/ Ended(t)
          \/ \E s \in Sources(t) : SourceGoes(s)
          \/ \E c \in Call : TaskOf[c[1]] = t /\ CallGoes(c)

(* Attempts never wait for each other in a circle, nor for a permit that   *)
(* nobody holds: while ingest is not paused one of those under way can go  *)
(* on, and a cancelled one can go on by itself, paused or not, whoever     *)
(* holds permits or the reservation.  (design.md:500)                      *)
NobodyIsStuck ==
    \A t \in Task : place[t] # "idle" =>
        /\ t \in cancel => Goes(t)
        /\ ~paused => \E u \in Task : Goes(u)

(* design.md:247: "Provider pause, capacity, and cooldown do not require a *)
(* separate durable waiting_admission state ... No running lease exists    *)
(* before claim" and :499 "task claim occurs only after admission".        *)
ClaimsAfterCooldown == [][\A t \in Task : state[t] = "queued" /\ state'[t] = "running" => cooling = {}]_vars

(* design.md:242: "Only interrupted attempts, provider rate limits, and    *)
(* failures persisted as retryable may take the recovery transition."      *)
RateLimitIsRecoverable ==
    \A s \in Source : state[TaskOf[s]] = "partially_failed" /\ source[s] = "limited" => Recoverable(TaskOf[s])

(* What an attempt and its end do to a task is within the contract that    *)
(* the store keeps too.                                                    *)
StateOf(t) == IF state[t] \in {"queued", "running"} THEN state[t] ELSE "over"
Working == {[by |-> t, task |-> t, attempt |-> attempts[t]] : t \in {t \in Task : place[t] = "running"}}
Lifecycle == INSTANCE AttemptLifecycle WITH
    Executor <- Task, state <- [t \in Task |-> StateOf(t)], attempt <- attempts, working <- Working
LifecycleSpec == Lifecycle!Spec
=============================================================================
