----------------------------- MODULE RunProofs -----------------------------
(***************************************************************************)
(* Theorems about the records of runs, for any runs, clients, reports,     *)
(* cancellations and ends of processes.                                    *)
(***************************************************************************)
EXTENDS RunMonitor, SequenceTheorems, TLAPS

(* Where each actor may be: heartbeat threads, the submitter, the worker   *)
(* and clients.                                                            *)
Roles ==
    /\ \A r \in Run : at[r] \in {"off", "idle", "noting", "holding"} /\ on[r] = r
    /\ at[Submitter] \in {"idle", "noting", "holding", "submitting"}
    /\ at[Worker] \in {"idle", "taken", "cleared", "noting", "holding", "target", "ending", "failing",
                       "closing", "writing", "returning", "dead"}
    /\ \A c \in Client : at[c] \in {"idle", "finalizing", "rewriting", "asking"}

(* Those that hold a record they will write.                               *)
Writing == {"holding", "closing", "writing", "finalizing", "rewriting"}
Busy(a) == at[a] \notin {"off", "dead"} /\ (a \in Run \/ at[a] # "idle")

(* Whoever works on a run, and the queue, know a run that has a record.    *)
Known ==
    /\ \A a \in Actor : Busy(a) => on[a] \in Run /\ rec[on[a]].status # "absent"
    /\ \A i \in DOMAIN queue : rec[queue[i]].status # "absent"
    /\ \A a \in Actor : at[a] \in Writing => copy[a].status # "absent"
    /\ at[Worker] \in {"ending", "failing", "closing", "writing", "returning"} => copy[Worker].status \in Terminal
    /\ \A r \in Run : outcome[r] # "none" \/ r \in sole => rec[r].status # "absent"

(* Only those who asked for it write a cancellation, and only those who    *)
(* found a run stale truncate its record.                                  *)
Asked ==
    /\ \A r \in Run : (rec[r].cancel => r \in asked) /\ (empty[r] => r \in stale)
    /\ \A a \in Actor : at[a] \in Writing /\ copy[a].cancel => on[a] \in asked
    /\ \A c \in Client : /\ at[c] = "asking" => on[c] \in asked
                         /\ at[c] \in {"finalizing", "rewriting"} => on[c] \in stale

(* Behind a cancellation that nobody overlapped, whoever will write the    *)
(* record has read the cancellation.                                       *)
Seen ==
    \A r \in sole :
        /\ rec[r].cancel
        /\ \A a \in Actor : on[a] = r => at[a] # "cleared" /\ (at[a] \in Writing => copy[a].cancel)

(* A terminal record was announced before it was written.                  *)
Announced ==
    /\ EndIsAnnounced
    /\ at[Worker] = "writing" => on[Worker] \in closed
    /\ \A a \in Thread : at[a] = "holding" /\ copy[a].status \in Terminal => on[a] \in closed \cup stale

(* A run is submitted once and taken once.                                 *)
Once ==
    /\ \A i, j \in DOMAIN queue : queue[i] = queue[j] => i = j
    /\ \A i \in DOMAIN queue : /\ outcome[queue[i]] = "none"
                               /\ Busy(Worker) => queue[i] # on[Worker]
                               /\ Busy(Submitter) => queue[i] # on[Submitter]
    /\ Busy(Submitter) => outcome[on[Submitter]] = "none" /\ (Busy(Worker) => on[Worker] # on[Submitter])
    /\ Busy(Worker) /\ at[Worker] \notin {"failing", "closing", "writing", "returning"} =>
           outcome[on[Worker]] = "none"

(* A heartbeat that will write behind the end of a run has read that end.  *)
Reported ==
    /\ OutcomeReported
    /\ \A r \in Run \ (asked \cup stale) : outcome[r] # "none" /\ at[r] = "holding" => copy[r] = rec[r]

IInv == TypeOK /\ Roles /\ Known /\ Asked /\ Seen /\ Announced /\ Once /\ Reported

(* A heartbeat keeps the cancellation it read, writes no absent record,   *)
(* and nothing but what it read when its caller names no status.           *)
LEMMA MergedRecord ==
    ASSUME NEW record \in Record, NEW s \in {"none", "queued", "running"}
    PROVE  /\ Merged(record, s) \in Record /\ Merged(record, s).cancel = record.cancel
           /\ record.status # "absent" => Merged(record, s).status # "absent"
           /\ s = "none" /\ ~record.cancel => Merged(record, s) = record
BY DEF Merged, Record, Status, Terminal

(* Each action keeps the invariant.  First the passing of time and the     *)
(* heartbeats.                                                             *)
LEMMA TickStep == ASSUME IInv, NEW r \in Run, Tick(r) PROVE IInv'
<1> USE RunsAssumption DEF Place
<1>a. TypeOK /\ Roles /\ Known /\ Asked /\ Seen /\ Announced /\ Once /\ Reported
  BY DEF IInv
<1>1. TypeOK'
  BY <1>a DEF TypeOK, Roles, Known, Busy, Tick, actors, owner, history
<1>2. Roles'
  BY <1>a DEF TypeOK, Roles, Known, Busy, Tick, actors, owner, history
<1>3. Known'
  BY <1>a DEF TypeOK, Roles, Known, Busy, Tick, actors, owner, history
<1>4. Asked'
  BY <1>a DEF TypeOK, Roles, Known, Asked, Busy, Tick, actors, owner, history
<1>5. Seen'
  BY <1>a DEF TypeOK, Roles, Known, Asked, Seen, Busy, Tick, actors, owner, history
<1>6. Announced'
  BY <1>a DEF TypeOK, Roles, Known, Asked, Announced, EndIsAnnounced, Busy, Tick, actors, owner,
       history
<1>7. Once'
  BY <1>a DEF TypeOK, Roles, Known, Once, Busy, Tick, actors, owner, history
<1>8. Reported'
  BY <1>a DEF TypeOK, Roles, Known, Asked, Once, Reported, OutcomeReported, Busy, Tick, actors,
       owner, history
<1> QED BY <1>1, <1>2, <1>3, <1>4, <1>5, <1>6, <1>7, <1>8 DEF IInv

LEMMA BeatReadStep == ASSUME IInv, NEW a \in Thread, BeatRead(a) PROVE IInv'
<1> USE RunsAssumption DEF Place
<1>a. TypeOK /\ Roles /\ Known /\ Asked /\ Seen /\ Announced /\ Once /\ Reported
  BY DEF IInv
<1>1. TypeOK'
  BY <1>a DEF TypeOK, Roles, Known, Busy, Record, Status, Terminal, Absent, Actor, BeatRead, Raised,
       Go, file, owner, history
<1>2. Roles'
  BY <1>a DEF TypeOK, Roles, Known, Busy, BeatRead, Raised, Go, file, owner, history
<1>3. Known'
  BY <1>a DEF TypeOK, Roles, Known, Busy, Status, Terminal, BeatRead, Raised, Go, file, owner,
       history
<1>4. Asked'
  BY <1>a DEF TypeOK, Roles, Known, Asked, Busy, Writing, BeatRead, Raised, Go, file, owner, history
<1>5. Seen'
  BY <1>a DEF TypeOK, Roles, Known, Asked, Seen, Busy, Writing, BeatRead, Raised, Go, file, owner,
       history
<1>6. Announced'
  BY <1>a DEF TypeOK, Roles, Known, Asked, Announced, EndIsAnnounced, Busy, BeatRead, Raised, Go,
       file, owner, history
<1>7. Once'
  BY <1>a DEF TypeOK, Roles, Known, Once, Busy, BeatRead, Raised, Go, file, owner, history
<1>8. Reported'
  BY <1>a DEF TypeOK, Roles, Known, Asked, Once, Reported, OutcomeReported, Busy, BeatRead, Raised,
       Go, file, owner, history
<1> QED BY <1>1, <1>2, <1>3, <1>4, <1>5, <1>6, <1>7, <1>8 DEF IInv

LEMMA BeatWriteStep == ASSUME IInv, NEW a \in Thread, BeatWrite(a) PROVE IInv'
<1> USE RunsAssumption DEF Place
<1>a. TypeOK /\ Roles /\ Known /\ Asked /\ Seen /\ Announced /\ Once /\ Reported
  BY DEF IInv
<1>b. /\ at[a] = "holding" /\ on[a] \in Run /\ copy[a] \in Record /\ copy[a].status # "absent"
      /\ rec' = [rec EXCEPT ![on[a]] = Merged(copy[a], Notes(a))]
  BY <1>a DEF BeatWrite, Install, TypeOK, Known, Busy, Writing, Actor, Thread
<1>c. Merged(copy[a], Notes(a)) \in Record /\ Merged(copy[a], Notes(a)).status # "absent"
  BY <1>b, MergedRecord DEF Notes
<1>1. TypeOK'
  <2>1. rec' \in [Run -> Record]
    BY <1>a, <1>b, <1>c DEF TypeOK
  <2>2. at' \in [Actor -> Place]
    BY <1>a, <1>b DEF TypeOK, BeatWrite, Actor, Thread
  <2>3. copy' \in [Actor -> Record]
    BY <1>a DEF TypeOK, BeatWrite, Forget, Absent, Record, Status, Terminal
  <2>4. reports' \in Nat
    BY <1>a DEF TypeOK, BeatWrite
  <2> QED BY <1>a, <2>1, <2>2, <2>3, <2>4 DEF TypeOK, BeatWrite, Install, Fresh, history
<1>2. Roles'
  BY <1>a DEF TypeOK, Roles, Known, Busy, Actor, Thread, BeatWrite, Merged, Notes, Forget, Install,
       Fresh, history
<1>3. Known'
  <2>1. \A r \in Run : rec[r].status # "absent" => rec'[r].status # "absent"
    BY <1>a, <1>b, <1>c DEF TypeOK
  <2>2. rec'[on[a]].status # "absent"
    BY <1>a, <1>b, <1>c DEF TypeOK
  <2>3. \A b \in Actor : Busy(b)' => Busy(b) \/ b = on[a]
    BY <1>a, <1>b DEF TypeOK, Busy, BeatWrite, Roles, Actor, Thread
  <2>4. \A b \in Actor : at'[b] \in Writing => at[b] \in Writing /\ copy'[b] = copy[b]
    BY <1>a, <1>b DEF TypeOK, Writing, BeatWrite, Forget, Actor, Thread
  <2>5. at'[Worker] \in {"ending", "failing", "closing", "writing", "returning"} =>
          at[Worker] = at'[Worker] /\ copy'[Worker] = copy[Worker]
    BY <1>a, <1>b DEF TypeOK, BeatWrite, Forget, Actor, Thread
  <2>6. UNCHANGED <<on, queue, outcome, sole>>
    BY DEF BeatWrite, history
  <2> QED BY <1>a, <1>b, <2>1, <2>2, <2>3, <2>4, <2>5, <2>6 DEF Known, Roles
<1>4. Asked'
  BY <1>a DEF TypeOK, Roles, Known, Asked, Busy, Writing, Actor, BeatWrite, Merged, Notes, Forget,
       Install, Fresh, history
<1>5. Seen'
  BY <1>a DEF TypeOK, Roles, Known, Asked, Seen, Busy, Writing, Actor, BeatWrite, Merged, Notes,
       Forget, Install, Fresh, history
<1>6. Announced'
  BY <1>a DEF TypeOK, Roles, Known, Asked, Announced, EndIsAnnounced, Busy, Actor, Thread, Terminal,
       BeatWrite, Merged, Notes, Forget, Install, Fresh, history
<1>7. Once'
  BY <1>a DEF TypeOK, Roles, Known, Once, Busy, Actor, Thread, BeatWrite, Merged, Notes, Forget,
       Install, Fresh, history
<1>8. Reported'
  <2> SUFFICES ASSUME NEW q \in Run \ (asked' \cup stale'), outcome'[q] # "none"
               PROVE  /\ rec'[q] = [status |-> outcome'[q], cancel |-> FALSE]
                      /\ at'[q] = "holding" => copy'[q] = rec'[q]
    BY DEF Reported, OutcomeReported
  <2>1. /\ UNCHANGED history /\ copy' = [copy EXCEPT ![a] = Absent]
        /\ rec[q] = [status |-> outcome[q], cancel |-> FALSE] /\ (at[q] = "holding" => copy[q] = rec[q])
    BY <1>a DEF BeatWrite, Forget, Reported, OutcomeReported, history
  <2>2. CASE on[a] # q
    <3>1. a # q /\ q \in Actor
      BY <1>a, <2>2 DEF Roles, Actor, Thread
    <3>2. rec'[q] = rec[q] /\ copy'[q] = copy[q]
      BY <1>a, <1>b, <2>1, <2>2, <3>1 DEF TypeOK
    <3>3. at'[q] = at[q]
      BY <1>a, <2>2, <3>1 DEF BeatWrite, TypeOK
    <3> QED BY <2>1, <3>2, <3>3 DEF history
  <2>3. CASE on[a] = q
    <3>1. a = q
      BY <1>a, <1>b, <2>1, <2>3 DEF Once, Busy, Roles, Thread, history
    <3>2. copy[q] = rec[q] /\ rec[q].cancel = FALSE /\ Notes(a) = "none"
      BY <1>b, <2>1, <3>1 DEF Notes
    <3>3. rec'[q] = rec[q]
      BY <1>a, <1>b, <2>3, <3>1, <3>2, MergedRecord DEF TypeOK
    <3>4. at'[q] # "holding"
      BY <1>a, <3>1, <2>3 DEF BeatWrite, TypeOK, Actor, Thread
    <3> QED BY <2>1, <3>3, <3>4 DEF history
  <2> QED BY <2>2, <2>3
<1> QED BY <1>1, <1>2, <1>3, <1>4, <1>5, <1>6, <1>7, <1>8 DEF IInv

LEMMA BeatLookStep == ASSUME IInv, NEW r \in Run, BeatLook(r) PROVE IInv'
<1> USE RunsAssumption DEF Place
<1>a. TypeOK /\ Roles /\ Known /\ Asked /\ Seen /\ Announced /\ Once /\ Reported
  BY DEF IInv
<1>1. TypeOK'
  BY <1>a DEF TypeOK, Roles, Known, Busy, BeatLook, Go, file, owner, history
<1>2. Roles'
  BY <1>a DEF TypeOK, Roles, Known, Busy, BeatLook, Go, file, owner, history
<1>3. Known'
  BY <1>a DEF TypeOK, Roles, Known, Busy, Writing, BeatLook, Go, file, owner, history
<1>4. Asked'
  BY <1>a DEF TypeOK, Roles, Known, Asked, Busy, Writing, BeatLook, Go, file, owner, history
<1>5. Seen'
  BY <1>a DEF TypeOK, Roles, Known, Asked, Seen, Busy, Writing, BeatLook, Go, file, owner, history
<1>6. Announced'
  BY <1>a DEF TypeOK, Roles, Known, Asked, Announced, EndIsAnnounced, Busy, BeatLook, Go, file,
       owner, history
<1>7. Once'
  BY <1>a DEF TypeOK, Roles, Known, Once, Busy, BeatLook, Go, file, owner, history
<1>8. Reported'
  BY <1>a DEF TypeOK, Roles, Known, Asked, Once, Reported, OutcomeReported, Busy, BeatLook, Go,
       file, owner, history
<1> QED BY <1>1, <1>2, <1>3, <1>4, <1>5, <1>6, <1>7, <1>8 DEF IInv

(* The request that starts a run.                                          *)
LEMMA QueueStep == ASSUME IInv, NEW r \in Run, Queue(r) PROVE IInv'
<1> USE RunsAssumption DEF Place
<1>a. TypeOK /\ Roles /\ Known /\ Asked /\ Seen /\ Announced /\ Once /\ Reported
  BY DEF IInv
<1>1. TypeOK'
  BY <1>a DEF TypeOK, Roles, Known, Busy, Record, Status, Queue, Go, Install, Fresh, owner, history
<1>2. Roles'
  BY <1>a DEF TypeOK, Roles, Known, Busy, Queue, Go, Install, Fresh, owner, history
<1>3. Known'
  BY <1>a DEF TypeOK, Roles, Known, Busy, Writing, Queue, Go, Install, Fresh, owner, history
<1>4. Asked'
  BY <1>a DEF TypeOK, Roles, Known, Asked, Busy, Writing, Queue, Go, Install, Fresh, owner, history
<1>5. Seen'
  BY <1>a DEF TypeOK, Roles, Known, Asked, Seen, Busy, Queue, Go, Install, Fresh, owner, history
<1>6. Announced'
  BY <1>a DEF TypeOK, Roles, Known, Asked, Announced, EndIsAnnounced, Busy, Terminal, Queue, Go,
       Install, Fresh, owner, history
<1>7. Once'
  BY <1>a DEF TypeOK, Roles, Known, Once, Busy, Actor, Thread, Queue, Go, Install, Fresh, owner,
       history
<1>8. Reported'
  <2> SUFFICES ASSUME NEW q \in Run \ (asked' \cup stale'), outcome'[q] # "none"
               PROVE  /\ rec'[q] = [status |-> outcome'[q], cancel |-> FALSE]
                      /\ at'[q] = "holding" => copy'[q] = rec'[q]
    BY DEF Reported, OutcomeReported
  <2>1. UNCHANGED <<history, copy>> /\ q # r
    BY <1>a DEF Queue, Known, history
  <2>2. rec'[q] = rec[q] /\ at'[q] = at[q]
    BY <1>a, <2>1 DEF Queue, Install, Go, TypeOK
  <2> QED BY <1>a, <2>1, <2>2 DEF Reported, OutcomeReported, history
<1> QED BY <1>1, <1>2, <1>3, <1>4, <1>5, <1>6, <1>7, <1>8 DEF IInv

LEMMA SubmitStep == ASSUME IInv, Submit PROVE IInv'
<1> USE RunsAssumption DEF Place
<1>a. TypeOK /\ Roles /\ Known /\ Asked /\ Seen /\ Announced /\ Once /\ Reported
  BY DEF IInv
<1>1. TypeOK'
  BY <1>a DEF TypeOK, Roles, Known, Busy, Status, Terminal, Actor, Thread, Submit, Go, file, history
<1>2. Roles'
  BY <1>a DEF TypeOK, Roles, Known, Busy, Submit, Go, file, history
<1>3. Known'
  BY <1>a DEF TypeOK, Roles, Known, Busy, Writing, Actor, Thread, Submit, Go, file, history
<1>4. Asked'
  BY <1>a DEF TypeOK, Roles, Known, Asked, Busy, Writing, Submit, Go, file, history
<1>5. Seen'
  BY <1>a DEF TypeOK, Roles, Known, Asked, Seen, Busy, Writing, Submit, Go, file, history
<1>6. Announced'
  BY <1>a DEF TypeOK, Roles, Known, Asked, Announced, EndIsAnnounced, Busy, Submit, Go, file,
       history
<1>7. Once'
  BY <1>a DEF TypeOK, Roles, Known, Once, Busy, Actor, Thread, Submit, Go, file, history
<1>8. Reported'
  BY <1>a DEF TypeOK, Roles, Known, Asked, Once, Reported, OutcomeReported, Busy, Submit, Go, file,
       history
<1> QED BY <1>1, <1>2, <1>3, <1>4, <1>5, <1>6, <1>7, <1>8 DEF IInv

(* The worker, from the queue to the end of a run.                         *)
LEMMA TakeStep == ASSUME IInv, Take PROVE IInv'
<1> USE RunsAssumption DEF Place
<1>a. TypeOK /\ Roles /\ Known /\ Asked /\ Seen /\ Announced /\ Once /\ Reported
  BY DEF IInv
<1>1. TypeOK'
  BY <1>a DEF TypeOK, Roles, Known, Busy, Actor, Thread, Take, Go, file, history
<1>2. Roles'
  BY <1>a DEF TypeOK, Roles, Known, Busy, Take, Go, file, history
<1>3. Known'
  BY <1>a DEF TypeOK, Roles, Known, Busy, Writing, Take, Go, file, history
<1>4. Asked'
  BY <1>a DEF TypeOK, Roles, Known, Asked, Busy, Writing, Take, Go, file, history
<1>5. Seen'
  BY <1>a DEF TypeOK, Roles, Known, Asked, Seen, Busy, Writing, Take, Go, file, history
<1>6. Announced'
  BY <1>a DEF TypeOK, Roles, Known, Asked, Announced, EndIsAnnounced, Busy, Take, Go, file, history
<1>7. Once'
  BY <1>a DEF TypeOK, Roles, Known, Once, Busy, Take, Go, file, history
<1>8. Reported'
  BY <1>a DEF TypeOK, Roles, Known, Asked, Once, Reported, OutcomeReported, Busy, Take, Go, file,
       history
<1> QED BY <1>1, <1>2, <1>3, <1>4, <1>5, <1>6, <1>7, <1>8 DEF IInv

LEMMA CheckStep == ASSUME IInv, Check PROVE IInv'
<1> USE RunsAssumption DEF Place
<1>a. TypeOK /\ Roles /\ Known /\ Asked /\ Seen /\ Announced /\ Once /\ Reported
  BY DEF IInv
<1>1. TypeOK'
  <2>1. at' \in [Actor -> Place]
    BY <1>a DEF TypeOK, Check, FailWith, Go
  <2>2. copy' = copy \/ \E v \in Terminal : copy' = [copy EXCEPT ![Worker] = [status |-> v, cancel |-> FALSE]]
    BY DEF Check, FailWith, Terminal
  <2>3. \A v \in Terminal : [status |-> v, cancel |-> FALSE] \in Record
    BY DEF Record, Status
  <2>4. copy' \in [Actor -> Record]
    BY <1>a, <2>2, <2>3 DEF TypeOK
  <2> QED BY <1>a, <2>1, <2>4 DEF TypeOK, Check, file, owner, history
<1>2. Roles'
  BY <1>a DEF TypeOK, Roles, Known, Busy, Actor, Thread, Check, FailWith, Go, file, owner, history
<1>3. Known'
  BY <1>a DEF TypeOK, Roles, Known, Busy, Writing, Terminal, Actor, Thread, Check, FailWith, Go,
       file, owner, history
<1>4. Asked'
  BY <1>a DEF TypeOK, Roles, Known, Asked, Busy, Writing, Actor, Check, FailWith, Go, file, owner,
       history
<1>5. Seen'
  BY <1>a DEF TypeOK, Roles, Known, Asked, Seen, Busy, Writing, Check, FailWith, Go, file, owner,
       history
<1>6. Announced'
  BY <1>a DEF TypeOK, Roles, Known, Asked, Announced, EndIsAnnounced, Busy, Actor, Check, FailWith,
       Go, file, owner, history
<1>7. Once'
  BY <1>a DEF TypeOK, Roles, Known, Once, Busy, Actor, Thread, Check, FailWith, Go, file, owner,
       history
<1>8. Reported'
  BY <1>a DEF TypeOK, Roles, Known, Asked, Once, Reported, OutcomeReported, Busy, Actor, Thread,
       Check, FailWith, Go, file, owner, history
<1> QED BY <1>1, <1>2, <1>3, <1>4, <1>5, <1>6, <1>7, <1>8 DEF IInv

LEMMA StartStep == ASSUME IInv, Start PROVE IInv'
<1> USE RunsAssumption DEF Place
<1>a. TypeOK /\ Roles /\ Known /\ Asked /\ Seen /\ Announced /\ Once /\ Reported
  BY DEF IInv
<1>1. TypeOK'
  BY <1>a DEF TypeOK, Roles, Known, Busy, Record, Status, Start, LockFree, Go, Install, Fresh,
       owner, history
<1>2. Roles'
  BY <1>a DEF TypeOK, Roles, Known, Busy, Start, LockFree, Go, Install, Fresh, owner, history
<1>3. Known'
  BY <1>a DEF TypeOK, Roles, Known, Busy, Writing, Start, LockFree, Go, Install, Fresh, owner,
       history
<1>4. Asked'
  BY <1>a DEF TypeOK, Roles, Known, Asked, Busy, Writing, Start, LockFree, Go, Install, Fresh,
       owner, history
<1>5. Seen'
  BY <1>a DEF TypeOK, Roles, Known, Asked, Seen, Busy, Actor, Thread, Start, LockFree, Go, Install,
       Fresh, owner, history
<1>6. Announced'
  BY <1>a DEF TypeOK, Roles, Known, Asked, Announced, EndIsAnnounced, Busy, Terminal, Start,
       LockFree, Go, Install, Fresh, owner, history
<1>7. Once'
  BY <1>a DEF TypeOK, Roles, Known, Once, Busy, Start, LockFree, Go, Install, Fresh, owner, history
<1>8. Reported'
  <2> SUFFICES ASSUME NEW q \in Run \ (asked' \cup stale'), outcome'[q] # "none"
               PROVE  /\ rec'[q] = [status |-> outcome'[q], cancel |-> FALSE]
                      /\ at'[q] = "holding" => copy'[q] = rec'[q]
    BY DEF Reported, OutcomeReported
  <2>1. UNCHANGED <<history, copy>> /\ q # on[Worker]
    BY <1>a DEF Start, Once, Busy, history, Actor, Thread
  <2>2. rec'[q] = rec[q] /\ at'[q] = at[q]
    BY <1>a, <2>1 DEF Start, Install, Go, TypeOK
  <2> QED BY <1>a, <2>1, <2>2 DEF Reported, OutcomeReported, history
<1> QED BY <1>1, <1>2, <1>3, <1>4, <1>5, <1>6, <1>7, <1>8 DEF IInv

LEMMA ReportStep == ASSUME IInv, Report PROVE IInv'
<1> USE RunsAssumption DEF Place
<1>a. TypeOK /\ Roles /\ Known /\ Asked /\ Seen /\ Announced /\ Once /\ Reported
  BY DEF IInv
<1>1. TypeOK'
  BY <1>a DEF TypeOK, Roles, Known, Busy, Report, Go, file, owner, history
<1>2. Roles'
  BY <1>a DEF TypeOK, Roles, Known, Busy, Report, Go, file, owner, history
<1>3. Known'
  BY <1>a DEF TypeOK, Roles, Known, Busy, Writing, Report, Go, file, owner, history
<1>4. Asked'
  BY <1>a DEF TypeOK, Roles, Known, Asked, Busy, Writing, Report, Go, file, owner, history
<1>5. Seen'
  BY <1>a DEF TypeOK, Roles, Known, Asked, Seen, Busy, Writing, Report, Go, file, owner, history
<1>6. Announced'
  BY <1>a DEF TypeOK, Roles, Known, Asked, Announced, EndIsAnnounced, Busy, Report, Go, file, owner,
       history
<1>7. Once'
  BY <1>a DEF TypeOK, Roles, Known, Once, Busy, Report, Go, file, owner, history
<1>8. Reported'
  BY <1>a DEF TypeOK, Roles, Known, Asked, Once, Reported, OutcomeReported, Busy, Report, Go, file,
       owner, history
<1> QED BY <1>1, <1>2, <1>3, <1>4, <1>5, <1>6, <1>7, <1>8 DEF IInv

LEMMA ObserveStep == ASSUME IInv, Observe PROVE IInv'
<1> USE RunsAssumption DEF Place
<1>a. TypeOK /\ Roles /\ Known /\ Asked /\ Seen /\ Announced /\ Once /\ Reported
  BY DEF IInv
<1>1. TypeOK'
  <2>1. at' \in [Actor -> Place]
    BY <1>a DEF TypeOK, Observe, FailWith, Go
  <2>2. copy' = copy \/ \E v \in Terminal : copy' = [copy EXCEPT ![Worker] = [status |-> v, cancel |-> FALSE]]
    BY DEF Observe, FailWith, Terminal
  <2>3. \A v \in Terminal : [status |-> v, cancel |-> FALSE] \in Record
    BY DEF Record, Status
  <2>4. copy' \in [Actor -> Record]
    BY <1>a, <2>2, <2>3 DEF TypeOK
  <2> QED BY <1>a, <2>1, <2>4 DEF TypeOK, Observe, file, owner, history
<1>2. Roles'
  BY <1>a DEF TypeOK, Roles, Known, Busy, Actor, Thread, Observe, FailWith, Go, file, owner, history
<1>3. Known'
  BY <1>a DEF TypeOK, Roles, Known, Busy, Terminal, Actor, Observe, FailWith, Go, file, owner,
       history
<1>4. Asked'
  BY <1>a DEF TypeOK, Roles, Known, Asked, Busy, Actor, Observe, FailWith, Go, file, owner, history
<1>5. Seen'
  BY <1>a DEF TypeOK, Roles, Known, Asked, Seen, Busy, Writing, Observe, FailWith, Go, file, owner,
       history
<1>6. Announced'
  BY <1>a DEF TypeOK, Roles, Known, Asked, Announced, EndIsAnnounced, Busy, Actor, Observe,
       FailWith, Go, file, owner, history
<1>7. Once'
  BY <1>a DEF TypeOK, Roles, Known, Once, Busy, Actor, Thread, Observe, FailWith, Go, file, owner,
       history
<1>8. Reported'
  BY <1>a DEF TypeOK, Roles, Known, Asked, Once, Reported, OutcomeReported, Busy, Actor, Thread,
       Observe, FailWith, Go, file, owner, history
<1> QED BY <1>1, <1>2, <1>3, <1>4, <1>5, <1>6, <1>7, <1>8 DEF IInv

LEMMA ReturnStep == ASSUME IInv, NEW v \in Verdicts, Return(v) PROVE IInv'
<1> USE RunsAssumption DEF Place
<1>a. TypeOK /\ Roles /\ Known /\ Asked /\ Seen /\ Announced /\ Once /\ Reported
  BY DEF IInv
<1>1. TypeOK'
  BY <1>a DEF TypeOK, Roles, Known, Busy, Record, Status, Terminal, Return, Verdicts, Go, Forget,
       Done, Install, Fresh, file, actors, owner, history
<1>2. Roles'
  BY <1>a DEF TypeOK, Roles, Known, Busy, Return, Go, file, owner, history
<1>3. Known'
  BY <1>a DEF TypeOK, Roles, Known, Busy, Terminal, Return, Verdicts, Go, Forget, Done, Install,
       Fresh, file, actors, owner, history
<1>4. Asked'
  BY <1>a DEF TypeOK, Roles, Known, Asked, Busy, Return, Go, file, owner, history
<1>5. Seen'
  BY <1>a DEF TypeOK, Roles, Known, Asked, Seen, Busy, Writing, Return, Go, file, owner, history
<1>6. Announced'
  BY <1>a DEF TypeOK, Roles, Known, Asked, Announced, EndIsAnnounced, Busy, Return, Go, file, owner,
       history
<1>7. Once'
  BY <1>a DEF TypeOK, Roles, Known, Once, Busy, Return, Go, file, owner, history
<1>8. Reported'
  BY <1>a DEF TypeOK, Roles, Known, Asked, Once, Reported, OutcomeReported, Busy, Return, Go, file,
       owner, history
<1> QED BY <1>1, <1>2, <1>3, <1>4, <1>5, <1>6, <1>7, <1>8 DEF IInv

LEMMA FinishReadStep == ASSUME IInv, FinishRead PROVE IInv'
<1> USE RunsAssumption DEF Place
<1>a. TypeOK /\ Roles /\ Known /\ Asked /\ Seen /\ Announced /\ Once /\ Reported
  BY DEF IInv
<1>1. TypeOK'
  BY <1>a DEF TypeOK, Roles, Known, Busy, Record, Status, Terminal, Actor, Thread, FinishRead,
       Escapes, Go, file, history
<1>2. Roles'
  BY <1>a DEF TypeOK, Roles, Known, Busy, Actor, Thread, FinishRead, Escapes, Go, file, history
<1>3. Known'
  BY <1>a DEF TypeOK, Roles, Known, Busy, Record, Status, Terminal, Actor, Thread, FinishRead,
       Escapes, Go, file, history
<1>4. Asked'
  BY <1>a DEF TypeOK, Roles, Known, Asked, Busy, Writing, Record, Actor, FinishRead, Escapes, Go,
       file, history
<1>5. Seen'
  BY <1>a DEF TypeOK, Roles, Known, Asked, Seen, Busy, Writing, Record, FinishRead, Escapes, Go,
       file, history
<1>6. Announced'
  BY <1>a DEF TypeOK, Roles, Known, Asked, Announced, EndIsAnnounced, Busy, Actor, Terminal,
       FinishRead, Escapes, Go, file, history
<1>7. Once'
  BY <1>a DEF TypeOK, Roles, Known, Once, Busy, Actor, Thread, FinishRead, Escapes, Go, file,
       history
<1>8. Reported'
  BY <1>a DEF TypeOK, Roles, Known, Asked, Once, Reported, OutcomeReported, Busy, Actor, Thread,
       FinishRead, Escapes, Go, file, history
<1> QED BY <1>1, <1>2, <1>3, <1>4, <1>5, <1>6, <1>7, <1>8 DEF IInv

LEMMA FinishEventStep == ASSUME IInv, FinishEvent PROVE IInv'
<1> USE RunsAssumption DEF Place
<1>a. TypeOK /\ Roles /\ Known /\ Asked /\ Seen /\ Announced /\ Once /\ Reported
  BY DEF IInv
<1>1. TypeOK'
  BY <1>a DEF TypeOK, Roles, Known, Busy, Actor, Thread, FinishEvent, Go, file, owner, history
<1>2. Roles'
  BY <1>a DEF TypeOK, Roles, Known, Busy, FinishEvent, Go, file, owner, history
<1>3. Known'
  BY <1>a DEF TypeOK, Roles, Known, Busy, Writing, FinishEvent, Go, file, owner, history
<1>4. Asked'
  BY <1>a DEF TypeOK, Roles, Known, Asked, Busy, Writing, FinishEvent, Go, file, owner, history
<1>5. Seen'
  BY <1>a DEF TypeOK, Roles, Known, Asked, Seen, Busy, Writing, FinishEvent, Go, file, owner,
       history
<1>6. Announced'
  BY <1>a DEF TypeOK, Roles, Known, Asked, Announced, EndIsAnnounced, Busy, FinishEvent, Go, file,
       owner, history
<1>7. Once'
  BY <1>a DEF TypeOK, Roles, Known, Once, Busy, FinishEvent, Go, file, owner, history
<1>8. Reported'
  BY <1>a DEF TypeOK, Roles, Known, Asked, Once, Reported, OutcomeReported, Busy, FinishEvent, Go,
       file, owner, history
<1> QED BY <1>1, <1>2, <1>3, <1>4, <1>5, <1>6, <1>7, <1>8 DEF IInv

LEMMA FinishWriteStep == ASSUME IInv, FinishWrite PROVE IInv'
<1> USE RunsAssumption DEF Place
<1>a. TypeOK /\ Roles /\ Known /\ Asked /\ Seen /\ Announced /\ Once /\ Reported
  BY DEF IInv
<1>1. TypeOK'
  BY <1>a DEF TypeOK, Roles, Known, Busy, Actor, Thread, FinishWrite, LockFree, Go, Install, Fresh,
       owner
<1>2. Roles'
  BY <1>a DEF TypeOK, Roles, Known, Busy, FinishWrite, LockFree, Go, Install, Fresh, owner
<1>3. Known'
  BY <1>a DEF TypeOK, Roles, Known, Busy, Terminal, FinishWrite, LockFree, Go, Install, Fresh, owner
<1>4. Asked'
  BY <1>a DEF TypeOK, Roles, Known, Asked, Busy, Writing, Actor, Thread, FinishWrite, LockFree, Go,
       Install, Fresh, owner
<1>5. Seen'
  BY <1>a DEF TypeOK, Roles, Known, Asked, Seen, Busy, Writing, Actor, Thread, FinishWrite,
       LockFree, Go, Install, Fresh, owner
<1>6. Announced'
  BY <1>a DEF TypeOK, Roles, Known, Asked, Announced, EndIsAnnounced, Busy, FinishWrite, LockFree,
       Go, Install, Fresh, owner
<1>7. Once'
  BY <1>a DEF TypeOK, Roles, Known, Once, Busy, FinishWrite, LockFree, Go, Install, Fresh, owner
<1>8. Reported'
  <2> SUFFICES ASSUME NEW q \in Run \ (asked' \cup stale'), outcome'[q] # "none"
               PROVE  /\ rec'[q] = [status |-> outcome'[q], cancel |-> FALSE]
                      /\ at'[q] = "holding" => copy'[q] = rec'[q]
    BY DEF Reported, OutcomeReported
  <2>1. /\ UNCHANGED <<asked, stale, copy>> /\ at[Worker] = "writing"
        /\ rec' = [rec EXCEPT ![on[Worker]] = copy[Worker]]
        /\ outcome' = [outcome EXCEPT ![on[Worker]] = copy[Worker].status]
        /\ at' = [at EXCEPT ![Worker] = "returning"]
    BY DEF FinishWrite, Install, Go
  <2>2. CASE q # on[Worker]
    <3>1. rec'[q] = rec[q] /\ outcome'[q] = outcome[q] /\ at'[q] = at[q]
      BY <1>a, <2>1, <2>2 DEF TypeOK
    <3> QED BY <1>a, <2>1, <3>1 DEF Reported, OutcomeReported
  <2>3. CASE q = on[Worker]
    <3>1. copy[Worker] \in Record /\ copy[Worker].cancel = FALSE
      BY <1>a, <2>1, <2>3 DEF Asked, Writing, TypeOK, Record, Actor, Thread
    <3>2. rec'[q] = copy[Worker] /\ outcome'[q] = copy[Worker].status
      BY <1>a, <2>1, <2>3 DEF TypeOK
    <3>3. at'[q] # "holding"
      BY <1>a, <2>1, <2>3 DEF FinishWrite, LockFree, Roles, TypeOK, Thread
    <3> QED BY <3>1, <3>2, <3>3 DEF Record
  <2> QED BY <2>2, <2>3
<1> QED BY <1>1, <1>2, <1>3, <1>4, <1>5, <1>6, <1>7, <1>8 DEF IInv

LEMMA FinishReturnStep == ASSUME IInv, FinishReturn PROVE IInv'
<1> USE RunsAssumption DEF Place
<1>a. TypeOK /\ Roles /\ Known /\ Asked /\ Seen /\ Announced /\ Once /\ Reported
  BY DEF IInv
<1>1. TypeOK'
  <2>1. Absent \in Record /\ copy[Worker] \in Record
    BY <1>a DEF TypeOK, Absent, Record, Status, Actor, Thread
  <2>2. \A s \in Status : [copy[Worker] EXCEPT !.status = s] \in Record
    BY <2>1 DEF Record
  <2>3. "failed" \in Status /\ copy[Worker].status \in Status
    BY <2>1 DEF Record, Status, Terminal
  <2>4. copy' \in [Actor -> Record]
    <3>1. CASE Escapes(Ending)
      <4>1. \E s \in Status : copy' = [copy EXCEPT ![Worker].status = s]
        BY <3>1, <2>3 DEF Escapes
      <4> QED BY <1>a, <2>2, <4>1 DEF TypeOK, Actor, Thread
    <3>2. CASE Forget(Worker)
      BY <1>a, <2>1, <3>2 DEF TypeOK, Forget
    <3> QED BY <3>1, <3>2 DEF FinishReturn
  <2>5. at' \in [Actor -> Place]
    BY <1>a DEF FinishReturn, Escapes, Go, TypeOK
  <2> QED BY <1>a, <2>4, <2>5 DEF FinishReturn, TypeOK, file, owner, history
<1>2. Roles'
  BY <1>a DEF TypeOK, Roles, Known, Busy, Actor, Thread, FinishReturn, Escapes, Ending, Go, Forget,
       file, owner, history
<1>3. Known'
  BY <1>a DEF TypeOK, Roles, Known, Busy, Writing, Record, Terminal, Actor, Thread, FinishReturn,
       Escapes, Ending, Go, Forget, file, owner, history
<1>4. Asked'
  BY <1>a DEF TypeOK, Roles, Known, Asked, Busy, Writing, Actor, FinishReturn, Escapes, Ending, Go,
       Forget, file, owner, history
<1>5. Seen'
  BY <1>a DEF TypeOK, Roles, Known, Asked, Seen, Busy, Writing, FinishReturn, Escapes, Ending, Go,
       Forget, file, owner, history
<1>6. Announced'
  BY <1>a DEF TypeOK, Roles, Known, Asked, Announced, EndIsAnnounced, Busy, Actor, Thread,
       FinishReturn, Escapes, Ending, Go, Forget, file, owner, history
<1>7. Once'
  BY <1>a DEF TypeOK, Roles, Known, Once, Busy, Actor, Thread, FinishReturn, Escapes, Ending, Go,
       Forget, file, owner, history
<1>8. Reported'
  BY <1>a DEF TypeOK, Roles, Known, Asked, Once, Reported, OutcomeReported, Busy, Actor, Thread,
       FinishReturn, Escapes, Ending, Go, Forget, file, owner, history
<1> QED BY <1>1, <1>2, <1>3, <1>4, <1>5, <1>6, <1>7, <1>8 DEF IInv

(* The requests of clients.                                                *)
LEMMA LookStep == ASSUME IInv, NEW c \in Client, NEW r \in Run, Look(c, r) PROVE IInv'
<1> USE RunsAssumption DEF Place
<1>a. TypeOK /\ Roles /\ Known /\ Asked /\ Seen /\ Announced /\ Once /\ Reported
  BY DEF IInv
<1>1. TypeOK'
  BY <1>a DEF TypeOK, Roles, Known, Busy, Record, Status, Terminal, Actor, Thread, Look, Stale, Go,
       file, owner
<1>2. Roles'
  BY <1>a DEF TypeOK, Roles, Known, Busy, Look, Stale, Go, file, owner
<1>3. Known'
  BY <1>a DEF TypeOK, Roles, Known, Busy, Look, Stale, Go, file, owner
<1>4. Asked'
  BY <1>a DEF TypeOK, Roles, Known, Asked, Busy, Look, Stale, Go, file, owner
<1>5. Seen'
  BY <1>a DEF TypeOK, Roles, Known, Asked, Seen, Busy, Look, Stale, Go, file, owner
<1>6. Announced'
  BY <1>a DEF TypeOK, Roles, Known, Asked, Announced, EndIsAnnounced, Busy, Look, Stale, Go, file,
       owner
<1>7. Once'
  BY <1>a DEF TypeOK, Roles, Known, Once, Busy, Look, Stale, Go, file, owner
<1>8. Reported'
  BY <1>a DEF TypeOK, Roles, Known, Asked, Once, Reported, OutcomeReported, Busy, Look, Stale, Go,
       file, owner
<1> QED BY <1>1, <1>2, <1>3, <1>4, <1>5, <1>6, <1>7, <1>8 DEF IInv

LEMMA TruncateStep == ASSUME IInv, NEW c \in Client, Truncate(c) PROVE IInv'
<1> USE RunsAssumption DEF Place
<1>a. TypeOK /\ Roles /\ Known /\ Asked /\ Seen /\ Announced /\ Once /\ Reported
  BY DEF IInv
<1>1. TypeOK'
  BY <1>a DEF TypeOK, Roles, Known, Busy, Status, Terminal, Actor, Truncate, Go, owner, history
<1>2. Roles'
  BY <1>a DEF TypeOK, Roles, Known, Busy, Truncate, Go, owner, history
<1>3. Known'
  BY <1>a DEF TypeOK, Roles, Known, Busy, Writing, Truncate, Go, owner, history
<1>4. Asked'
  BY <1>a DEF TypeOK, Roles, Known, Asked, Busy, Writing, Truncate, Go, owner, history
<1>5. Seen'
  BY <1>a DEF TypeOK, Roles, Known, Asked, Seen, Busy, Writing, Truncate, Go, owner, history
<1>6. Announced'
  BY <1>a DEF TypeOK, Roles, Known, Asked, Announced, EndIsAnnounced, Busy, Truncate, Go, owner,
       history
<1>7. Once'
  BY <1>a DEF TypeOK, Roles, Known, Once, Busy, Truncate, Go, owner, history
<1>8. Reported'
  BY <1>a DEF TypeOK, Roles, Known, Asked, Once, Reported, OutcomeReported, Busy, Truncate, Go,
       owner, history
<1> QED BY <1>1, <1>2, <1>3, <1>4, <1>5, <1>6, <1>7, <1>8 DEF IInv

LEMMA RewriteStep == ASSUME IInv, NEW c \in Client, Rewrite(c) PROVE IInv'
<1> USE RunsAssumption DEF Place
<1>a. TypeOK /\ Roles /\ Known /\ Asked /\ Seen /\ Announced /\ Once /\ Reported
  BY DEF IInv
<1>b. /\ at[c] = "rewriting" /\ on[c] \in Run /\ on[c] \in stale /\ c \in Actor
      /\ copy[c] \in Record /\ copy[c].status # "absent"
  BY <1>a DEF Rewrite, TypeOK, Known, Asked, Busy, Writing, Actor, Thread
<1>c. /\ rec' = rec \/ rec' = [rec EXCEPT ![on[c]] = copy[c]]
      /\ empty' = empty \/ empty' = [empty EXCEPT ![on[c]] = FALSE]
      /\ writers' = writers \/ writers' = [writers EXCEPT ![on[c]] = @ \ {c}]
      /\ closed' = closed \cup {on[c]}
      /\ at' = [at EXCEPT ![c] = "idle"] /\ copy' = [copy EXCEPT ![c] = Absent] /\ on' = [on EXCEPT ![c] = NoRun]
      /\ UNCHANGED <<old, owner, cancels, crashes, history>>
  BY DEF Rewrite, Done, Go, Forget
<1>1. TypeOK'
  <2>1. rec' \in [Run -> Record]
    BY <1>a, <1>b, <1>c DEF TypeOK
  <2>2. empty' \in [Run -> BOOLEAN]
    BY <1>a, <1>b, <1>c DEF TypeOK
  <2>3. writers' \in [Run -> SUBSET Client]
    <3>1. writers[on[c]] \ {c} \in SUBSET Client
      BY <1>a, <1>b DEF TypeOK
    <3> QED BY <1>a, <1>b, <1>c, <3>1 DEF TypeOK
  <2>4. rec' \in [Run -> Record] /\ empty' \in [Run -> BOOLEAN] /\ writers' \in [Run -> SUBSET Client]
    BY <2>1, <2>2, <2>3
  <2>5. copy' \in [Actor -> Record]
    BY <1>a, <1>c DEF TypeOK, Absent, Record, Status
  <2> QED BY <1>a, <1>b, <1>c, <2>4, <2>5 DEF TypeOK, owner, history
<1>2. Roles'
  BY <1>a DEF TypeOK, Roles, Known, Busy, Rewrite, Go, Forget, Done, owner, history
<1>3. Known'
  <2>1. \A r \in Run : rec[r].status # "absent" => rec'[r].status # "absent"
    BY <1>a, <1>b, <1>c DEF TypeOK
  <2>2. \A a \in Actor : a # c => at'[a] = at[a] /\ on'[a] = on[a] /\ copy'[a] = copy[a]
    BY <1>a, <1>c DEF TypeOK
  <2>3. c \notin Run /\ c # Worker /\ at'[c] = "idle"
    BY <1>a, <1>b, <1>c DEF TypeOK
  <2>4. Worker \in Actor /\ UNCHANGED <<queue, outcome, sole>>
    BY <1>c DEF Actor, Thread, owner, history
  <2>5. \A a \in Actor : Busy(a)' => on'[a] \in Run /\ rec'[on'[a]].status # "absent"
    <3> SUFFICES ASSUME NEW a \in Actor, Busy(a)' PROVE on'[a] \in Run /\ rec'[on'[a]].status # "absent"
      OBVIOUS
    <3>1. a # c
      BY <2>3 DEF Busy
    <3>2. Busy(a)
      BY <2>2, <3>1 DEF Busy
    <3> QED BY <1>a, <2>1, <2>2, <3>1, <3>2 DEF Known
  <2>6. \A i \in DOMAIN queue' : rec'[queue'[i]].status # "absent"
    <3> SUFFICES ASSUME NEW i \in DOMAIN queue PROVE rec'[queue[i]].status # "absent"
      BY <2>4
    <3>1. queue[i] \in Run
      BY <1>a DEF TypeOK
    <3> QED BY <1>a, <2>1, <3>1 DEF Known
  <2>7. \A a \in Actor : at'[a] \in Writing => copy'[a].status # "absent"
    BY <1>a, <2>2, <2>3 DEF Known, Writing
  <2>8. at'[Worker] = at[Worker] /\ copy'[Worker] = copy[Worker]
    BY <2>2, <2>3, <2>4
  <2>9. \A r \in Run : outcome'[r] # "none" \/ r \in sole' => rec'[r].status # "absent"
    BY <1>a, <2>1, <2>4 DEF Known
  <2> QED BY <1>a, <2>5, <2>6, <2>7, <2>8, <2>9 DEF Known
<1>4. Asked'
  <2>1. \A r \in Run : (rec'[r].cancel => r \in asked) /\ (empty'[r] => r \in stale)
    BY <1>a, <1>b, <1>c DEF Asked, Writing, TypeOK
  <2>2. \A a \in Actor : a # c => at'[a] = at[a] /\ on'[a] = on[a] /\ copy'[a] = copy[a]
    BY <1>a, <1>c DEF TypeOK
  <2>3. at'[c] = "idle"
    BY <1>a, <1>b, <1>c DEF TypeOK
  <2> QED BY <1>a, <1>c, <2>1, <2>2, <2>3 DEF Asked, Writing, history, Actor
<1>5. Seen'
  BY <1>a DEF TypeOK, Roles, Known, Asked, Seen, Busy, Writing, Actor, Rewrite, Go, Forget, Done,
       owner, history
<1>6. Announced'
  BY <1>a DEF TypeOK, Roles, Known, Asked, Announced, EndIsAnnounced, Busy, Rewrite, Go, Forget,
       Done, owner, history
<1>7. Once'
  BY <1>a DEF TypeOK, Roles, Known, Once, Busy, Rewrite, Go, Forget, Done, owner, history
<1>8. Reported'
  <2> SUFFICES ASSUME NEW q \in Run \ (asked' \cup stale'), outcome'[q] # "none"
               PROVE  /\ rec'[q] = [status |-> outcome'[q], cancel |-> FALSE]
                      /\ at'[q] = "holding" => copy'[q] = rec'[q]
    BY DEF Reported, OutcomeReported
  <2>1. q # on[c] /\ q # c /\ UNCHANGED history
    BY <1>b, <1>c DEF history
  <2>2. rec'[q] = rec[q] /\ at'[q] = at[q] /\ copy'[q] = copy[q]
    BY <1>a, <1>c, <2>1 DEF TypeOK
  <2> QED BY <1>a, <2>1, <2>2 DEF Reported, OutcomeReported, history
<1> QED BY <1>1, <1>2, <1>3, <1>4, <1>5, <1>6, <1>7, <1>8 DEF IInv

LEMMA CancelReadStep == ASSUME IInv, NEW c \in Client, NEW r \in Run, CancelRead(c, r) PROVE IInv'
<1> USE RunsAssumption DEF Place
<1>a. TypeOK /\ Roles /\ Known /\ Asked /\ Seen /\ Announced /\ Once /\ Reported
  BY DEF IInv
<1>1. TypeOK'
  BY <1>a DEF TypeOK, Roles, Known, Busy, Actor, CancelRead, Go, file, owner
<1>2. Roles'
  BY <1>a DEF TypeOK, Roles, Known, Busy, CancelRead, Go, file, owner
<1>3. Known'
  BY <1>a DEF TypeOK, Roles, Known, Busy, CancelRead, Go, file, owner
<1>4. Asked'
  BY <1>a DEF TypeOK, Roles, Known, Asked, Busy, CancelRead, Go, file, owner
<1>5. Seen'
  BY <1>a DEF TypeOK, Roles, Known, Asked, Seen, Busy, CancelRead, Go, file, owner
<1>6. Announced'
  BY <1>a DEF TypeOK, Roles, Known, Asked, Announced, EndIsAnnounced, Busy, CancelRead, Go, file,
       owner
<1>7. Once'
  BY <1>a DEF TypeOK, Roles, Known, Once, Busy, CancelRead, Go, file, owner
<1>8. Reported'
  BY <1>a DEF TypeOK, Roles, Known, Asked, Once, Reported, OutcomeReported, Busy, CancelRead, Go,
       file, owner
<1> QED BY <1>1, <1>2, <1>3, <1>4, <1>5, <1>6, <1>7, <1>8 DEF IInv

LEMMA CancelWriteStep == ASSUME IInv, NEW c \in Client, CancelWrite(c) PROVE IInv'
<1> USE RunsAssumption DEF Place
<1>a. TypeOK /\ Roles /\ Known /\ Asked /\ Seen /\ Announced /\ Once /\ Reported
  BY DEF IInv
<1>1. TypeOK'
  BY <1>a DEF TypeOK, Roles, Known, Busy, Record, Status, Absent, Actor, CancelWrite, InFlight, Go,
       Forget, Done, Install, owner
<1>2. Roles'
  BY <1>a DEF TypeOK, Roles, Known, Busy, CancelWrite, InFlight, Go, Forget, Done, Install, owner
<1>3. Known'
  BY <1>a DEF TypeOK, Roles, Known, Busy, Writing, CancelWrite, InFlight, Go, Forget, Done, Install,
       owner
<1>4. Asked'
  BY <1>a DEF TypeOK, Roles, Known, Asked, Busy, Writing, CancelWrite, InFlight, Go, Forget, Done,
       Install, owner
<1>5. Seen'
  BY <1>a DEF TypeOK, Roles, Known, Asked, Seen, Busy, Writing, CancelWrite, InFlight, Go, Forget,
       Done, Install, owner
<1>6. Announced'
  BY <1>a DEF TypeOK, Roles, Known, Asked, Announced, EndIsAnnounced, Busy, Terminal, CancelWrite,
       InFlight, Go, Forget, Done, Install, owner
<1>7. Once'
  BY <1>a DEF TypeOK, Roles, Known, Once, Busy, CancelWrite, InFlight, Go, Forget, Done, Install,
       owner
<1>8. Reported'
  <2> SUFFICES ASSUME NEW q \in Run \ (asked' \cup stale'), outcome'[q] # "none"
               PROVE  /\ rec'[q] = [status |-> outcome'[q], cancel |-> FALSE]
                      /\ at'[q] = "holding" => copy'[q] = rec'[q]
    BY DEF Reported, OutcomeReported
  <2>1. q # on[c] /\ q # c /\ UNCHANGED <<asked, stale, outcome>>
    BY <1>a DEF CancelWrite, Asked
  <2>2. rec'[q] = rec[q] /\ at'[q] = at[q] /\ copy'[q] = copy[q]
    BY <1>a, <2>1 DEF CancelWrite, Install, Done, Go, Forget, TypeOK
  <2> QED BY <1>a, <2>1, <2>2 DEF Reported, OutcomeReported
<1> QED BY <1>1, <1>2, <1>3, <1>4, <1>5, <1>6, <1>7, <1>8 DEF IInv

(* The end of a process.                                                   *)
LEMMA CrashStep == ASSUME IInv, Crash PROVE IInv'
<1> USE RunsAssumption DEF Place
<1>a. TypeOK /\ Roles /\ Known /\ Asked /\ Seen /\ Announced /\ Once /\ Reported
  BY DEF IInv
<1>1. TypeOK'
  BY <1>a DEF TypeOK, Roles, Known, Busy, Record, Status, Absent, Crash, file, history
<1>2. Roles'
  BY <1>a DEF TypeOK, Roles, Known, Busy, Actor, Thread, Crash, file, history
<1>3. Known'
  BY <1>a DEF TypeOK, Roles, Known, Busy, Writing, Actor, Thread, Crash, file, history
<1>4. Asked'
  BY <1>a DEF TypeOK, Roles, Known, Asked, Busy, Writing, Actor, Crash, file, history
<1>5. Seen'
  BY <1>a DEF TypeOK, Roles, Known, Asked, Seen, Busy, Writing, Crash, file, history
<1>6. Announced'
  BY <1>a DEF TypeOK, Roles, Known, Asked, Announced, EndIsAnnounced, Busy, Actor, Thread, Crash,
       file, history
<1>7. Once'
  BY <1>a DEF TypeOK, Roles, Known, Once, Busy, Actor, Thread, Crash, file, history
<1>8. Reported'
  BY <1>a DEF TypeOK, Roles, Known, Asked, Once, Reported, OutcomeReported, Busy, Actor, Thread,
       Crash, file, history
<1> QED BY <1>1, <1>2, <1>3, <1>4, <1>5, <1>6, <1>7, <1>8 DEF IInv

LEMMA ClientCrashStep == ASSUME IInv, NEW c \in Client, ClientCrash(c) PROVE IInv'
<1> USE RunsAssumption DEF Place
<1>a. TypeOK /\ Roles /\ Known /\ Asked /\ Seen /\ Announced /\ Once /\ Reported
  BY DEF IInv
<1>1. TypeOK'
  BY <1>a DEF TypeOK, Roles, Known, Busy, Record, Status, Absent, Actor, ClientCrash, Go, Forget,
       Done, owner, history
<1>2. Roles'
  BY <1>a DEF TypeOK, Roles, Known, Busy, ClientCrash, Go, Forget, Done, owner, history
<1>3. Known'
  BY <1>a DEF TypeOK, Roles, Known, Busy, Writing, ClientCrash, Go, Forget, Done, owner, history
<1>4. Asked'
  BY <1>a DEF TypeOK, Roles, Known, Asked, Busy, Writing, ClientCrash, Go, Forget, Done, owner,
       history
<1>5. Seen'
  BY <1>a DEF TypeOK, Roles, Known, Asked, Seen, Busy, ClientCrash, Go, Forget, Done, owner, history
<1>6. Announced'
  BY <1>a DEF TypeOK, Roles, Known, Asked, Announced, EndIsAnnounced, Busy, ClientCrash, Go, Forget,
       Done, owner, history
<1>7. Once'
  BY <1>a DEF TypeOK, Roles, Known, Once, Busy, ClientCrash, Go, Forget, Done, owner, history
<1>8. Reported'
  BY <1>a DEF TypeOK, Roles, Known, Asked, Once, Reported, OutcomeReported, Busy, ClientCrash, Go,
       Forget, Done, owner, history
<1> QED BY <1>1, <1>2, <1>3, <1>4, <1>5, <1>6, <1>7, <1>8 DEF IInv

(* The first state and a step that changes nothing.                        *)
LEMMA InitialState == ASSUME Init PROVE IInv
<1> USE RunsAssumption DEF Place
<1>1. TypeOK
  BY DEF Init, TypeOK, Absent, Record, Status, Terminal, Actor, Thread
<1>2. Roles /\ Known
  BY DEF Init, Roles, Known, Busy, Writing, Actor, Thread
<1>3. Asked /\ Seen
  BY DEF Init, Asked, Seen, Writing, Absent, Actor, Thread
<1>4. Announced
  BY DEF Init, Announced, EndIsAnnounced, Terminal, Absent, Actor, Thread
<1>5. Once /\ Reported
  BY DEF Init, Once, Reported, OutcomeReported, Busy, Actor, Thread
<1> QED BY <1>1, <1>2, <1>3, <1>4, <1>5 DEF IInv

LEMMA Stutter == ASSUME IInv, UNCHANGED vars PROVE IInv'
BY DEF IInv, TypeOK, Roles, Known, Busy, Asked, Seen, Announced, EndIsAnnounced, Once, Reported,
       OutcomeReported, vars, file, actors, owner, history

(* Every step is one of those above.                                       *)
LEMMA EveryStep == ASSUME IInv, [Next]_vars PROVE IInv'
<1>1. ASSUME NEW a \in Thread, BeatRead(a) \/ BeatWrite(a) PROVE IInv'
  BY <1>1, BeatReadStep, BeatWriteStep
<1>2. ASSUME NEW r \in Run, Tick(r) \/ Queue(r) \/ LoopStep(r) PROVE IInv'
  BY <1>1, <1>2, TickStep, QueueStep, BeatLookStep DEF LoopStep, Thread
<1>3. CASE SubmitterStep
  BY <1>1, <1>3, SubmitStep DEF SubmitterStep, Thread
<1>4. CASE WorkerStep
  <2>1. CASE Take \/ Check \/ Start \/ Report \/ Observe
    BY <2>1, TakeStep, CheckStep, StartStep, ReportStep, ObserveStep
  <2>2. CASE FinishRead \/ FinishEvent \/ FinishWrite \/ FinishReturn
    BY <2>2, FinishReadStep, FinishEventStep, FinishWriteStep, FinishReturnStep
  <2>3. CASE \E v \in Verdicts : Return(v)
    BY <2>3, ReturnStep
  <2> QED BY <1>1, <1>4, <2>1, <2>2, <2>3 DEF WorkerStep, Thread
<1>5. ASSUME NEW c \in Client, ClientStep(c) \/ ClientCrash(c) \/ \E r \in Run : Look(c, r) \/ CancelRead(c, r)
      PROVE  IInv'
  BY <1>5, TruncateStep, RewriteStep, CancelWriteStep, ClientCrashStep, LookStep, CancelReadStep DEF ClientStep
<1>6. CASE Crash
  BY <1>6, CrashStep
<1>7. CASE UNCHANGED vars
  BY <1>7, Stutter
<1> QED BY <1>2, <1>3, <1>4, <1>5, <1>6, <1>7 DEF Next

THEOREM Invariant == Spec => []IInv
<1>1. Init => IInv
  BY InitialState
<1>2. IInv /\ [Next]_vars => IInv'
  BY EveryStep
<1> QED BY <1>1, <1>2, PTL DEF Spec

-----------------------------------------------------------------------------
(* Records, positions and the queue keep their types in every interleaving *)
(* of worker, heartbeats, requests and crashes.                            *)
THEOREM TypeCorrect == Spec => []TypeOK
<1>1. IInv => TypeOK
  BY DEF IInv
<1> QED BY <1>1, Invariant, PTL

(* The outcome the worker wrote for a run that nobody asked to cancel and  *)
(* nobody found stale is in its record: a heartbeat that writes later read *)
(* that outcome (RunMonitor.heartbeat and complete).                       *)
THEOREM OutcomeAlwaysReported == Spec => []OutcomeReported
<1>1. IInv => OutcomeReported
  BY DEF IInv, Reported
<1> QED BY <1>1, Invariant, PTL

(* A request for cancellation that was written while nobody was about to   *)
(* write the record stays in it until the end of the run: whoever writes   *)
(* it later has read the request (request_cancel against heartbeat, start  *)
(* and complete).                                                          *)
THEOREM CancellationSticks == Spec => []CancelSticks
<1>1. IInv => CancelSticks
  BY DEF IInv, Seen, CancelSticks
<1> QED BY <1>1, Invariant, PTL

(* The event log of a run that ended, and that nobody found stale, has a   *)
(* terminal event (complete and fail append it before they write).         *)
THEOREM EndsAnnounced == Spec => []EndIsAnnounced
<1>1. IInv => EndIsAnnounced
  BY DEF IInv, Announced
<1> QED BY <1>1, Invariant, PTL

-----------------------------------------------------------------------------
(* Records that cannot be read.  Whoever has the file of a run open for    *)
(* writing is the client that is rewriting this run.                       *)
Rewriting == \A r \in Run : \A c \in writers[r] : at[c] = "rewriting" /\ on[c] = r

(* The steps of the threads move no client, and what they do to a file is  *)
(* to install another one.                                                 *)
Undisturbed(r) ==
    (writers'[r] = {} /\ ~empty'[r]) \/ (writers'[r] = writers[r] /\ empty'[r] = empty[r])

LEMMA ThreadStep ==
    ASSUME IInv,
           \/ SubmitterStep \/ WorkerStep \/ Crash
           \/ \E r \in Run : Tick(r) \/ Queue(r) \/ LoopStep(r)
    PROVE  /\ \A c \in Client : at'[c] = at[c] /\ on'[c] = on[c]
           /\ \A r \in Run : Undisturbed(r)
<1> USE RunsAssumption DEF Thread, Actor
<1>a. TypeOK
  BY DEF IInv
<1>b. at \in [Actor -> Place] /\ on \in [Actor -> Run \cup {NoRun}]
      /\ empty \in [Run -> BOOLEAN] /\ writers \in [Run -> SUBSET Client]
  BY <1>a DEF TypeOK
<1>c. \A a \in Thread : at[a] = "holding" => on[a] \in Run
  BY DEF IInv, Known, Busy
<1>d. \A c \in Client : c \in Actor /\ c \notin Thread
  OBVIOUS
<1>e. Thread \subseteq Actor /\ Run \subseteq Thread /\ Worker \in Thread /\ Submitter \in Thread
  OBVIOUS
<1> HIDE DEF Thread, Actor
<1>1. ASSUME NEW a \in Thread, BeatRead(a)
      PROVE  (\A c \in Client : at'[c] = at[c] /\ on'[c] = on[c]) /\ writers' = writers /\ empty' = empty
  BY <1>1, <1>b, <1>d, <1>e DEF BeatRead, Go, file
<1>2. ASSUME NEW a \in Thread, BeatWrite(a)
      PROVE  /\ \A c \in Client : at'[c] = at[c] /\ on'[c] = on[c]
             /\ \A r \in Run : Undisturbed(r)
  BY <1>2, <1>b, <1>c, <1>d, <1>e DEF BeatWrite, Install, Undisturbed
<1>3. ASSUME NEW r \in Run, Tick(r) \/ Queue(r) \/ BeatLook(r)
      PROVE  /\ \A c \in Client : at'[c] = at[c] /\ on'[c] = on[c]
             /\ \A q \in Run : Undisturbed(q)
  BY <1>3, <1>b, <1>d, <1>e DEF Tick, Queue, BeatLook, Install, Undisturbed, Go, file, actors
<1>4. CASE Submit \/ Take \/ Check \/ Report \/ Observe \/ FinishRead \/ FinishEvent \/ FinishReturn \/ Crash
           \/ \E v \in Verdicts : Return(v)
  BY <1>4, <1>b, <1>d, <1>e DEF Submit, Take, Check, Report, Observe, FinishRead, FinishEvent, FinishReturn, Crash, Return,
                    FailWith, Escapes, Go, Undisturbed, file
<1>5. CASE Start \/ FinishWrite
  BY <1>5, <1>b, <1>d, <1>e DEF Start, FinishWrite, Install, Undisturbed, Go
<1> QED BY <1>1, <1>2, <1>3, <1>4, <1>5, <1>e DEF Undisturbed, SubmitterStep, WorkerStep, LoopStep

LEMMA RewritingStep == ASSUME IInv, Rewriting, [Next]_vars PROVE Rewriting'
<1> USE RunsAssumption DEF Thread, Actor
<1>b. at \in [Actor -> Place] /\ on \in [Actor -> Run \cup {NoRun}]
      /\ empty \in [Run -> BOOLEAN] /\ writers \in [Run -> SUBSET Client]
  BY DEF IInv, TypeOK
<1>1. CASE \/ SubmitterStep \/ WorkerStep \/ Crash
           \/ \E r \in Run : Tick(r) \/ Queue(r) \/ LoopStep(r)
  BY <1>1, <1>b, ThreadStep DEF Undisturbed, Rewriting
<1>2. ASSUME NEW c \in Client, Truncate(c) PROVE Rewriting'
  BY <1>2, <1>b DEF Truncate, Go, Rewriting
<1>3. ASSUME NEW c \in Client, Rewrite(c) PROVE Rewriting'
  BY <1>3, <1>b DEF Rewrite, Done, Go, Rewriting
<1>4. ASSUME NEW c \in Client, CancelWrite(c) PROVE Rewriting'
  BY <1>4, <1>b DEF CancelWrite, Install, Done, Go, Rewriting
<1>5. ASSUME NEW c \in Client, ClientCrash(c) PROVE Rewriting'
  BY <1>5, <1>b DEF ClientCrash, Done, Go, Rewriting
<1>6. ASSUME NEW c \in Client, NEW r \in Run, Look(c, r) \/ CancelRead(c, r) PROVE Rewriting'
  BY <1>6, <1>b DEF Look, CancelRead, Go, Rewriting, file
<1>7. CASE UNCHANGED vars
  BY <1>7 DEF vars, file, actors, Rewriting
<1> QED BY <1>1, <1>2, <1>3, <1>4, <1>5, <1>6, <1>7 DEF Next, ClientStep

(* An empty record has a client that is going to write it, unless the      *)
(* process of the client that emptied it ended in between                  *)
(* (RunMonitor.finalize_stale, which writes in place).                     *)
THEOREM RecordsComeBack == Spec => RecordsLostOnlyByDyingRewriter
<1>1. Init => Rewriting
  BY DEF Init, Rewriting
<1>2. ASSUME IInv, Rewriting, [Next]_vars, NEW r \in Run, ~Emptied(r), Emptied(r)'
      PROVE  \E c \in Client : ClientCrash(c) /\ at[c] = "rewriting" /\ on[c] = r
  <2> USE DEF Emptied
  <2>b. empty \in [Run -> BOOLEAN] /\ writers \in [Run -> SUBSET Client]
    BY <1>2 DEF IInv, TypeOK
  <2>c. \A c \in Client : at[c] # "idle" => on[c] \in Run
    BY <1>2 DEF IInv, Known, Busy, Roles, Actor
  <2>1. ~(SubmitterStep \/ WorkerStep \/ Crash \/ \E q \in Run : Tick(q) \/ Queue(q) \/ LoopStep(q))
    BY <1>2, ThreadStep DEF Undisturbed
  <2>2. \A c \in Client : ~Truncate(c)
    BY <1>2, <2>b DEF Truncate
  <2>3. \A c \in Client : ~Rewrite(c)
    BY <1>2, <2>b, <2>c DEF Rewrite
  <2>4. \A c \in Client : ~CancelWrite(c)
    BY <1>2, <2>b, <2>c DEF CancelWrite, Install
  <2>5. \A c \in Client, q \in Run : ~Look(c, q) /\ ~CancelRead(c, q)
    BY <1>2 DEF Look, CancelRead, file
  <2>6. vars' # vars
    BY <1>2 DEF vars, file
  <2>7. PICK c \in Client : ClientCrash(c)
    BY <1>2, <2>1, <2>2, <2>3, <2>4, <2>5, <2>6 DEF Next, ClientStep
  <2>8. c \in writers[r]
    BY <1>2, <2>7, <2>b DEF ClientCrash
  <2> QED BY <1>2, <2>7, <2>8 DEF Rewriting
<1> DEFINE OnlyByDying == \A r \in Run : ~Emptied(r) /\ Emptied(r)' =>
              \E c \in Client : ClientCrash(c) /\ at[c] = "rewriting" /\ on[c] = r
<1>3. IInv /\ Rewriting /\ [Next]_vars => [OnlyByDying]_vars
  BY <1>2
<1>4. IInv /\ Rewriting /\ [Next]_vars => Rewriting'
  BY RewritingStep
<1> QED BY Invariant, <1>1, <1>3, <1>4, PTL DEF Spec, RecordsLostOnlyByDyingRewriter

(* The exception that ends the worker thread of a vault is that of a       *)
(* record which is being rewritten, and so of a run found stale            *)
(* (VaultTaskQueue._run_loop, which does not catch what fail raises).      *)
THEOREM WorkerSurvives == Spec => []WorkerDiesOnlyOverStale
<1>1. Init => WorkerDiesOnlyOverStale
  BY RunsAssumption DEF Init, WorkerDiesOnlyOverStale, Actor, Thread
<1>2. ASSUME IInv, WorkerDiesOnlyOverStale, [Next]_vars PROVE WorkerDiesOnlyOverStale'
  <2> SUFFICES ASSUME at'[Worker] = "dead" PROVE on'[Worker] \in stale'
    BY DEF WorkerDiesOnlyOverStale
  <2> USE RunsAssumption DEF Thread, Actor
  <2>b. at \in [Actor -> Place] /\ on \in [Actor -> Run \cup {NoRun}] /\ copy \in [Actor -> Record]
    BY <1>2 DEF IInv, TypeOK
  <2>1. CASE FinishRead \/ FinishReturn
    BY <1>2, <2>1, <2>b DEF FinishRead, FinishReturn, Escapes, Go, history, IInv, Asked, Known, Busy
  <2>2. ~FinishRead /\ ~FinishReturn => at[Worker] = "dead" /\ on'[Worker] = on[Worker]
    <3>1. \A a \in Actor \ {Worker} : Worker # a
      OBVIOUS
    <3>2. \A r \in Run : Worker # r
      OBVIOUS
    <3>3. \A c \in Client : Worker # c
      OBVIOUS
    <3>4. Worker \in Actor /\ Submitter # Worker
      OBVIOUS
    <3> HIDE DEF Thread, Actor
    <3>5. CASE SubmitterStep \/ \E r \in Run : Tick(r) \/ Queue(r) \/ LoopStep(r)
      BY <3>2, <3>4, <3>5, <2>b
         DEF SubmitterStep, LoopStep, Tick, Queue, Submit, BeatLook, BeatRead, BeatWrite, Raised, Go, actors
    <3>6. CASE WorkerStep /\ ~FinishRead /\ ~FinishReturn
      BY <3>4, <3>6, <2>b, <1>2
         DEF WorkerStep, Take, Check, Start, Report, Observe, FinishEvent, FinishWrite, Return, BeatRead, BeatWrite,
             Raised, FailWith, Go
    <3>7. CASE \E c \in Client : ClientStep(c) \/ ClientCrash(c) \/ \E r \in Run : Look(c, r) \/ CancelRead(c, r)
      BY <3>3, <3>4, <3>7, <2>b
         DEF ClientStep, ClientCrash, Truncate, Rewrite, CancelWrite, Look, CancelRead, Done, Go
    <3>8. ~Crash
      BY <3>4, <1>2 DEF Crash
    <3>9. CASE UNCHANGED vars
      BY <3>9 DEF vars, actors
    <3> QED BY <1>2, <3>5, <3>6, <3>7, <3>8, <3>9 DEF Next
  <2>3. stale \subseteq stale'
    BY <1>2 DEF Next, SubmitterStep, WorkerStep, LoopStep, ClientStep, Tick, Queue, Submit, BeatLook, BeatRead,
         BeatWrite, Take, Check, Start, Report, Observe, FinishRead, FinishEvent, FinishWrite, FinishReturn,
         Return, Truncate, Rewrite, CancelWrite, ClientCrash, Look, CancelRead, Crash, history, vars
  <2> QED BY <1>2, <2>1, <2>2, <2>3 DEF WorkerDiesOnlyOverStale
<1> QED BY <1>1, <1>2, Invariant, PTL DEF Spec
=============================================================================
