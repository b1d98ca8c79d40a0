-------------------------- MODULE Dispatch_proofs --------------------------
(***************************************************************************)
(* Proofs about the dispatch engine, for any sets of bookings and drivers  *)
(* and any bounds.                                                         *)
(***************************************************************************)
EXTENDS Dispatch, TLAPS

------------------------------------------------------------------------------
(* Job states and the queue *)

\* The constructors of job states stay within JobState, and every enqueue asks
\* for two or three attempts (BullMqAdapter.enqueue).
LEMMA JobStateFacts ==
    /\ Unknown \in JobState /\ Completed \in JobState /\ Failed \in JobState
    /\ \A n \in 0 .. 3 : /\ Waiting(n) \in JobState
                         /\ Running(n) \in JobState
                         /\ Stalled(n) \in JobState
    /\ \A j : Attempts(j) \in 2 .. 3
BY DEF JobState, Unknown, Completed, Failed, Waiting, Running, Stalled, Attempts

\* Adding a job leaves every job BullMQ knows as it is.
LEMMA AddFacts ==
    ASSUME NEW known \in [JobIds -> JobState], NEW j \in JobIds
    PROVE  /\ Add(known, j) \in [JobIds -> JobState]
           /\ \A i \in JobIds :
                \/ Add(known, j)[i] = known[i]
                \/ known[i] = Unknown /\ Add(known, j)[i] = Waiting(Attempts(j))
BY JobStateFacts DEF Add

------------------------------------------------------------------------------
(* Type correctness *)

\* What a wave in flight relies on: a job with work to do has attempts left,
\* the job a wave runs under is the active one, and the wave numbers stay
\* within the bound because the deadline has passed by then.
WaveOK(js, r) ==
    /\ \A j \in JobIds :
        js[j].st \in {"waiting", "active", "stalled"} => js[j].left > 0
    /\ r.pc # "idle" => r.job \in JobIds /\ js[r.job].st = "active"
    /\ r.pc = "read" /\ r.deadline # "past" => r.wave <= MaxWave
    /\ r.pc = "offering" => r.wave \in OfferWaves

WaveInv == \A b \in Bookings : WaveOK(jobs[b], run[b])

\* Only one booking's jobs and wave move in a step.
LEMMA OneMoves ==
    ASSUME WaveInv, NEW b \in Bookings, WaveOK(jobs[b], run[b])',
           \A c \in Bookings \ {b} : jobs'[c] = jobs[c] /\ run'[c] = run[c]
    PROVE  WaveInv'
BY DEF WaveInv, WaveOK

\* Taking up a job leaves a wave whose job is running.
LEMMA StartWaveType ==
    ASSUME TypeOK, WaveInv, NEW b \in Bookings, NEW j \in JobIds, StartWave(b, j)
    PROVE  TypeOK' /\ WaveInv'
<1>1. jobs[b][j].left \in 0 .. 3 /\ jobs[b] \in [JobIds -> JobState]
  BY DEF TypeOK, JobState
<1>2. jobs' \in [Bookings -> [JobIds -> JobState]]
  BY <1>1, JobStateFacts DEF TypeOK, StartWave
<1>3. run' \in [Bookings -> RunState]
  BY DEF TypeOK, StartWave, RunState, Row
<1>4. TypeOK'
  BY <1>2, <1>3 DEF TypeOK, StartWave
<1>5. \A c \in Bookings \ {b} : jobs'[c] = jobs[c] /\ run'[c] = run[c]
  BY DEF TypeOK, StartWave
<1>6. WaveOK(jobs[b], run[b])'
  <2>1. jobs'[b] = [jobs[b] EXCEPT ![j] = Running(jobs[b][j].left)]
    BY DEF TypeOK, StartWave
  <2>2. /\ run'[b].job = j /\ run'[b].pc \in {"read", "stop"}
        /\ run'[b].wave = booking[b].wave
        /\ run'[b].deadline = booking[b].deadline
        /\ run'[b].pc = "read" => booking[b].status = "searching"
    BY DEF TypeOK, StartWave
  <2>3. booking[b].status = "searching" /\ booking[b].deadline # "past"
           => booking[b].wave <= MaxWave
    BY DispatchAssumption DEF TypeOK, StartWave, WithinBound, Row
  <2> QED BY <1>1, <2>1, <2>2, <2>3 DEF StartWave, WaveInv, WaveOK, Running
<1> QED BY <1>4, <1>5, <1>6, OneMoves

\* A job that meets the lock ends and disturbs no wave in flight.
LEMMA WaveSkippedType ==
    ASSUME TypeOK, WaveInv, NEW b \in Bookings, NEW j \in JobIds, WaveSkipped(b, j)
    PROVE  TypeOK' /\ WaveInv'
<1>1. jobs' \in [Bookings -> [JobIds -> JobState]]
  BY JobStateFacts DEF TypeOK, WaveSkipped
<1>2. TypeOK'
  BY <1>1 DEF TypeOK, WaveSkipped
<1>3. \A c \in Bookings \ {b} : jobs'[c] = jobs[c] /\ run'[c] = run[c]
  BY DEF TypeOK, WaveSkipped
<1>4. WaveOK(jobs[b], run[b])'
  <2>1. /\ jobs[b] \in [JobIds -> JobState]
        /\ jobs'[b] = [jobs[b] EXCEPT ![j] = Completed]
        /\ run' = run
    BY DEF TypeOK, WaveSkipped
  <2>2. run[b].pc # "idle" => run[b].job # j
    BY DEF WaveSkipped, WaveInv, WaveOK
  <2> QED BY <2>1, <2>2 DEF WaveInv, WaveOK, Completed
<1> QED BY <1>2, <1>3, <1>4, OneMoves

\* No wave in flight is a typed value.
LEMMA IdleRunType == IdleRun \in RunState
BY DispatchAssumption DEF IdleRun, RunState, NoJob

\* A job that is over, whatever scheduled it, leaves the wave idle.
LEMMA CompleteType ==
    ASSUME TypeOK, WaveInv, NEW b \in Bookings, run[b].pc # "idle", EndRun(b),
           jobs' = [jobs EXCEPT ![b][run[b].job] = Completed]
    PROVE  /\ jobs' \in [Bookings -> [JobIds -> JobState]]
           /\ run' \in [Bookings -> RunState]
           /\ searchLock' \subseteq Bookings
           /\ WaveInv'
<1>1. run[b].job \in JobIds
  BY DEF WaveInv, WaveOK
<1>2. jobs' \in [Bookings -> [JobIds -> JobState]]
  BY <1>1, JobStateFacts DEF TypeOK
<1>3. run' \in [Bookings -> RunState] /\ searchLock' \subseteq Bookings
  BY IdleRunType DEF TypeOK, EndRun
<1>4. \A c \in Bookings \ {b} : jobs'[c] = jobs[c] /\ run'[c] = run[c]
  BY DEF TypeOK, EndRun
<1>5. WaveOK(jobs[b], run[b])'
  <2>1. /\ jobs[b] \in [JobIds -> JobState]
        /\ jobs'[b] = [jobs[b] EXCEPT ![run[b].job] = Completed]
        /\ run'[b] = IdleRun
    BY <1>1 DEF TypeOK, EndRun
  <2> QED BY <1>1, <2>1 DEF WaveInv, WaveOK, Completed, IdleRun
<1> QED BY <1>2, <1>3, <1>4, <1>5, OneMoves

\* A wave that ends with a successor is idle, its job done, the successor waiting.
LEMMA FinishIntoType ==
    ASSUME TypeOK, WaveInv, NEW b \in Bookings, NEW j \in JobIds,
           run[b].pc # "idle", FinishInto(b, j)
    PROVE  /\ jobs' \in [Bookings -> [JobIds -> JobState]]
           /\ run' \in [Bookings -> RunState]
           /\ searchLock' \subseteq Bookings
           /\ lost' \in [Bookings -> BOOLEAN]
           /\ WaveInv'
<1> DEFINE added == Add(jobs[b], j)
<1>1. run[b].job \in JobIds /\ jobs[b] \in [JobIds -> JobState]
  BY DEF TypeOK, WaveInv, WaveOK
<1>2. /\ added \in [JobIds -> JobState]
      /\ \A i \in JobIds : \/ added[i] = jobs[b][i]
                           \/ added[i] = Waiting(Attempts(j))
  BY <1>1, AddFacts
<1>3. jobs' = [jobs EXCEPT ![b] = [added EXCEPT ![run[b].job] = Completed]]
  BY DEF FinishInto
<1> HIDE DEF added
<1>4. jobs' \in [Bookings -> [JobIds -> JobState]]
  BY <1>1, <1>2, <1>3, JobStateFacts DEF TypeOK
<1>5. run' \in [Bookings -> RunState] /\ searchLock' \subseteq Bookings
  BY IdleRunType DEF TypeOK, FinishInto, EndRun
<1>6. lost' \in [Bookings -> BOOLEAN]
  BY DEF TypeOK, FinishInto
<1>7. \A c \in Bookings \ {b} : jobs'[c] = jobs[c] /\ run'[c] = run[c]
  BY <1>3 DEF TypeOK, FinishInto, EndRun
<1>8. WaveOK(jobs[b], run[b])'
  <2>1. /\ jobs'[b] = [added EXCEPT ![run[b].job] = Completed]
        /\ run'[b] = IdleRun
    BY <1>1, <1>3 DEF TypeOK, FinishInto, EndRun
  <2>2. Waiting(Attempts(j)).left > 0
    BY JobStateFacts DEF Waiting
  <2> QED BY <1>1, <1>2, <2>1, <2>2 DEF WaveInv, WaveOK, Completed, IdleRun
<1> QED BY <1>4, <1>5, <1>6, <1>7, <1>8, OneMoves

\* A wave that throws is idle, and its job has one attempt less.
LEMMA ThrowType ==
    ASSUME TypeOK, WaveInv, NEW b \in Bookings, run[b].pc # "idle", Throw(b)
    PROVE  /\ jobs' \in [Bookings -> [JobIds -> JobState]]
           /\ run' \in [Bookings -> RunState]
           /\ searchLock' \subseteq Bookings
           /\ lost' \in [Bookings -> BOOLEAN]
           /\ WaveInv'
<1> DEFINE left == jobs[b][run[b].job].left - 1
           next == IF left = 0 THEN Failed ELSE Waiting(left)
<1>1. run[b].job \in JobIds /\ jobs[b] \in [JobIds -> JobState]
  BY DEF TypeOK, WaveInv, WaveOK
<1>2. left \in 0 .. 3
  BY <1>1 DEF WaveInv, WaveOK, JobState
<1>3. next \in JobState /\ (next.st = "waiting" => next.left > 0)
                        /\ next.st \in {"failed", "waiting"}
  BY <1>2, JobStateFacts DEF Failed, Waiting
<1>4. jobs' = [jobs EXCEPT ![b][run[b].job] = next]
  BY DEF Throw
<1> HIDE DEF next
<1>5. jobs' \in [Bookings -> [JobIds -> JobState]]
  BY <1>1, <1>3, <1>4 DEF TypeOK
<1>6. run' \in [Bookings -> RunState] /\ searchLock' \subseteq Bookings
  BY IdleRunType DEF TypeOK, Throw, EndRun
<1>7. lost' \in [Bookings -> BOOLEAN]
  BY DEF TypeOK, Throw
<1>8. \A c \in Bookings \ {b} : jobs'[c] = jobs[c] /\ run'[c] = run[c]
  BY <1>4 DEF TypeOK, Throw, EndRun
<1>9. WaveOK(jobs[b], run[b])'
  <2>1. /\ jobs'[b] = [jobs[b] EXCEPT ![run[b].job] = next]
        /\ run'[b] = IdleRun
    BY <1>1, <1>4 DEF TypeOK, Throw, EndRun
  <2> QED BY <1>1, <1>3, <2>1 DEF WaveInv, WaveOK, IdleRun
<1> QED BY <1>5, <1>6, <1>7, <1>8, <1>9, OneMoves

\* A request that enqueues never touches the job of a wave in flight.
LEMMA EnqueueType ==
    ASSUME TypeOK, WaveInv, NEW b \in Bookings, NEW j \in JobIds, Enqueue(b, j),
           run' = run
    PROVE  /\ jobs' \in [Bookings -> [JobIds -> JobState]]
           /\ lost' \in [Bookings -> BOOLEAN]
           /\ WaveInv'
<1> DEFINE added == Add(jobs[b], j)
<1>1. jobs[b] \in [JobIds -> JobState]
  BY DEF TypeOK
<1>2. /\ added \in [JobIds -> JobState]
      /\ \A i \in JobIds : \/ added[i] = jobs[b][i]
                           \/ jobs[b][i] = Unknown /\ added[i] = Waiting(Attempts(j))
  BY <1>1, AddFacts
<1>3. lost' \in [Bookings -> BOOLEAN]
  <2>1. CASE lost' = [lost EXCEPT ![b] = @ \/ Refused(jobs[b], j)]
    BY <2>1 DEF TypeOK
  <2>2. CASE lost' = [lost EXCEPT ![b] = TRUE]
    BY <2>2 DEF TypeOK
  <2> QED BY <2>1, <2>2 DEF Enqueue
<1>4. CASE jobs' = [jobs EXCEPT ![b] = added]
  <2> HIDE DEF added
  <2>1. jobs' \in [Bookings -> [JobIds -> JobState]]
    BY <1>2, <1>4 DEF TypeOK
  <2>2. /\ jobs'[b] = added
        /\ \A c \in Bookings \ {b} : jobs'[c] = jobs[c] /\ run'[c] = run[c]
    BY <1>4 DEF TypeOK
  <2>3. /\ Waiting(Attempts(j)).left > 0
        /\ Unknown.st = "none"
    BY JobStateFacts DEF Waiting, Unknown
  <2>4. WaveOK(jobs[b], run[b])'
    BY <1>1, <1>2, <2>2, <2>3 DEF WaveInv, WaveOK
  <2> QED BY <1>3, <2>1, <2>2, <2>4, OneMoves
<1>5. CASE jobs' = jobs
  BY <1>3, <1>5 DEF TypeOK, WaveInv, WaveOK
<1> QED BY <1>4, <1>5 DEF Enqueue

\* The ids the engine schedules under are ids the queue is asked about.
LEMMA JobIdFacts ==
    /\ <<"scheduled", 0>> \in JobIds /\ <<"paused", 0>> \in JobIds
    /\ <<"admin-offer", 0>> \in JobIds /\ <<"create", 0>> \in JobIds
    /\ \A n \in OfferWaves : <<"wave", n>> \in JobIds
    /\ \A r \in UnableReasons \cup {0} : <<"redispatch", r>> \in JobIds
    /\ \A k \in 1 .. MaxReopen : <<"retry", k>> \in JobIds
BY DEF JobIds

\* What moves neither jobs nor waves keeps their invariant.
LEMMA Still == ASSUME WaveInv, UNCHANGED <<jobs, run>> PROVE WaveInv'
BY DEF WaveInv, WaveOK

\* Offers and their ends keep the attempt rows, the locks and the timers typed.
LEMMA LockAndRecordType ==
    ASSUME TypeOK, NEW b \in Bookings, NEW d \in Drivers, LockAndRecord(b, d)
    PROVE  /\ attempts' \in [Bookings -> [Drivers -> SUBSET Outcome]]
           /\ offerLock' \in [Drivers -> Bookings \cup {NoBooking}]
BY DEF TypeOK, LockAndRecord, Outcome

\* An offer keeps the rows, the locks and the timers typed.
LEMMA MakeOfferType ==
    ASSUME TypeOK, NEW b \in Bookings, NEW d \in Drivers, NEW w \in OfferWaves,
           MakeOffer(b, d, w)
    PROVE  /\ attempts' \in [Bookings -> [Drivers -> SUBSET Outcome]]
           /\ offerLock' \in [Drivers -> Bookings \cup {NoBooking}]
           /\ timers' \subseteq Bookings \X Drivers \X OfferWaves \X {"waiting", "done"}
BY LockAndRecordType DEF TypeOK, MakeOffer

\* A revocation keeps the rows and the pending releases typed.
LEMMA RevokePendingType ==
    ASSUME TypeOK, NEW b \in Bookings, NEW ds \in SUBSET Drivers, RevokePending(b, ds)
    PROVE  /\ attempts' \in [Bookings -> [Drivers -> SUBSET Outcome]]
           /\ releasing' \subseteq Bookings \X Drivers
BY DEF TypeOK, RevokePending, Resolve, Outcome

\* A legal transition keeps the booking rows typed.
LEMMA TransitionType ==
    ASSUME TypeOK, NEW b \in Bookings, NEW to \in JobStatus, NEW patch \in Row,
           Transition(b, to, patch)
    PROVE  booking' \in [Bookings -> Row]
BY DEF TypeOK, Transition, Row

\* What a typed booking row provides to the handlers.
LEMMA RowFacts ==
    ASSUME TypeOK, NEW b \in Bookings
    PROVE  /\ booking[b] \in Row
           /\ Cleared(booking[b]) \in Row
           /\ booking[b].status \in JobStatus
           /\ booking[b].driver \in Drivers \cup {NoDriver}
           /\ booking[b].wave \in 0 .. MaxWave + 1
           /\ booking[b].deadline \in {"none", "ahead", "past"}
           /\ StoredWave(b) \in OfferWaves
<1>1. booking[b] \in Row
  BY DEF TypeOK
<1>2. Cleared(booking[b]) \in Row
  BY <1>1 DEF Row, Cleared
<1>3. StoredWave(b) \in OfferWaves
  BY <1>1, DispatchAssumption DEF Row, StoredWave, OfferWaves
<1> QED BY <1>1, <1>2, <1>3 DEF Row

\* Every step of runWave keeps the types.
LEMMA WaveType ==
    ASSUME TypeOK, WaveInv, NEW b \in Bookings, Wave(b)
    PROVE  TypeOK' /\ WaveInv'
<1>1. ASSUME NEW j \in JobIds, JobRedelivered(b, j)
      PROVE  TypeOK' /\ WaveInv'
  <2>1. /\ jobs[b] \in [JobIds -> JobState] /\ jobs[b][j].left \in 0 .. 3
        /\ Waiting(jobs[b][j].left) \in JobState
    BY JobStateFacts DEF TypeOK, JobState
  <2>2. TypeOK'
    BY <1>1, <2>1 DEF TypeOK, JobRedelivered
  <2>3. /\ jobs'[b] = [jobs[b] EXCEPT ![j] = Waiting(jobs[b][j].left)]
        /\ \A c \in Bookings \ {b} : jobs'[c] = jobs[c] /\ run'[c] = run[c]
        /\ run'[b] = run[b]
    BY <1>1 DEF TypeOK, JobRedelivered
  <2>4. WaveOK(jobs[b], run[b])'
    BY <1>1, <2>1, <2>3 DEF JobRedelivered, WaveInv, WaveOK, Waiting
  <2> QED BY <2>2, <2>3, <2>4, OneMoves
<1>2. CASE WaveStops(b)
  <2>1. run[b].pc # "idle"
    BY <1>2 DEF WaveStops
  <2> QED BY <1>2, <2>1, CompleteType DEF TypeOK, WaveStops
<1>3. CASE WaveWaitsForSchedule(b)
  <2>1. run[b].pc # "idle"
    BY <1>3 DEF WaveWaitsForSchedule
  <2> QED BY <1>3, <2>1, FinishIntoType, JobIdFacts DEF TypeOK, WaveWaitsForSchedule
<1>4. CASE WaveHeld(b)
  <2>1. run[b].pc # "idle" /\ PendingOffers(b) \in SUBSET Drivers
    BY <1>4 DEF WaveHeld, PendingOffers
  <2>2. /\ attempts' \in [Bookings -> [Drivers -> SUBSET Outcome]]
        /\ releasing' \subseteq Bookings \X Drivers
    BY <1>4, <2>1, RevokePendingType DEF WaveHeld
  <2> QED BY <1>4, <2>1, <2>2, FinishIntoType, JobIdFacts DEF TypeOK, WaveHeld
<1>5. CASE WaveGivesUp(b)
  <2>1. run[b].pc # "idle"
    BY <1>5 DEF WaveGivesUp
  <2>2. CASE Transition(b, "no_drivers_found", booking[b])
    <3>1. booking' \in [Bookings -> Row]
      BY <2>2, TransitionType, RowFacts DEF JobStatus
    <3> QED BY <1>5, <2>1, <2>2, <3>1, CompleteType
            DEF TypeOK, WaveGivesUp, Transition
  <2>3. CASE Throw(b) /\ booking' = booking
    BY <1>5, <2>1, <2>3, ThrowType DEF TypeOK, WaveGivesUp
  <2> QED BY <1>5, <2>2, <2>3 DEF WaveGivesUp, Transition
<1>6. CASE WaveSelects(b)
  <2>1. TypeOK'
    BY <1>6, DispatchAssumption
       DEF TypeOK, WaveInv, WaveOK, WaveSelects, Selectable, SetWaveState, Row, RunState
  <2>2. /\ run'[b].job = run[b].job /\ run'[b].pc = "offering"
        /\ run'[b].wave = run[b].wave + 1 /\ jobs' = jobs
        /\ \A c \in Bookings \ {b} : jobs'[c] = jobs[c] /\ run'[c] = run[c]
    BY <1>6 DEF TypeOK, WaveSelects
  <2>3. run[b].wave + 1 \in OfferWaves
    BY <1>6, DispatchAssumption
       DEF TypeOK, RunState, WaveInv, WaveOK, WaveSelects, OfferWaves
  <2>4. WaveOK(jobs[b], run[b])'
    BY <1>6, <2>2, <2>3 DEF WaveInv, WaveOK, WaveSelects
  <2> QED BY <2>1, <2>2, <2>4, OneMoves
<1>7. ASSUME NEW d \in Drivers, WaveOffers(b, d)
      PROVE  TypeOK' /\ WaveInv'
  <2>1. run[b].wave \in OfferWaves
    BY <1>7 DEF WaveOffers, WaveInv, WaveOK
  <2>2. /\ attempts' \in [Bookings -> [Drivers -> SUBSET Outcome]]
        /\ offerLock' \in [Drivers -> Bookings \cup {NoBooking}]
        /\ timers' \subseteq Bookings \X Drivers \X OfferWaves \X {"waiting", "done"}
    BY <1>7, <2>1, MakeOfferType DEF TypeOK, WaveOffers
  <2>3. run' \in [Bookings -> RunState]
    <3>1. run[b] \in RunState
      BY DEF TypeOK
    <3>2. [run[b] EXCEPT !.cands = @ \ {d}] \in RunState
      BY <3>1 DEF RunState
    <3>3. run' = [run EXCEPT ![b] = [run[b] EXCEPT !.cands = @ \ {d}]]
      BY <1>7 DEF WaveOffers
    <3> QED BY <3>2, <3>3 DEF TypeOK
  <2>4. TypeOK'
    BY <1>7, <2>2, <2>3 DEF TypeOK, WaveOffers
  <2>5. /\ run'[b].job = run[b].job /\ run'[b].pc = run[b].pc
        /\ run'[b].wave = run[b].wave /\ run'[b].deadline = run[b].deadline
        /\ jobs' = jobs
        /\ \A c \in Bookings \ {b} : jobs'[c] = jobs[c] /\ run'[c] = run[c]
    <3>1. run'[b] = [run[b] EXCEPT !.cands = @ \ {d}] /\ run[b] \in RunState
      BY <1>7 DEF TypeOK, WaveOffers
    <3>2. \A c \in Bookings \ {b} : jobs'[c] = jobs[c] /\ run'[c] = run[c]
      BY <1>7 DEF TypeOK, WaveOffers
    <3> QED BY <1>7, <3>1, <3>2 DEF WaveOffers, RunState
  <2>6. WaveOK(jobs[b], run[b])'
    BY <2>5 DEF WaveInv, WaveOK
  <2> QED BY <2>4, <2>5, <2>6, OneMoves
<1>8. ASSUME NEW d \in Drivers, WaveOfferUntimed(b, d)
      PROVE  TypeOK' /\ WaveInv'
  <2>1. run[b].pc # "idle"
    BY <1>8 DEF WaveOfferUntimed
  <2> QED BY <1>8, <2>1, LockAndRecordType, ThrowType DEF TypeOK, WaveOfferUntimed
<1>9. CASE WaveReschedules(b)
  <2>1. run[b].pc # "idle" /\ <<"wave", run[b].wave>> \in JobIds
    BY <1>9, JobIdFacts DEF WaveReschedules, WaveInv, WaveOK
  <2> QED BY <1>9, <2>1, FinishIntoType DEF TypeOK, WaveReschedules
<1>10. CASE WaveCannotReschedule(b)
  <2>1. run[b].pc # "idle"
    BY <1>10 DEF WaveCannotReschedule
  <2> QED BY <1>10, <2>1, ThrowType DEF TypeOK, WaveCannotReschedule
<1>11. CASE SearchLockExpires(b)
  BY <1>11, Still DEF TypeOK, SearchLockExpires
<1> QED BY <1>1, <1>2, <1>3, <1>4, <1>5, <1>6, <1>7, <1>8, <1>9, <1>10, <1>11,
           StartWaveType, WaveSkippedType DEF Wave

\* Every answer to an offer, and every release, keeps the types.
LEMMA OfferStepType ==
    ASSUME TypeOK, WaveInv, NEW b \in Bookings, NEW d \in Drivers, OfferStep(b, d)
    PROVE  TypeOK' /\ WaveInv'
<1>1. UNCHANGED <<jobs, run>>
  BY DEF OfferStep, Accept, AfterAssign, Reject, OfferTimesOut, FleetSuspended,
         ReleaseOfferLock
<1> SUFFICES TypeOK'
  BY <1>1, Still
<1>2. CASE Accept(b, d)
  <2>1. [booking[b] EXCEPT !.driver = d] \in Row
    <3>1. booking[b] \in Row
      BY RowFacts
    <3> QED BY <3>1 DEF Row
  <2>2. booking' \in [Bookings -> Row]
    BY <1>2, <2>1, TransitionType DEF Accept, JobStatus
  <2>3. attempts' \in [Bookings -> [Drivers -> SUBSET Outcome]]
    BY <1>2 DEF TypeOK, Accept, Resolve, Outcome
  <2> QED BY <1>2, <2>2, <2>3 DEF TypeOK, Accept
<1>3. CASE AfterAssign(b, d)
  BY <1>3 DEF TypeOK, AfterAssign, PendingOffers, Resolve, Outcome
<1>4. CASE Reject(b, d)
  BY <1>4 DEF TypeOK, Reject, Answer, Resolve, Outcome
<1>5. CASE OfferTimesOut(b, d)
  <2>1. /\ attempts' \in [Bookings -> [Drivers -> SUBSET Outcome]]
        /\ releasing' \subseteq Bookings \X Drivers
    <3>1. CASE Answer(b, d, "expired")
      BY <3>1 DEF TypeOK, Answer, Resolve, Outcome
    <3>2. CASE UNCHANGED <<attempts, releasing>>
      BY <3>2 DEF TypeOK
    <3> QED BY <1>5, <3>1, <3>2 DEF OfferTimesOut
  <2>2. timers' \subseteq Bookings \X Drivers \X OfferWaves \X {"waiting", "done"}
    <3>1. PICK w \in OfferWaves :
            timers' = (timers \ {<<b, d, w, "waiting">>}) \cup {<<b, d, w, "done">>}
      BY <1>5 DEF OfferTimesOut
    <3> QED BY <3>1 DEF TypeOK
  <2> QED BY <1>5, <2>1, <2>2 DEF TypeOK, OfferTimesOut
<1>6. CASE FleetSuspended(b, d)
  BY <1>6, RevokePendingType DEF TypeOK, FleetSuspended
<1>7. CASE ReleaseOfferLock(b, d)
  BY <1>7 DEF TypeOK, ReleaseOfferLock
<1> QED BY <1>2, <1>3, <1>4, <1>5, <1>6, <1>7 DEF OfferStep

\* A return to the search keeps the counter and the work owed typed.
LEMMA ReopenType ==
    ASSUME TypeOK, NEW b \in Bookings, NEW work \in SUBSET Work, Reopen(b, work)
    PROVE  /\ reopened' \in [Bookings -> 0 .. MaxReopen]
           /\ owed' \in [Bookings -> SUBSET Work]
BY DispatchAssumption DEF TypeOK, Reopen

\* Both forms of an operator's reassignment keep the types.
LEMMA ReassignType ==
    ASSUME TypeOK, WaveInv, NEW b \in Bookings, NEW work \in Work, Reassign(b, work)
    PROVE  TypeOK' /\ WaveInv'
<1>1. UNCHANGED <<jobs, run>>
  BY DEF Reassign
<1>2. booking' \in [Bookings -> Row]
  BY TransitionType, RowFacts DEF Reassign, JobStatus
<1>3. /\ attempts' \in [Bookings -> [Drivers -> SUBSET Outcome]]
      /\ releasing' \subseteq Bookings \X Drivers
  BY DEF TypeOK, Reassign, PendingOffers, Resolve, Outcome
<1>4. TypeOK'
  BY <1>1, <1>2, <1>3, ReopenType DEF TypeOK, Reassign
<1> QED BY <1>1, <1>4, Still

\* Every request from outside the engine keeps the types.
LEMMA RequestType ==
    ASSUME TypeOK, WaveInv, NEW b \in Bookings, Request(b)
    PROVE  TypeOK' /\ WaveInv'
<1>1. ASSUME NEW to \in JobStatus, Progress(b, to)
      PROVE  TypeOK' /\ WaveInv'
  <2>1. booking' \in [Bookings -> Row]
    BY <1>1, TransitionType, RowFacts DEF Progress
  <2> QED BY <1>1, <2>1, Still DEF TypeOK, Progress
<1>2. CASE Cancel(b)
  <2>1. booking' \in [Bookings -> Row]
    BY <1>2, TransitionType, RowFacts DEF Cancel, JobStatus
  <2> QED BY <1>2, <2>1, Still DEF TypeOK, Cancel
<1>3. ASSUME NEW r \in UnableReasons, Unable(b, r)
      PROVE  TypeOK' /\ WaveInv'
  <2>1. booking' \in [Bookings -> Row]
    BY <1>3, TransitionType, RowFacts DEF Unable, JobStatus
  <2>2. attempts' \in [Bookings -> [Drivers -> SUBSET Outcome]]
    <3>1. /\ attempts \in [Bookings -> [Drivers -> SUBSET Outcome]]
          /\ "unable" \in Outcome
      BY DEF TypeOK, Outcome
    <3>2. attempts' = [attempts EXCEPT ![b][booking[b].driver] = @ \cup {"unable"}]
      BY <1>3 DEF Unable
    <3> QED BY <3>1, <3>2
  <2>3. {<<"redispatch", r>>} \in SUBSET Work
    BY JobIdFacts DEF Work
  <2> QED BY <1>3, <2>1, <2>2, <2>3, ReopenType, Still DEF TypeOK, Unable
<1>4. CASE Reassign(b, <<"redispatch", 0>>)
  <2>1. <<"redispatch", 0>> \in Work
    BY JobIdFacts DEF Work
  <2> QED BY <1>4, <2>1, ReassignType
<1>5. ASSUME NEW d \in Drivers, Reassign(b, <<"offer-to", d>>)
      PROVE  TypeOK' /\ WaveInv'
  BY <1>5, ReassignType DEF Work
<1>6. CASE ReassignRefused(b)
  <2>1. PendingOffers(b) \in SUBSET Drivers
    BY DEF PendingOffers
  <2> QED BY <1>6, <2>1, RevokePendingType, Still DEF TypeOK, ReassignRefused
<1>7. CASE RetrySearch(b)
  <2>1. booking' \in [Bookings -> Row]
    BY <1>7, RowFacts, DispatchAssumption
       DEF TypeOK, RetrySearch, Transition, JobStatus, Row
  <2>2. {<<"retry", reopened[b] + 1>>} \in SUBSET Work
    BY <1>7, JobIdFacts, DispatchAssumption DEF TypeOK, RetrySearch, Reopen, Work
  <2> QED BY <1>7, <2>1, <2>2, ReopenType, Still DEF TypeOK, RetrySearch
<1>8. CASE OverrideToSearching(b)
  <2>1. booking' \in [Bookings -> Row]
    BY <1>8, TransitionType, RowFacts DEF OverrideToSearching, JobStatus
  <2> QED BY <1>8, <2>1, ReopenType, Still DEF TypeOK, OverrideToSearching
<1> QED BY <1>1, <1>2, <1>3, <1>4, <1>5, <1>6, <1>7, <1>8 DEF Request

\* What a request does after its commit keeps the types.
LEMMA ContinuationType ==
    ASSUME TypeOK, WaveInv, NEW b \in Bookings, Continuation(b)
    PROVE  TypeOK' /\ WaveInv'
<1>1. ASSUME NEW w \in owed[b], HandOver(b, w)
      PROVE  TypeOK' /\ WaveInv'
  <2>1. w \in JobIds
    BY <1>1 DEF TypeOK, HandOver, Work
  <2>2. owed' \in [Bookings -> SUBSET Work]
    BY <1>1 DEF TypeOK, HandOver
  <2> QED BY <1>1, <2>1, <2>2, EnqueueType DEF TypeOK, HandOver
<1>2. ASSUME NEW w \in owed[b], Redispatch(b, w)
      PROVE  TypeOK' /\ WaveInv'
  <2>1. w \in JobIds
    BY <1>2 DEF TypeOK, Redispatch, Work
  <2>2. owed' \in [Bookings -> SUBSET Work]
    BY <1>2 DEF TypeOK, Redispatch
  <2>3. CASE SetWaveState(b, StoredWave(b), "ahead") /\ Enqueue(b, w)
    <3>1. booking' \in [Bookings -> Row]
      BY <2>3, RowFacts DEF TypeOK, SetWaveState, Row, OfferWaves
    <3> QED BY <1>2, <2>1, <2>2, <2>3, <3>1, EnqueueType DEF TypeOK, Redispatch
  <2>4. CASE UNCHANGED <<booking, jobs, lost>>
    BY <1>2, <2>2, <2>4, Still DEF TypeOK, Redispatch
  <2> QED BY <1>2, <2>3, <2>4 DEF Redispatch
<1>3. ASSUME NEW d \in Drivers, AdminOfferToDriver(b, d)
      PROVE  TypeOK' /\ WaveInv'
  <2>1. owed' \in [Bookings -> SUBSET Work]
    BY <1>3 DEF TypeOK, AdminOfferToDriver
  <2>2. CASE MakeOffer(b, d, StoredWave(b)) /\ Enqueue(b, <<"admin-offer", 0>>)
    BY <1>3, <2>1, <2>2, RowFacts, MakeOfferType, EnqueueType, JobIdFacts
       DEF TypeOK, AdminOfferToDriver
  <2>3. CASE /\ LockAndRecord(b, d)
             /\ lost' = [lost EXCEPT ![b] = TRUE]
             /\ UNCHANGED <<timers, jobs>>
    <3>1. lost' \in [Bookings -> BOOLEAN]
      BY <2>3 DEF TypeOK
    <3> QED BY <1>3, <2>1, <2>3, <3>1, LockAndRecordType, Still
            DEF TypeOK, AdminOfferToDriver
  <2>4. CASE /\ lost' = [lost EXCEPT ![b] = @ \/ booking[b].status = "searching"]
             /\ UNCHANGED <<offerLock, attempts, timers, jobs>>
    <3>1. lost' \in [Bookings -> BOOLEAN]
      BY <2>4 DEF TypeOK
    <3> QED BY <1>3, <2>1, <2>4, <3>1, Still DEF TypeOK, AdminOfferToDriver
  <2> QED BY <1>3, <2>2, <2>3, <2>4 DEF AdminOfferToDriver
<1>4. CASE RunRevoke(b)
  <2>1. PendingOffers(b) \in SUBSET Drivers
    BY DEF PendingOffers
  <2> QED BY <1>4, <2>1, RevokePendingType, Still DEF TypeOK, RunRevoke
<1> QED BY <1>1, <1>2, <1>3, <1>4 DEF Continuation

\* A killed task, at any of its points, keeps the types.
LEMMA WorkerDiesType ==
    ASSUME TypeOK, WaveInv, NEW b \in Bookings, WorkerDies(b)
    PROVE  TypeOK' /\ WaveInv'
<1> DEFINE dies(known) ==
        [known EXCEPT ![run[b].job] = Stalled(known[run[b].job].left)]
<1>1. /\ run[b].job \in JobIds /\ jobs[b] \in [JobIds -> JobState]
      /\ jobs[b][run[b].job].st = "active"
  BY DEF TypeOK, WorkerDies, WaveInv, WaveOK
<1>2. PICK known \in [JobIds -> JobState] :
        /\ jobs' = [jobs EXCEPT ![b] = dies(known)]
        /\ \A i \in JobIds : \/ known[i] = jobs[b][i]
                             \/ jobs[b][i] = Unknown /\ known[i] = Waiting(Attempts(i))
  <2>1. CASE jobs' = [jobs EXCEPT ![b] = dies(jobs[b])]
    BY <1>1, <2>1
  <2>2. CASE /\ run[b].pc = "offering"
             /\ jobs' = [jobs EXCEPT ![b] = dies(Add(jobs[b], <<"wave", run[b].wave>>))]
    <3>1. <<"wave", run[b].wave>> \in JobIds
      BY <2>2, JobIdFacts DEF WaveInv, WaveOK
    <3>2. /\ Add(jobs[b], <<"wave", run[b].wave>>) \in [JobIds -> JobState]
          /\ \A i \in JobIds :
               \/ Add(jobs[b], <<"wave", run[b].wave>>)[i] = jobs[b][i]
               \/ /\ jobs[b][i] = Unknown
                  /\ Add(jobs[b], <<"wave", run[b].wave>>)[i] = Waiting(Attempts(i))
      BY <1>1, <3>1, JobStateFacts DEF Add
    <3> QED BY <2>2, <3>2
  <2> QED BY <2>1, <2>2 DEF WorkerDies
<1>3. /\ known[run[b].job] = jobs[b][run[b].job]
      /\ known[run[b].job].left \in 1 .. 3
  BY <1>1, <1>2 DEF WaveInv, WaveOK, JobState, Unknown
<1>4. dies(known) \in [JobIds -> JobState]
  BY <1>1, <1>3, JobStateFacts
<1>5. jobs' \in [Bookings -> [JobIds -> JobState]]
  BY <1>2, <1>4 DEF TypeOK
<1>6. run' = [run EXCEPT ![b] = IdleRun] /\ run' \in [Bookings -> RunState]
  BY IdleRunType DEF TypeOK, WorkerDies
<1>7. /\ attempts' \in [Bookings -> [Drivers -> SUBSET Outcome]]
      /\ offerLock' \in [Drivers -> Bookings \cup {NoBooking}]
  <2>1. CASE \E d \in run[b].cands : LockAndRecord(b, d)
    BY <2>1, LockAndRecordType DEF TypeOK, RunState
  <2>2. CASE UNCHANGED <<attempts, offerLock>>
    BY <2>2 DEF TypeOK
  <2> QED BY <2>1, <2>2 DEF WorkerDies
<1>8. TypeOK'
  BY <1>5, <1>6, <1>7 DEF TypeOK, WorkerDies
<1>9. \A c \in Bookings \ {b} : jobs'[c] = jobs[c] /\ run'[c] = run[c]
  BY <1>2, <1>6 DEF TypeOK
<1>10. WaveOK(jobs[b], run[b])'
  <2>1. jobs'[b] = dies(known) /\ run'[b] = IdleRun
    BY <1>2, <1>6 DEF TypeOK
  <2>2. /\ \A i \in JobIds : Waiting(Attempts(i)).left > 0
        /\ Stalled(known[run[b].job].left).left > 0
    BY <1>3, JobStateFacts DEF Waiting, Stalled
  <2> QED BY <1>1, <1>2, <2>1, <2>2 DEF WaveInv, WaveOK, IdleRun
<1> QED BY <1>8, <1>9, <1>10, OneMoves

\* The types hold at the start.
LEMMA TypeInit == Init => TypeOK /\ WaveInv
<1> SUFFICES ASSUME Init PROVE TypeOK /\ WaveInv
  OBVIOUS
<1>1. booking \in [Bookings -> Row]
  BY DispatchAssumption DEF Init, Row, JobStatus
<1>2. jobs \in [Bookings -> [JobIds -> JobState]] /\ run \in [Bookings -> RunState]
  BY JobStateFacts, IdleRunType DEF Init
<1>3. owed \in [Bookings -> SUBSET Work]
  BY JobIdFacts DEF Init, Work
<1>4. TypeOK
  BY <1>1, <1>2, <1>3, DispatchAssumption DEF Init, TypeOK
<1>5. WaveInv
  BY DEF Init, WaveInv, WaveOK, Unknown, IdleRun
<1> QED BY <1>4, <1>5

\* The types and the invariant of waves are inductive.
LEMMA TypeStep == TypeOK /\ WaveInv /\ [Next]_vars => TypeOK' /\ WaveInv'
<1> SUFFICES ASSUME TypeOK, WaveInv, [Next]_vars PROVE TypeOK' /\ WaveInv'
  OBVIOUS
<1>1. ASSUME NEW b \in Bookings, Environment(b)
      PROVE  TypeOK' /\ WaveInv'
  <2>1. CASE ScheduledTimeArrives(b)
    BY <2>1, Still DEF TypeOK, ScheduledTimeArrives
  <2>2. CASE DeadlinePasses(b)
    <3>1. [booking[b] EXCEPT !.deadline = "past"] \in Row
      BY RowFacts DEF Row
    <3>2. booking' = [booking EXCEPT ![b] = [booking[b] EXCEPT !.deadline = "past"]]
      BY <2>2 DEF DeadlinePasses
    <3>3. booking' \in [Bookings -> Row]
      BY <3>1, <3>2 DEF TypeOK
    <3> QED BY <2>2, <3>3, Still DEF TypeOK, DeadlinePasses
  <2>3. CASE KillSwitch(b)
    BY <2>3, Still DEF TypeOK, KillSwitch
  <2> QED BY <1>1, <2>1, <2>2, <2>3, WorkerDiesType DEF Environment
<1>2. ASSUME NEW d \in Drivers, OfferLockExpires(d)
      PROVE  TypeOK' /\ WaveInv'
  BY <1>2, Still DEF TypeOK, OfferLockExpires
<1>3. CASE UNCHANGED vars
  BY <1>3 DEF vars, TypeOK, WaveInv, WaveOK
<1> QED BY <1>1, <1>2, <1>3, WaveType, RequestType, ContinuationType, OfferStepType
        DEF Next

\* The engine keeps every variable within its type: rows, job states, and what
\* each handler holds between two awaits.
THEOREM TypeCorrect == Spec => []TypeOK
BY TypeInit, TypeStep, PTL DEF Spec

------------------------------------------------------------------------------
(* One live offer per driver *)

\* The conditions under which the offer lock can be relied on.
Timely == /\ ~LateWorkers      \* offer-timeout jobs run within the lock's grace
          /\ ~QueueCanFail     \* and are always enqueued,
          /\ ~WorkersCrash     \* no task dies before it has enqueued them,
          /\ ~AdminReassigns   \* and no operator offers beside the waves

\* The lock invariant holds at the start.
LEMMA OfferLockInit == Init => OfferLockInv
BY DispatchAssumption
   DEF Init, OfferLockInv, Held, Closing, Fresh, IsOffered, IdleRun

\* A step that adds no candidate, no assigned driver and no operator's offer.
Calm == \A c \in Bookings, e \in Drivers :
            /\ e \in run'[c].cands => e \in run[c].cands
            /\ booking'[c].driver = e => booking[c].driver = e
            /\ <<"offer-to", e>> \in owed'[c] => <<"offer-to", e>> \in owed[c]

offerVars == <<attempts, offerLock, timers, assigning, releasing>>

\* The lock invariant for one booking and driver.
LEMMA OfferLockParts ==
    OfferLockInv <=> \A c \in Bookings, e \in Drivers :
                        Held(c, e) /\ Closing(c, e) /\ Fresh(c, e)
BY DEF OfferLockInv

\* The lock invariant after a step, from its parts.
LEMMA OfferLockPartsNext ==
    (\A c \in Bookings, e \in Drivers : Held(c, e)' /\ Closing(c, e)' /\ Fresh(c, e)')
        => OfferLockInv'
BY DEF OfferLockInv

\* Nothing about offers moves.
LEMMA CalmStep == ASSUME OfferLockInv, Calm, UNCHANGED offerVars PROVE OfferLockInv'
<1> SUFFICES ASSUME NEW c \in Bookings, NEW e \in Drivers
             PROVE  Held(c, e)' /\ Closing(c, e)' /\ Fresh(c, e)'
  BY OfferLockPartsNext
<1>1. Held(c, e) /\ Closing(c, e) /\ Fresh(c, e)
  BY OfferLockParts
<1>2. Held(c, e)' /\ Closing(c, e)'
  BY <1>1 DEF Held, Closing, offerVars, IsOffered, HasTimer
<1>3. Fresh(c, e)'
  BY <1>1 DEF Fresh, Calm, offerVars
<1> QED BY <1>2, <1>3

\* Live offers are revoked and their locks put up for deletion.
LEMMA CalmRevoke ==
    ASSUME TypeOK, OfferLockInv, Calm, NEW b \in Bookings,
           NEW ds \in SUBSET PendingOffers(b), RevokePending(b, ds),
           UNCHANGED <<offerLock, timers, assigning>>
    PROVE  OfferLockInv'
<1> SUFFICES ASSUME NEW c \in Bookings, NEW e \in Drivers
             PROVE  Held(c, e)' /\ Closing(c, e)' /\ Fresh(c, e)'
  BY OfferLockPartsNext
<1>1. Held(c, e) /\ Closing(c, e) /\ Fresh(c, e)
  BY OfferLockParts
<1>2. ds \subseteq Drivers /\ \A d \in ds : "offered" \in attempts[b][d]
  BY DEF PendingOffers, IsOffered
<1>3. <<c, e>> \in releasing' <=> <<c, e>> \in releasing \/ (c = b /\ e \in ds)
  BY <1>2 DEF TypeOK, RevokePending
<1>4. CASE c = b /\ e \in ds
  <2>1. attempts'[c][e] = Resolve(attempts[c][e], "revoked")
    BY <1>4 DEF TypeOK, RevokePending
  <2>2. ~IsOffered(c, e)' /\ attempts'[c][e] # {} /\ IsOffered(c, e)
    BY <1>2, <1>4, <2>1 DEF IsOffered, Resolve
  <2>3. Held(c, e)'
    BY <2>2 DEF Held
  <2>4. Closing(c, e)'
    BY <1>1, <2>2 DEF Held, Closing
  <2>5. Fresh(c, e)'
    BY <1>1, <2>2, <1>4, <1>2 DEF Fresh, Calm
  <2> QED BY <2>3, <2>4, <2>5
<1>5. CASE ~(c = b /\ e \in ds)
  <2>1. attempts'[c][e] = attempts[c][e]
    BY <1>5 DEF TypeOK, RevokePending
  <2>2. Held(c, e)' /\ Closing(c, e)'
    BY <1>1, <1>3, <1>5, <2>1 DEF Held, Closing, IsOffered, HasTimer
  <2>3. Fresh(c, e)'
    BY <1>1, <2>1 DEF Fresh, Calm
  <2> QED BY <2>2, <2>3
<1> QED BY <1>4, <1>5

\* A wave that ends asks nobody any more.
LEMMA EndRunCalm ==
    ASSUME TypeOK, NEW b \in Bookings, EndRun(b), UNCHANGED <<booking, owed>>
    PROVE  Calm
BY DEF TypeOK, EndRun, IdleRun, Calm

\* No step of runWave breaks the tie between offers, locks and timers.
LEMMA LockOffers ==
    ASSUME TypeOK, WaveInv, OfferLockInv, Timely, NEW b \in Bookings, Wave(b)
    PROVE  OfferLockInv'
<1>1. ASSUME NEW j \in JobIds, StartWave(b, j) PROVE OfferLockInv'
  <2>1. Calm
    BY <1>1 DEF TypeOK, StartWave, Calm
  <2> QED BY <1>1, <2>1, CalmStep DEF StartWave, offerVars
<1>2. ASSUME NEW j \in JobIds, WaveSkipped(b, j) PROVE OfferLockInv'
  BY <1>2, CalmStep DEF WaveSkipped, offerVars, Calm
<1>3. ASSUME NEW j \in JobIds, JobRedelivered(b, j) PROVE OfferLockInv'
  BY <1>3, CalmStep DEF JobRedelivered, offerVars, Calm
<1>4. CASE WaveStops(b)
  BY <1>4, EndRunCalm, CalmStep DEF WaveStops, offerVars
<1>5. CASE WaveWaitsForSchedule(b)
  BY <1>5, EndRunCalm, CalmStep DEF WaveWaitsForSchedule, FinishInto, offerVars
<1>6. CASE WaveHeld(b)
  BY <1>6, EndRunCalm, CalmRevoke DEF WaveHeld, FinishInto
<1>7. CASE WaveGivesUp(b)
  <2>1. EndRun(b)
    BY <1>7 DEF WaveGivesUp, Throw
  <2>2. \A c \in Bookings : booking'[c].driver = booking[c].driver
    <3>1. CASE Transition(b, "no_drivers_found", booking[b])
      BY <3>1 DEF TypeOK, Transition
    <3>2. CASE UNCHANGED booking
      BY <3>2
    <3> QED BY <1>7, <3>1, <3>2 DEF WaveGivesUp
  <2>3. Calm
    BY <1>7, <2>1, <2>2 DEF TypeOK, WaveGivesUp, EndRun, IdleRun, Calm
  <2> QED BY <1>7, <2>3, CalmStep DEF WaveGivesUp, offerVars
<1>8. CASE WaveSelects(b)
  <2>1. PICK ds \in SUBSET Selectable(b) :
          /\ run'[b].cands = ds
          /\ \A c \in Bookings \ {b} : run'[c] = run[c]
    BY <1>8 DEF TypeOK, WaveSelects
  <2>2. \A c \in Bookings : booking'[c].driver = booking[c].driver
    BY <1>8 DEF TypeOK, WaveSelects, SetWaveState
  <2>3. \A c \in Bookings, e \in Drivers : e \in run'[c].cands => attempts[c][e] = {}
    BY <2>1, OfferLockParts DEF Selectable, Fresh
  <2>4. UNCHANGED <<attempts, offerLock, timers, assigning, releasing, owed>>
    BY <1>8 DEF WaveSelects
  <2> SUFFICES ASSUME NEW c \in Bookings, NEW e \in Drivers
               PROVE  Held(c, e)' /\ Closing(c, e)' /\ Fresh(c, e)'
    BY OfferLockPartsNext
  <2>5. Held(c, e) /\ Closing(c, e) /\ Fresh(c, e)
    BY OfferLockParts
  <2>6. Held(c, e)' /\ Closing(c, e)'
    BY <2>4, <2>5 DEF Held, Closing, IsOffered, HasTimer
  <2>7. Fresh(c, e)'
    BY <2>2, <2>3, <2>4, <2>5 DEF Fresh
  <2> QED BY <2>6, <2>7
<1>9. ASSUME NEW d \in Drivers, WaveOffers(b, d) PROVE OfferLockInv'
  <2>1. /\ run'[b].cands = run[b].cands \ {d}
        /\ \A c \in Bookings \ {b} : run'[c] = run[c]
    BY <1>9 DEF TypeOK, WaveOffers, RunState
  <2>2. CASE MakeOffer(b, d, run[b].wave)
    <3>1. UNCHANGED <<booking, owed, assigning, releasing>> /\ d \in run[b].cands
      BY <1>9 DEF WaveOffers
    <3>2. offerLock[d] = NoBooking /\ NoBooking \notin Bookings
      BY <2>2, DispatchAssumption DEF MakeOffer, LockAndRecord
    <3>3. attempts[b][d] = {} /\ \A t \in timers : t[1] = b => t[2] # d
      BY <3>1, OfferLockParts DEF Fresh
    <3>4. run[b].wave \in OfferWaves
      BY <1>9 DEF WaveOffers, WaveInv, WaveOK
    <3>5. timers' = timers \cup {<<b, d, run[b].wave, "waiting">>}
      <4>1. <<b, d, run[b].wave, "done">> \notin timers
        BY <3>3
      <4> QED BY <4>1, <2>2 DEF MakeOffer
    <3> SUFFICES ASSUME NEW c \in Bookings, NEW e \in Drivers
                 PROVE  Held(c, e)' /\ Closing(c, e)' /\ Fresh(c, e)'
      BY OfferLockPartsNext
    <3>6. Held(c, e) /\ Closing(c, e) /\ Fresh(c, e)
      BY OfferLockParts
    <3>7. CASE c = b /\ e = d
      <4>1. IsOffered(c, e)' /\ attempts'[c][e] # {} /\ offerLock'[e] = c
        BY <2>2, <3>7 DEF TypeOK, MakeOffer, LockAndRecord, IsOffered
      <4>2. HasTimer(c, e)'
        BY <3>4, <3>5, <3>7 DEF HasTimer
      <4>3. Held(c, e)'
        BY <4>1, <4>2 DEF Held
      <4>4. Closing(c, e)'
        BY <3>1, <3>2, <3>6, <3>7 DEF Closing
      <4>5. Fresh(c, e)'
        BY <2>1, <3>1, <3>6, <3>7, <4>1 DEF Fresh
      <4> QED BY <4>3, <4>4, <4>5
    <3>8. CASE ~(c = b /\ e = d)
      <4>1. attempts'[c][e] = attempts[c][e]
        BY <2>2, <3>8 DEF TypeOK, MakeOffer, LockAndRecord
      <4>2. HasTimer(c, e) => HasTimer(c, e)'
        BY <3>5 DEF HasTimer
      <4>3. offerLock[e] = c => offerLock'[e] = c
        BY <2>2, <3>2, <3>8 DEF TypeOK, MakeOffer, LockAndRecord
      <4>4. Held(c, e)'
        BY <3>6, <4>1, <4>2, <4>3 DEF Held, IsOffered
      <4>5. Closing(c, e)'
        BY <3>1, <3>6, <4>1, <4>3 DEF Closing, IsOffered
      <4>6. (\A t \in timers : t[1] = c => t[2] # e)
               => \A t \in timers' : t[1] = c => t[2] # e
        BY <3>5, <3>8
      <4>7. run'[c].cands \subseteq run[c].cands
        BY <2>1
      <4>8. Fresh(c, e)'
        BY <3>1, <3>6, <4>1, <4>6, <4>7 DEF Fresh
      <4> QED BY <4>4, <4>5, <4>8
    <3> QED BY <3>7, <3>8
  <2>3. CASE UNCHANGED <<offerLock, attempts, timers>>
    <3>1. Calm
      BY <1>9, <2>1 DEF WaveOffers, Calm
    <3> QED BY <1>9, <2>3, <3>1, CalmStep DEF WaveOffers, offerVars
  <2> QED BY <1>9, <2>2, <2>3 DEF WaveOffers
<1>10. CASE WaveReschedules(b)
  BY <1>10, EndRunCalm, CalmStep DEF WaveReschedules, FinishInto, offerVars
<1>11. CASE SearchLockExpires(b)
  BY <1>11, CalmStep DEF SearchLockExpires, offerVars, Calm
<1> QED BY <1>1, <1>2, <1>3, <1>4, <1>5, <1>6, <1>7, <1>8, <1>9, <1>10, <1>11
        DEF Wave, Timely, WaveOfferUntimed, WaveCannotReschedule

\* One offer is resolved; only its own timer may go.
LEMMA AnswerStep ==
    ASSUME TypeOK, OfferLockInv, NEW b \in Bookings, NEW d \in Drivers,
           NEW o \in Outcome \ {"offered"}, Answer(b, d, o),
           UNCHANGED <<booking, offerLock, run, owed, assigning>>,
           \A t \in timers : ~(t[1] = b /\ t[2] = d) => t \in timers',
           \A t \in timers' : t \in timers \/ (t[1] = b /\ t[2] = d)
    PROVE  OfferLockInv'
<1> SUFFICES ASSUME NEW c \in Bookings, NEW e \in Drivers
             PROVE  Held(c, e)' /\ Closing(c, e)' /\ Fresh(c, e)'
  BY OfferLockPartsNext
<1>1. Held(c, e) /\ Closing(c, e) /\ Fresh(c, e)
  BY OfferLockParts
<1>2. <<c, e>> \in releasing' <=> <<c, e>> \in releasing \/ (c = b /\ e = d)
  BY DEF Answer
<1>3. CASE c = b /\ e = d
  <2>1. attempts'[c][e] = Resolve(attempts[c][e], o) /\ IsOffered(c, e)
    BY <1>3 DEF TypeOK, Answer
  <2>2. ~IsOffered(c, e)' /\ attempts'[c][e] # {} /\ attempts[c][e] # {}
    BY <2>1 DEF IsOffered, Resolve
  <2>3. Held(c, e)'
    BY <2>2 DEF Held
  <2>4. Closing(c, e)'
    BY <1>1, <2>1, <2>2 DEF Held, Closing
  <2>5. Fresh(c, e)'
    BY <1>1, <2>2 DEF Fresh
  <2> QED BY <2>3, <2>4, <2>5
<1>4. CASE ~(c = b /\ e = d)
  <2>1. attempts'[c][e] = attempts[c][e]
    BY <1>4 DEF TypeOK, Answer
  <2>2. HasTimer(c, e) => HasTimer(c, e)'
    BY <1>4 DEF HasTimer
  <2>3. Held(c, e)'
    BY <1>1, <2>1, <2>2 DEF Held, IsOffered
  <2>4. Closing(c, e)'
    BY <1>1, <1>2, <1>4, <2>1 DEF Closing, IsOffered
  <2>5. Fresh(c, e)'
    BY <1>1, <1>4, <2>1 DEF Fresh
  <2> QED BY <2>3, <2>4, <2>5
<1> QED BY <1>3, <1>4

\* The winner's row moves and the accept is left to afterAssign.
LEMMA AcceptStep ==
    ASSUME TypeOK, OfferLockInv, NEW b \in Bookings, NEW d \in Drivers, Accept(b, d)
    PROVE  OfferLockInv'
<1> SUFFICES ASSUME NEW c \in Bookings, NEW e \in Drivers
             PROVE  Held(c, e)' /\ Closing(c, e)' /\ Fresh(c, e)'
  BY OfferLockPartsNext
<1>1. Held(c, e) /\ Closing(c, e) /\ Fresh(c, e)
  BY OfferLockParts
<1>2. UNCHANGED <<offerLock, timers, run, owed, releasing>>
  BY DEF Accept
<1>3. <<c, e>> \in assigning' <=> <<c, e>> \in assigning \/ (c = b /\ e = d)
  BY DEF Accept
<1>4. booking'[c].driver = e => booking[c].driver = e \/ (c = b /\ e = d)
  BY DEF TypeOK, Accept, Transition, Row
<1>5. CASE c = b /\ e = d
  <2>1. attempts'[c][e] = Resolve(attempts[c][e], "accepted") /\ IsOffered(c, e)
    BY <1>5 DEF TypeOK, Accept
  <2>2. ~IsOffered(c, e)' /\ attempts'[c][e] # {} /\ attempts[c][e] # {}
    BY <2>1 DEF IsOffered, Resolve
  <2>3. Held(c, e)'
    BY <2>2 DEF Held
  <2>4. Closing(c, e)'
    BY <1>1, <1>2, <2>1, <2>2 DEF Held, Closing
  <2>5. Fresh(c, e)'
    BY <1>1, <1>2, <2>2 DEF Fresh
  <2> QED BY <2>3, <2>4, <2>5
<1>6. CASE ~(c = b /\ e = d)
  <2>1. attempts'[c][e] = attempts[c][e]
    BY <1>6 DEF TypeOK, Accept
  <2>2. Held(c, e)' /\ Closing(c, e)'
    BY <1>1, <1>2, <1>3, <1>6, <2>1 DEF Held, Closing, IsOffered, HasTimer
  <2>3. Fresh(c, e)'
    BY <1>1, <1>2, <1>4, <1>6, <2>1 DEF Fresh
  <2> QED BY <2>2, <2>3
<1> QED BY <1>5, <1>6

\* The losers' offers are revoked; their locks and the winner's are to go.
LEMMA AfterAssignStep ==
    ASSUME TypeOK, OfferLockInv, NEW b \in Bookings, NEW d \in Drivers,
           AfterAssign(b, d)
    PROVE  OfferLockInv'
<1> DEFINE losers == PendingOffers(b) \ {d}
<1> SUFFICES ASSUME NEW c \in Bookings, NEW e \in Drivers
             PROVE  Held(c, e)' /\ Closing(c, e)' /\ Fresh(c, e)'
  BY OfferLockPartsNext
<1>1. Held(c, e) /\ Closing(c, e) /\ Fresh(c, e)
  BY OfferLockParts
<1>2. UNCHANGED <<booking, offerLock, timers, run, owed>>
  BY DEF AfterAssign
<1>3. <<b, d>> \in assigning
  BY DEF AfterAssign
<1>4. <<c, e>> \in assigning' <=> <<c, e>> \in assigning /\ ~(c = b /\ e = d)
  BY DEF AfterAssign
<1>5. <<c, e>> \in releasing' <=>
        <<c, e>> \in releasing \/ (c = b /\ (e \in losers \/ e = d))
  BY DEF AfterAssign
<1>6. CASE c = b /\ e \in losers
  <2>1. attempts'[c][e] = Resolve(attempts[c][e], "revoked") /\ IsOffered(c, e)
    BY <1>6 DEF TypeOK, AfterAssign, PendingOffers
  <2>2. ~IsOffered(c, e)' /\ attempts'[c][e] # {} /\ attempts[c][e] # {}
    BY <2>1 DEF IsOffered, Resolve
  <2>3. Held(c, e)'
    BY <2>2 DEF Held
  <2>4. Closing(c, e)'
    BY <1>1, <1>2, <1>4, <2>1, <2>2 DEF Held, Closing
  <2>5. Fresh(c, e)'
    BY <1>1, <1>2, <2>2 DEF Fresh
  <2> QED BY <2>3, <2>4, <2>5
<1>7. CASE ~(c = b /\ e \in losers)
  <2>1. attempts'[c][e] = attempts[c][e]
    BY <1>7 DEF TypeOK, AfterAssign
  <2>2. Held(c, e)'
    BY <1>1, <1>2, <2>1 DEF Held, IsOffered, HasTimer
  <2>3. Closing(c, e)'
    BY <1>1, <1>2, <1>3, <1>4, <1>5, <1>7, <2>1 DEF Closing, IsOffered
  <2>4. Fresh(c, e)'
    BY <1>1, <1>2, <2>1 DEF Fresh
  <2> QED BY <2>2, <2>3, <2>4
<1> QED BY <1>6, <1>7

\* A lock is dropped that no live offer and no pending DEL of another booking
\* relies on: the DEL itself, or the TTL.
LEMMA UnlockStep ==
    ASSUME TypeOK, OfferLockInv, NEW b \in Bookings, NEW d \in Drivers,
           offerLock[d] = b, ~IsOffered(b, d),
           offerLock' = [offerLock EXCEPT ![d] = NoBooking],
           <<b, d>> \notin assigning \cup releasing',
           \A c \in Bookings, e \in Drivers :
               ~(c = b /\ e = d) => (<<c, e>> \in releasing' <=> <<c, e>> \in releasing),
           UNCHANGED <<booking, attempts, timers, run, owed, assigning>>
    PROVE  OfferLockInv'
<1> SUFFICES ASSUME NEW c \in Bookings, NEW e \in Drivers
             PROVE  Held(c, e)' /\ Closing(c, e)' /\ Fresh(c, e)'
  BY OfferLockPartsNext
<1>1. Held(c, e) /\ Closing(c, e) /\ Fresh(c, e)
  BY OfferLockParts
<1>2. Fresh(c, e)'
  BY <1>1 DEF Fresh
<1>3. CASE c = b /\ e = d
  BY <1>2, <1>3 DEF Held, Closing, IsOffered
<1>4. CASE ~(c = b /\ e = d)
  <2>1. offerLock[e] = c => offerLock'[e] = c
    BY <1>4 DEF TypeOK
  <2>2. Held(c, e)'
    BY <1>1, <2>1 DEF Held, IsOffered, HasTimer
  <2>3. Closing(c, e)'
    BY <1>1, <1>4, <2>1 DEF Closing, IsOffered
  <2> QED BY <1>2, <2>2, <2>3
<1> QED BY <1>3, <1>4

\* No answer, assignment or release breaks it.
LEMMA OfferStepLocks ==
    ASSUME TypeOK, OfferLockInv, NEW b \in Bookings, NEW d \in Drivers, OfferStep(b, d)
    PROVE  OfferLockInv'
<1>1. CASE Reject(b, d)
  BY <1>1, AnswerStep DEF Reject, Outcome
<1>2. CASE OfferTimesOut(b, d)
  <2>1. PICK w \in OfferWaves :
          timers' = (timers \ {<<b, d, w, "waiting">>}) \cup {<<b, d, w, "done">>}
    BY <1>2 DEF OfferTimesOut
  <2>2. /\ \A t \in timers : ~(t[1] = b /\ t[2] = d) => t \in timers'
        /\ \A t \in timers' : t \in timers \/ (t[1] = b /\ t[2] = d)
    BY <2>1
  <2>3. CASE Answer(b, d, "expired")
    BY <1>2, <2>2, <2>3, AnswerStep DEF OfferTimesOut, Outcome
  <2>4. CASE ~IsOffered(b, d) /\ UNCHANGED <<attempts, releasing>>
    <3> SUFFICES ASSUME NEW c \in Bookings, NEW e \in Drivers
                 PROVE  Held(c, e)' /\ Closing(c, e)' /\ Fresh(c, e)'
      BY OfferLockPartsNext
    <3>1. Held(c, e) /\ Closing(c, e) /\ Fresh(c, e)
      BY OfferLockParts
    <3>2. UNCHANGED <<booking, offerLock, run, owed, assigning, attempts, releasing>>
      BY <1>2, <2>4 DEF OfferTimesOut
    <3>3. HasTimer(c, e) /\ ~(c = b /\ e = d) => HasTimer(c, e)'
      BY <2>2 DEF HasTimer
    <3>4. Held(c, e)' /\ Closing(c, e)'
      BY <3>1, <3>2, <3>3, <2>4 DEF Held, Closing, IsOffered
    <3>5. attempts[b][d] # {}
      <4>1. PICK v \in OfferWaves : <<b, d, v, "waiting">> \in timers
        BY <1>2 DEF OfferTimesOut
      <4>2. Fresh(b, d)
        BY OfferLockParts
      <4> QED BY <4>1, <4>2 DEF Fresh
    <3>6. Fresh(c, e)'
      BY <3>1, <3>2, <3>5, <2>2 DEF Fresh
    <3> QED BY <3>4, <3>6
  <2> QED BY <1>2, <2>3, <2>4 DEF OfferTimesOut
<1>3. CASE FleetSuspended(b, d)
  <2>1. {d} \in SUBSET PendingOffers(b)
    BY <1>3 DEF FleetSuspended, PendingOffers
  <2> QED BY <1>3, <2>1, CalmRevoke DEF FleetSuspended, Calm
<1>4. CASE ReleaseOfferLock(b, d)
  <2>1. Closing(b, d) /\ <<b, d>> \in releasing
    BY <1>4, OfferLockParts DEF ReleaseOfferLock
  <2>2. offerLock[d] = b /\ ~IsOffered(b, d) /\ <<b, d>> \notin assigning
    BY <2>1 DEF Closing
  <2> QED BY <1>4, <2>2, UnlockStep DEF ReleaseOfferLock
<1> QED BY <1>1, <1>2, <1>3, <1>4, AcceptStep, AfterAssignStep DEF OfferStep

\* The requests keep a booking's driver, or clear it and mark their attempt.
LEMMA RequestLocks ==
    ASSUME TypeOK, OfferLockInv, Timely, NEW b \in Bookings, Request(b)
    PROVE  OfferLockInv'
<1>1. ASSUME NEW to \in JobStatus, Progress(b, to) PROVE OfferLockInv'
  <2>1. Calm
    BY <1>1 DEF TypeOK, Progress, Transition, Calm
  <2> QED BY <1>1, <2>1, CalmStep DEF Progress, offerVars
<1>2. CASE Cancel(b)
  <2>1. Calm
    BY <1>2 DEF TypeOK, Cancel, Transition, Calm
  <2> QED BY <1>2, <2>1, CalmStep DEF Cancel, offerVars
<1>3. ASSUME NEW r \in UnableReasons, Unable(b, r) PROVE OfferLockInv'
  <2>1. UNCHANGED <<offerLock, timers, run, assigning, releasing>>
    BY <1>3 DEF Unable
  <2>2. \A c \in Bookings, e \in Drivers :
            booking'[c].driver = e => booking[c].driver = e
    <3>1. Cleared(booking[b]).driver = NoDriver
      BY DEF Cleared, TypeOK, Row
    <3> QED BY <1>3, <3>1, DispatchAssumption DEF TypeOK, Unable, Transition
  <2>3. \A c \in Bookings, e \in Drivers :
            <<"offer-to", e>> \in owed'[c] => <<"offer-to", e>> \in owed[c]
    BY <1>3 DEF TypeOK, Unable, Reopen
  <2> SUFFICES ASSUME NEW c \in Bookings, NEW e \in Drivers
               PROVE  Held(c, e)' /\ Closing(c, e)' /\ Fresh(c, e)'
    BY OfferLockPartsNext
  <2>4. Held(c, e) /\ Closing(c, e) /\ Fresh(c, e)
    BY OfferLockParts
  <2>5. \/ attempts'[c][e] = attempts[c][e]
        \/ booking[c].driver = e /\ attempts'[c][e] = attempts[c][e] \cup {"unable"}
    BY <1>3 DEF TypeOK, Unable
  <2>6. IsOffered(c, e)' <=> IsOffered(c, e)
    BY <2>5 DEF IsOffered
  <2>7. Held(c, e)' /\ Closing(c, e)'
    BY <2>1, <2>4, <2>6 DEF Held, Closing, HasTimer
  <2>8. attempts'[c][e] = {} <=> attempts[c][e] = {}
    BY <2>4, <2>5 DEF Fresh
  <2>9. Fresh(c, e)'
    BY <2>1, <2>2, <2>3, <2>4, <2>8 DEF Fresh
  <2> QED BY <2>7, <2>9
<1>4. CASE RetrySearch(b)
  <2>1. Calm
    BY <1>4 DEF TypeOK, RetrySearch, Transition, Reopen, Calm
  <2> QED BY <1>4, <2>1, CalmStep DEF RetrySearch, offerVars
<1>5. CASE OverrideToSearching(b)
  <2>1. Calm
    BY <1>5 DEF TypeOK, OverrideToSearching, Transition, Reopen, Calm
  <2> QED BY <1>5, <2>1, CalmStep DEF OverrideToSearching, offerVars
<1> QED BY <1>1, <1>2, <1>3, <1>4, <1>5
        DEF Request, Timely, Reassign, ReassignRefused

\* No continuation of a request breaks it.
LEMMA ContinuationLocks ==
    ASSUME TypeOK, OfferLockInv, Timely, NEW b \in Bookings, Continuation(b)
    PROVE  OfferLockInv'
<1>1. ASSUME NEW w \in owed[b], HandOver(b, w) PROVE OfferLockInv'
  <2>1. Calm
    BY <1>1 DEF TypeOK, HandOver, Calm
  <2> QED BY <1>1, <2>1, CalmStep DEF HandOver, offerVars
<1>2. ASSUME NEW w \in owed[b], Redispatch(b, w) PROVE OfferLockInv'
  <2>1. \A c \in Bookings : booking'[c].driver = booking[c].driver
    <3>1. CASE SetWaveState(b, StoredWave(b), "ahead")
      BY <3>1 DEF TypeOK, SetWaveState
    <3>2. CASE UNCHANGED booking
      BY <3>2
    <3> QED BY <1>2, <3>1, <3>2 DEF Redispatch
  <2>2. Calm
    BY <1>2, <2>1 DEF TypeOK, Redispatch, Calm
  <2> QED BY <1>2, <2>2, CalmStep DEF Redispatch, offerVars
<1>3. ASSUME NEW d \in Drivers, AdminOfferToDriver(b, d) PROVE OfferLockInv'
  BY <1>3, OfferLockParts DEF AdminOfferToDriver, Fresh
<1>4. CASE RunRevoke(b)
  BY <1>4, CalmRevoke DEF RunRevoke, Calm
<1> QED BY <1>1, <1>2, <1>3, <1>4 DEF Continuation

\* Time, the kill switch and (while no task dies) the workers do not break it.
LEMMA EnvironmentLocks ==
    ASSUME TypeOK, OfferLockInv, Timely, NEW b \in Bookings, Environment(b)
    PROVE  OfferLockInv'
<1>1. CASE ScheduledTimeArrives(b)
  BY <1>1, CalmStep DEF ScheduledTimeArrives, Calm, offerVars
<1>2. CASE DeadlinePasses(b)
  <2>1. Calm
    BY <1>2 DEF TypeOK, Row, DeadlinePasses, Calm
  <2> QED BY <1>2, <2>1, CalmStep DEF DeadlinePasses, offerVars
<1>3. CASE KillSwitch(b)
  BY <1>3, CalmStep DEF KillSwitch, Calm, offerVars
<1> QED BY <1>1, <1>2, <1>3 DEF Environment, WorkerDies, Timely

\* The TTL only drops locks that no live or closing offer owns.
LEMMA ExpiryLocks ==
    ASSUME TypeOK, OfferLockInv, Timely, NEW d \in Drivers, OfferLockExpires(d)
    PROVE  OfferLockInv'
<1> DEFINE b == offerLock[d]
<1>1. b \in Bookings
  BY DEF TypeOK, OfferLockExpires
<1>2. ~IsOffered(b, d) /\ <<b, d>> \notin assigning \cup releasing
  BY <1>1, OfferLockParts DEF OfferLockExpires, Timely, Held
<1> QED BY <1>1, <1>2, UnlockStep DEF OfferLockExpires

\* OfferLockInv is inductive while timeouts are timely.
LEMMA LockStep ==
    ASSUME Timely
    PROVE  TypeOK /\ WaveInv /\ OfferLockInv /\ [Next]_vars => OfferLockInv'
<1> SUFFICES ASSUME TypeOK, WaveInv, OfferLockInv, [Next]_vars PROVE OfferLockInv'
  OBVIOUS
<1>1. CASE UNCHANGED vars
  BY <1>1, CalmStep DEF vars, Calm, offerVars
<1> QED BY <1>1, LockOffers, OfferStepLocks, RequestLocks, ContinuationLocks,
           EnvironmentLocks, ExpiryLocks DEF Next

\* While offer timeouts are enqueued and run within the lock's grace, a live
\* offer owns its driver's lock until its own DEL: the unconditional
\* releaseOfferLock never deletes the lock of another search's offer.
THEOREM OfferLockIsOwned ==
    ASSUME Timely
    PROVE  Spec => []OfferLockInv
BY TypeInit, TypeStep, OfferLockInit, LockStep, PTL DEF Spec

\* As long as offer-timeout jobs are enqueued and run within the lock's grace
\* (and nobody offers beside the waves), takeOfferLock, the conditional resolve
\* and the unconditional DEL together never leave a driver with two live
\* offers: OfferLockInv is inductive and implies it.
THEOREM OneOfferAtATime ==
    ASSUME Timely
    PROVE  Spec => []OneLiveOfferPerDriver
<1>1. OfferLockInv => OneLiveOfferPerDriver
  BY OfferLockParts DEF OneLiveOfferPerDriver, Held
<1> QED BY <1>1, OfferLockIsOwned, PTL

------------------------------------------------------------------------------
(* Every step is a step of the lifecycle *)

\* The status and the driver of every booking stay as they are.
RowsKept == \A c \in Bookings : /\ booking'[c].status = booking[c].status
                                /\ booking'[c].driver = booking[c].driver

\* One booking leaves its driver, or moves along with him.
Leaves(b) == \E to \in {"searching", "no_drivers_found", "cancelled", "completed"}, p \in Row :
                Transition(b, to, p)
Advances(b) == \E to \in {"en_route", "arrived", "in_progress"} :
                  booking[b].status \in ActiveJobStatuses /\ Transition(b, to, booking[b])

\* What a step may do to the bookings' rows: five handlers move a status, and
\* setWaveState never does.
LEMMA RowFrame ==
    ASSUME TypeOK, [Next]_vars
    PROVE  \/ RowsKept
           \/ \E b \in Bookings, d \in Drivers : Accept(b, d)
           \/ \E b \in Bookings : Leaves(b) \/ Advances(b)
<1>0. ASSUME UNCHANGED booking PROVE RowsKept
  BY <1>0 DEF RowsKept
<1>1. CASE UNCHANGED vars
  BY <1>0, <1>1 DEF vars
<1>2. ASSUME NEW d \in Drivers, OfferLockExpires(d) PROVE RowsKept
  BY <1>0, <1>2 DEF OfferLockExpires
<1>3. ASSUME NEW b \in Bookings, NEW d \in Drivers, OfferStep(b, d)
      PROVE  RowsKept \/ Accept(b, d)
  BY <1>0, <1>3 DEF OfferStep, AfterAssign, Reject, OfferTimesOut, FleetSuspended,
                    ReleaseOfferLock
<1>4. ASSUME NEW b \in Bookings, Environment(b) PROVE RowsKept
  <2>1. CASE DeadlinePasses(b)
    BY <2>1 DEF TypeOK, Row, DeadlinePasses, RowsKept
  <2> QED BY <1>0, <1>4, <2>1 DEF Environment, ScheduledTimeArrives, KillSwitch, WorkerDies
<1>5. ASSUME NEW b \in Bookings, NEW w, NEW dl, SetWaveState(b, w, dl) PROVE RowsKept
  BY <1>5 DEF TypeOK, SetWaveState, RowsKept
<1>6. ASSUME NEW b \in Bookings, Continuation(b) PROVE RowsKept
  BY <1>0, <1>5, <1>6 DEF Continuation, HandOver, Redispatch, AdminOfferToDriver, RunRevoke
<1>7. ASSUME NEW b \in Bookings, Wave(b) PROVE RowsKept \/ Leaves(b)
  <2>1. CASE WaveGivesUp(b)
    BY <1>0, <2>1 DEF TypeOK, WaveGivesUp, Leaves
  <2>2. CASE WaveSelects(b)
    BY <1>5, <2>2 DEF WaveSelects
  <2>3. ASSUME NEW j \in JobIds, StartWave(b, j) \/ WaveSkipped(b, j) \/ JobRedelivered(b, j)
        PROVE  RowsKept
    BY <1>0, <2>3 DEF StartWave, WaveSkipped, JobRedelivered
  <2>4. ASSUME NEW d \in Drivers, WaveOffers(b, d) \/ WaveOfferUntimed(b, d) PROVE RowsKept
    BY <1>0, <2>4 DEF WaveOffers, WaveOfferUntimed
  <2> QED BY <1>0, <1>7, <2>1, <2>2, <2>3, <2>4
          DEF Wave, WaveStops, WaveWaitsForSchedule, WaveHeld, WaveReschedules,
              WaveCannotReschedule, SearchLockExpires
<1>8. ASSUME NEW b \in Bookings, Request(b) PROVE RowsKept \/ Leaves(b) \/ Advances(b)
  <2>0. booking[b] \in Row
    BY DEF TypeOK
  <2>1. ASSUME NEW to \in JobStatus, Progress(b, to) PROVE Leaves(b) \/ Advances(b)
    BY <2>0, <2>1 DEF Progress, Leaves, Advances
  <2>2. Cleared(booking[b]) \in Row
    BY <2>0 DEF Cleared, Row
  <2>3. ASSUME NEW r, Unable(b, r) PROVE Leaves(b)
    BY <2>2, <2>3 DEF Unable, Leaves
  <2>4. ASSUME NEW w, Reassign(b, w) PROVE Leaves(b)
    BY <2>2, <2>4 DEF Reassign, Leaves
  <2>5. CASE Cancel(b) \/ OverrideToSearching(b)
    BY <2>0, <2>5 DEF Cancel, OverrideToSearching, Leaves
  <2>6. CASE RetrySearch(b)
    <3>1. [booking[b] EXCEPT !.wave = 0, !.deadline = "none"] \in Row
      <4>1. 0 \in 0 .. MaxWave + 1 /\ "none" \in {"none", "ahead", "past"}
        BY DispatchAssumption
      <4> QED BY <2>0, <4>1 DEF Row
    <3>2. Transition(b, "searching", [booking[b] EXCEPT !.wave = 0, !.deadline = "none"])
      BY <2>0, <2>6 DEF RetrySearch, Transition, Row
    <3> QED BY <3>1, <3>2 DEF Leaves
  <2>7. CASE ReassignRefused(b)
    BY <1>0, <2>7 DEF ReassignRefused
  <2> QED BY <1>8, <2>1, <2>3, <2>4, <2>5, <2>6, <2>7 DEF Request
<1> QED BY <1>1, <1>2, <1>3, <1>4, <1>6, <1>7, <1>8 DEF Next

\* The dispatch engine implements the lifecycle for any bookings and drivers,
\* under every fault of the model: a booking moves along the table only, goes
\* to a driver who has no other live job and only out of a search, and nobody
\* takes its place while he is on it.
THEOREM DispatchImplementsLifecycle == Spec => ImplementsLifecycle
<1>1. Init => Lifecycle!LInit
  BY DEF Init, Lifecycle!LInit, ActiveJobStatuses
<1>2. TypeOK /\ [Next]_vars => [Lifecycle!LNext]_(Lifecycle!lvars)
  <2> SUFFICES ASSUME TypeOK, [Next]_vars
               PROVE  Lifecycle!LNext \/ UNCHANGED Lifecycle!lvars
    OBVIOUS
  <2>1. CASE RowsKept
    BY <2>1 DEF RowsKept, Lifecycle!lvars
  <2>2. ASSUME NEW b \in Bookings, NEW d \in Drivers, Accept(b, d) PROVE Lifecycle!LNext
    <3>1. /\ booking[b].status = "searching"
          /\ booking'[b].status = "assigned" /\ booking'[b].driver = d
          /\ \A c \in Bookings \ {b} : booking'[c] = booking[c]
      BY <2>2 DEF TypeOK, Accept, Transition, Row
    <3>2. \A c \in Bookings : booking[c].status \in ActiveJobStatuses => booking[c].driver # d
      BY <2>2 DEF Accept, HoldsJob
    <3>3. Lifecycle!LAssign(b, d)
      BY <3>1, <3>2, DispatchAssumption DEF Lifecycle!LAssign, ActiveJobStatuses
    <3> QED BY <3>3 DEF Lifecycle!LNext
  <2>3. ASSUME NEW b \in Bookings, Leaves(b) PROVE Lifecycle!LNext
    <3>1. PICK to \in {"searching", "no_drivers_found", "cancelled", "completed"}, p \in Row :
            Transition(b, to, p)
      BY <2>3 DEF Leaves
    <3>2. /\ booking'[b].status = to /\ IsLegal(booking[b].status, to)
          /\ \A c \in Bookings \ {b} : booking'[c] = booking[c]
      BY <3>1 DEF TypeOK, Transition
    <3>3. Lifecycle!LLeave(b, to)
      BY <3>2 DEF Lifecycle!LLeave, ActiveJobStatuses, Lifecycle!ActiveJobStatuses,
                  IsLegal, Lifecycle!IsLegal, LegalTransitions, Lifecycle!LegalTransitions
    <3>4. to \in Lifecycle!JobStatus
      BY DEF Lifecycle!JobStatus
    <3> QED BY <3>3, <3>4 DEF Lifecycle!LNext
  <2>4. ASSUME NEW b \in Bookings, Advances(b) PROVE Lifecycle!LNext
    <3>1. PICK to \in {"en_route", "arrived", "in_progress"} :
            booking[b].status \in ActiveJobStatuses /\ Transition(b, to, booking[b])
      BY <2>4 DEF Advances
    <3>2. /\ booking'[b].status = to /\ booking'[b].driver = booking[b].driver
          /\ IsLegal(booking[b].status, to)
          /\ \A c \in Bookings \ {b} : booking'[c] = booking[c]
      BY <3>1 DEF TypeOK, Transition
    <3>3. Lifecycle!LProgress(b, to)
      BY <3>1, <3>2 DEF Lifecycle!LProgress, ActiveJobStatuses, Lifecycle!ActiveJobStatuses,
                        IsLegal, Lifecycle!IsLegal, LegalTransitions, Lifecycle!LegalTransitions
    <3>4. to \in Lifecycle!JobStatus
      BY DEF Lifecycle!JobStatus
    <3> QED BY <3>3, <3>4 DEF Lifecycle!LNext
  <2> QED BY <2>1, <2>2, <2>3, <2>4, RowFrame
<1> QED BY <1>1, <1>2, TypeCorrect, PTL DEF Spec, ImplementsLifecycle, Lifecycle!LSpec

------------------------------------------------------------------------------
(* Nobody is asked twice, and the holder accepted and stayed *)

\* What one booking knows of one driver: the drivers a wave still has to ask
\* were never asked, a live offer is the only thing recorded, the driver on
\* the row was asked, and the one on a live job accepted and stayed.
Asked(b, d) ==
    /\ d \in run[b].cands => attempts[b][d] = {}
    /\ IsOffered(b, d) => attempts[b][d] = {"offered"}
    /\ <<"offer-to", d>> \notin owed[b]
    /\ booking[b].driver = d =>
         /\ attempts[b][d] # {}
         /\ booking[b].status \in ActiveJobStatuses =>
                "accepted" \in attempts[b][d] /\ attempts[b][d] \cap {"unable", "reassigned"} = {}

AskedInv ==
    \A b \in Bookings :
        /\ \A d \in Drivers : Asked(b, d)
        /\ booking[b].status \in ActiveJobStatuses => booking[b].driver \in Drivers

\* A live offer is resolved, a candidate is asked, or nothing is recorded.
Turn(c, e) ==
    \/ attempts'[c][e] = attempts[c][e]
    \/ IsOffered(c, e) /\ \E o \in Outcome \ {"offered"} :
                               attempts'[c][e] = Resolve(attempts[c][e], o)
    \/ /\ e \in run[c].cands /\ e \notin run'[c].cands
       /\ attempts'[c][e] = attempts[c][e] \cup {"offered"}

\* A step that selects nobody, assigns nobody and takes no one's job.
Quiet ==
    \A c \in Bookings :
        /\ \A e \in Drivers :
             /\ Turn(c, e)
             /\ e \in run'[c].cands => e \in run[c].cands
             /\ <<"offer-to", e>> \in owed'[c] => <<"offer-to", e>> \in owed[c]
        /\ booking'[c].driver \in {NoDriver, booking[c].driver}
        /\ booking'[c].status \in ActiveJobStatuses =>
             booking[c].status \in ActiveJobStatuses /\ booking'[c].driver = booking[c].driver

\* No operator makes offers beside the waves.
NoOperator == ~AdminReassigns

LEMMA QuietStep ==
    ASSUME AskedInv, Quiet
    PROVE  AskedInv' /\ \A b \in Bookings, d \in Drivers :
                           ~IsOffered(b, d) /\ IsOffered(b, d)' => attempts[b][d] = {}
<1>1. ASSUME NEW b \in Bookings, NEW d \in Drivers
      PROVE  Asked(b, d)' /\ (~IsOffered(b, d) /\ IsOffered(b, d)' => attempts[b][d] = {})
  <2>1. /\ Asked(b, d) /\ Turn(b, d)
        /\ d \in run'[b].cands => d \in run[b].cands
        /\ <<"offer-to", d>> \in owed'[b] => <<"offer-to", d>> \in owed[b]
        /\ booking'[b].driver \in {NoDriver, booking[b].driver}
        /\ booking'[b].status \in ActiveJobStatuses =>
             booking[b].status \in ActiveJobStatuses /\ booking'[b].driver = booking[b].driver
    BY <1>1 DEF AskedInv, Quiet
  <2>2. d # NoDriver
    BY DispatchAssumption
  <2>3. CASE attempts'[b][d] = attempts[b][d]
    BY <2>1, <2>2, <2>3 DEF Asked, IsOffered
  <2>4. ASSUME IsOffered(b, d), NEW o \in Outcome \ {"offered"},
               attempts'[b][d] = Resolve(attempts[b][d], o)
        PROVE  Asked(b, d)' /\ ~IsOffered(b, d)'
    <3>1. attempts[b][d] = {"offered"} /\ attempts'[b][d] = {o}
      BY <2>1, <2>4 DEF Asked, Resolve
    <3> QED BY <2>1, <2>2, <2>4, <3>1 DEF Asked, IsOffered
  <2>5. CASE d \in run[b].cands /\ d \notin run'[b].cands
             /\ attempts'[b][d] = attempts[b][d] \cup {"offered"}
    <3>1. attempts[b][d] = {} /\ attempts'[b][d] = {"offered"}
      BY <2>1, <2>5 DEF Asked
    <3> QED BY <2>1, <2>2, <2>5, <3>1 DEF Asked, IsOffered
  <2> QED BY <2>1, <2>3, <2>4, <2>5 DEF Turn
<1>2. ASSUME NEW b \in Bookings, booking'[b].status \in ActiveJobStatuses
      PROVE  booking'[b].driver \in Drivers
  BY <1>2 DEF AskedInv, Quiet
<1> QED BY <1>1, <1>2 DEF AskedInv

\* Nothing is recorded and no row moves to a driver.
LEMMA QuietCalm ==
    ASSUME UNCHANGED attempts, Calm,
           \A c \in Bookings :
             /\ booking'[c].driver \in {NoDriver, booking[c].driver}
             /\ booking'[c].status \in ActiveJobStatuses =>
                  booking[c].status \in ActiveJobStatuses /\ booking'[c].driver = booking[c].driver
    PROVE  Quiet
BY DEF Quiet, Turn, Calm

LEMMA QuietRows ==
    ASSUME TypeOK, Calm, RowsKept, \A c \in Bookings, e \in Drivers : Turn(c, e)
    PROVE  Quiet
BY DEF Quiet, Calm, RowsKept

\* Revoking pending offers resolves them.
LEMMA QuietRevoke ==
    ASSUME TypeOK, NEW b \in Bookings, NEW ds \in SUBSET PendingOffers(b), RevokePending(b, ds)
    PROVE  \A c \in Bookings, e \in Drivers : Turn(c, e)
<1>1. ASSUME NEW e \in Drivers PROVE Turn(b, e)
  <2>1. attempts'[b][e] = IF e \in ds THEN Resolve(attempts[b][e], "revoked") ELSE attempts[b][e]
    BY DEF TypeOK, RevokePending
  <2> QED BY <2>1 DEF Turn, PendingOffers, Outcome
<1>2. ASSUME NEW c \in Bookings, c # b, NEW e \in Drivers PROVE Turn(c, e)
  BY <1>2 DEF TypeOK, RevokePending, Turn
<1> QED BY <1>1, <1>2

\* A candidate is asked: the wave that asked no longer has to.
LEMMA QuietOffer ==
    ASSUME TypeOK, NEW b \in Bookings, NEW d \in Drivers, LockAndRecord(b, d),
           d \in run[b].cands, d \notin run'[b].cands
    PROVE  \A c \in Bookings, e \in Drivers : Turn(c, e)
BY DEF TypeOK, LockAndRecord, Turn

LEMMA EndRunQuiet ==
    ASSUME TypeOK, NEW b \in Bookings, run' = [run EXCEPT ![b] = IdleRun]
    PROVE  /\ run'[b].cands = {}
           /\ \A c \in Bookings, e \in Drivers : e \in run'[c].cands => e \in run[c].cands
BY DEF TypeOK, IdleRun

LEMMA WaveQuiet ==
    ASSUME TypeOK, NEW b \in Bookings, Wave(b), ~WaveSelects(b)
    PROVE  Quiet
<1>0. ASSUME UNCHANGED <<attempts, booking, owed>>,
             \A c \in Bookings, e \in Drivers : e \in run'[c].cands => e \in run[c].cands
      PROVE  Quiet
  BY <1>0, QuietCalm DEF Calm
<1>1. ASSUME NEW j \in JobIds, StartWave(b, j) PROVE Quiet
  <2>1. \A c \in Bookings, e \in Drivers : e \in run'[c].cands => e \in run[c].cands
    BY <1>1 DEF TypeOK, StartWave
  <2> QED BY <1>0, <1>1, <2>1 DEF StartWave
<1>2. ASSUME NEW j \in JobIds, WaveSkipped(b, j) \/ JobRedelivered(b, j) PROVE Quiet
  BY <1>0, <1>2 DEF WaveSkipped, JobRedelivered
<1>3. CASE WaveStops(b)
  BY <1>0, <1>3, EndRunQuiet DEF WaveStops, EndRun
<1>4. CASE WaveWaitsForSchedule(b) \/ WaveReschedules(b)
  BY <1>0, <1>4, EndRunQuiet DEF WaveWaitsForSchedule, WaveReschedules, FinishInto, EndRun
<1>5. CASE WaveCannotReschedule(b)
  BY <1>0, <1>5, EndRunQuiet DEF WaveCannotReschedule, Throw, EndRun
<1>6. CASE SearchLockExpires(b)
  BY <1>0, <1>6 DEF SearchLockExpires
<1>7. CASE WaveHeld(b)
  <2>1. Calm
    BY <1>7, EndRunCalm DEF WaveHeld, FinishInto
  <2>2. RowsKept
    BY <1>7 DEF WaveHeld, RowsKept
  <2>3. RevokePending(b, PendingOffers(b))
    BY <1>7 DEF WaveHeld
  <2> QED BY <2>1, <2>2, <2>3, QuietRevoke, QuietRows
<1>8. CASE WaveGivesUp(b)
  <2>1. EndRun(b) /\ UNCHANGED <<attempts, owed>>
    BY <1>8 DEF WaveGivesUp, Throw
  <2>2. \A c \in Bookings :
          /\ booking'[c].driver = booking[c].driver
          /\ booking'[c].status \in ActiveJobStatuses => booking[c].status \in ActiveJobStatuses
    <3>1. CASE Transition(b, "no_drivers_found", booking[b])
      BY <3>1 DEF TypeOK, Transition, ActiveJobStatuses
    <3>2. CASE UNCHANGED booking
      BY <3>2
    <3> QED BY <1>8, <3>1, <3>2 DEF WaveGivesUp
  <2>3. Calm
    BY <2>1, <2>2, EndRunQuiet DEF Calm, EndRun
  <2> QED BY <2>1, <2>2, <2>3, QuietCalm
<1>9. ASSUME NEW d \in Drivers, WaveOffers(b, d) PROVE Quiet
  <2>1. /\ run'[b].cands = run[b].cands \ {d} /\ d \in run[b].cands
        /\ \A c \in Bookings \ {b} : run'[c] = run[c]
    BY <1>9 DEF TypeOK, WaveOffers, RunState
  <2>2. UNCHANGED <<booking, owed>>
    BY <1>9 DEF WaveOffers
  <2>3. Calm /\ RowsKept
    BY <2>1, <2>2 DEF Calm, RowsKept
  <2>4. CASE LockAndRecord(b, d)
    BY <2>1, <2>3, <2>4, QuietOffer, QuietRows
  <2>5. CASE UNCHANGED attempts
    BY <2>3, <2>5, QuietRows DEF Turn
  <2> QED BY <1>9, <2>4, <2>5 DEF WaveOffers, MakeOffer
<1>10. ASSUME NEW d \in Drivers, WaveOfferUntimed(b, d) PROVE Quiet
  <2>1. d \in run[b].cands /\ EndRun(b) /\ LockAndRecord(b, d) /\ UNCHANGED <<booking, owed>>
    BY <1>10 DEF WaveOfferUntimed, Throw
  <2>2. run'[b].cands = {} /\ Calm /\ RowsKept
    BY <2>1, EndRunQuiet, EndRunCalm DEF EndRun, RowsKept
  <2> QED BY <2>1, <2>2, QuietOffer, QuietRows
<1> QED BY <1>1, <1>2, <1>3, <1>4, <1>5, <1>6, <1>7, <1>8, <1>9, <1>10 DEF Wave

LEMMA OfferQuiet ==
    ASSUME TypeOK, NEW b \in Bookings, NEW d \in Drivers, OfferStep(b, d), ~Accept(b, d)
    PROVE  Quiet
<1>0. UNCHANGED <<booking, owed, run>>
  BY DEF OfferStep, AfterAssign, Reject, OfferTimesOut, FleetSuspended, ReleaseOfferLock
<1>1. Calm /\ RowsKept
  BY <1>0 DEF Calm, RowsKept
<1>2. ASSUME NEW o \in Outcome \ {"offered"}, Answer(b, d, o)
      PROVE  \A c \in Bookings, e \in Drivers : Turn(c, e)
  BY <1>2 DEF TypeOK, Answer, Turn
<1>3. ASSUME UNCHANGED attempts PROVE \A c \in Bookings, e \in Drivers : Turn(c, e)
  BY <1>3 DEF Turn
<1>4. CASE AfterAssign(b, d)
  <2> DEFINE losers == PendingOffers(b) \ {d}
  <2>1. ASSUME NEW e \in Drivers PROVE Turn(b, e)
    <3>1. attempts'[b][e] = IF e \in losers THEN Resolve(attempts[b][e], "revoked")
                            ELSE attempts[b][e]
      BY <1>4 DEF TypeOK, AfterAssign
    <3> QED BY <3>1 DEF Turn, PendingOffers, Outcome
  <2>2. ASSUME NEW c \in Bookings, c # b, NEW e \in Drivers PROVE Turn(c, e)
    BY <1>4, <2>2 DEF TypeOK, AfterAssign, Turn
  <2> QED BY <1>1, <2>1, <2>2, QuietRows
<1>5. CASE Reject(b, d)
  BY <1>1, <1>2, <1>5, QuietRows DEF Reject, Outcome
<1>6. CASE OfferTimesOut(b, d)
  BY <1>1, <1>2, <1>3, <1>6, QuietRows DEF OfferTimesOut, Outcome
<1>7. CASE FleetSuspended(b, d)
  <2>1. {d} \in SUBSET PendingOffers(b) /\ RevokePending(b, {d})
    BY <1>7 DEF FleetSuspended, PendingOffers
  <2> QED BY <1>1, <2>1, QuietRevoke, QuietRows
<1>8. CASE ReleaseOfferLock(b, d)
  BY <1>1, <1>3, <1>8, QuietRows DEF ReleaseOfferLock
<1> QED BY <1>4, <1>5, <1>6, <1>7, <1>8 DEF OfferStep

LEMMA RequestQuiet ==
    ASSUME NoOperator, TypeOK, NEW b \in Bookings, Request(b),
           \A r \in UnableReasons : ~Unable(b, r)
    PROVE  Quiet
<1>0. ASSUME UNCHANGED <<attempts, run>>,
             \A c \in Bookings, e \in Drivers :
                 <<"offer-to", e>> \in owed'[c] => <<"offer-to", e>> \in owed[c],
             \A c \in Bookings :
               /\ booking'[c].driver = booking[c].driver
               /\ booking'[c].status \in ActiveJobStatuses => booking[c].status \in ActiveJobStatuses
      PROVE  Quiet
  BY <1>0, QuietCalm DEF Calm
<1>1. ASSUME NEW to \in JobStatus, Progress(b, to) PROVE Quiet
  <2>1. \A c \in Bookings :
          /\ booking'[c].driver = booking[c].driver
          /\ booking'[c].status \in ActiveJobStatuses => booking[c].status \in ActiveJobStatuses
    BY <1>1 DEF TypeOK, Progress, Transition
  <2> QED BY <1>0, <1>1, <2>1 DEF Progress
<1>2. CASE Cancel(b)
  <2>1. \A c \in Bookings :
          /\ booking'[c].driver = booking[c].driver
          /\ booking'[c].status \in ActiveJobStatuses => booking[c].status \in ActiveJobStatuses
    BY <1>2 DEF TypeOK, Cancel, Transition, ActiveJobStatuses
  <2> QED BY <1>0, <1>2, <2>1 DEF Cancel
<1>3. ASSUME NEW work, Reopen(b, work), \A e \in Drivers : <<"offer-to", e>> \notin work
      PROVE  \A c \in Bookings, e \in Drivers :
                 <<"offer-to", e>> \in owed'[c] => <<"offer-to", e>> \in owed[c]
  BY <1>3 DEF TypeOK, Reopen
<1>4. CASE RetrySearch(b)
  <2>1. \A c \in Bookings :
          /\ booking'[c].driver = booking[c].driver
          /\ booking'[c].status \in ActiveJobStatuses => booking[c].status \in ActiveJobStatuses
    BY <1>4 DEF TypeOK, RetrySearch, Transition, ActiveJobStatuses
  <2>2. \A e \in Drivers : <<"offer-to", e>> \notin {<<"retry", reopened[b] + 1>>}
    OBVIOUS
  <2>3. Reopen(b, {<<"retry", reopened[b] + 1>>}) /\ UNCHANGED <<attempts, run>>
    BY <1>4 DEF RetrySearch
  <2> QED BY <1>0, <1>3, <2>1, <2>2, <2>3
<1>5. CASE OverrideToSearching(b)
  <2>1. \A c \in Bookings :
          /\ booking'[c].driver = booking[c].driver
          /\ booking'[c].status \in ActiveJobStatuses => booking[c].status \in ActiveJobStatuses
    BY <1>5 DEF TypeOK, OverrideToSearching, Transition, ActiveJobStatuses
  <2>2. Reopen(b, {}) /\ UNCHANGED <<attempts, run>>
    BY <1>5 DEF OverrideToSearching
  <2> QED BY <1>0, <1>3, <2>1, <2>2
<1> QED BY <1>1, <1>2, <1>4, <1>5 DEF Request, Reassign, ReassignRefused, NoOperator

LEMMA ContinuationQuiet ==
    ASSUME TypeOK, AskedInv, NEW b \in Bookings, Continuation(b)
    PROVE  Quiet
<1>1. ASSUME NEW w \in owed[b], HandOver(b, w) \/ Redispatch(b, w) PROVE Quiet
  <2>1. RowsKept
    <3>1. CASE SetWaveState(b, StoredWave(b), "ahead")
      BY <3>1 DEF TypeOK, SetWaveState, RowsKept
    <3>2. CASE UNCHANGED booking
      BY <3>2 DEF RowsKept
    <3> QED BY <1>1, <3>1, <3>2 DEF HandOver, Redispatch
  <2>2. UNCHANGED <<run, attempts>> /\ owed' = [owed EXCEPT ![b] = @ \ {w}]
    BY <1>1 DEF HandOver, Redispatch
  <2>3. Calm
    BY <2>1, <2>2 DEF TypeOK, RowsKept, Calm
  <2> QED BY <2>1, <2>2, <2>3, QuietRows DEF Turn
<1>2. ASSUME NEW d \in Drivers, AdminOfferToDriver(b, d) PROVE Quiet
  BY <1>2 DEF AdminOfferToDriver, AskedInv, Asked
<1>3. CASE RunRevoke(b)
  <2>1. Calm /\ RowsKept /\ RevokePending(b, PendingOffers(b))
    BY <1>3 DEF RunRevoke, Calm, RowsKept
  <2> QED BY <2>1, QuietRevoke, QuietRows
<1> QED BY <1>1, <1>2, <1>3 DEF Continuation

LEMMA EnvironmentQuiet ==
    ASSUME TypeOK,
           \/ \E b \in Bookings : Environment(b)
           \/ \E d \in Drivers : OfferLockExpires(d)
           \/ UNCHANGED vars
    PROVE  Quiet
<1>0. ASSUME UNCHANGED <<attempts, run, owed>>, RowsKept PROVE Quiet
  BY <1>0, QuietRows DEF Calm, RowsKept, Turn
<1>1. CASE UNCHANGED vars
  BY <1>0, <1>1 DEF vars, RowsKept
<1>2. ASSUME NEW d, OfferLockExpires(d) PROVE Quiet
  BY <1>0, <1>2 DEF OfferLockExpires, RowsKept
<1>3. ASSUME NEW b \in Bookings, ScheduledTimeArrives(b) \/ KillSwitch(b) PROVE Quiet
  BY <1>0, <1>3 DEF ScheduledTimeArrives, KillSwitch, RowsKept
<1>4. ASSUME NEW b \in Bookings, DeadlinePasses(b) PROVE Quiet
  <2>1. RowsKept
    BY <1>4 DEF TypeOK, Row, DeadlinePasses, RowsKept
  <2> QED BY <1>0, <1>4, <2>1 DEF DeadlinePasses
<1>5. ASSUME NEW b \in Bookings, WorkerDies(b) PROVE Quiet
  <2>1. run' = [run EXCEPT ![b] = IdleRun] /\ UNCHANGED <<booking, owed>>
    BY <1>5 DEF WorkerDies
  <2>2. Calm /\ RowsKept /\ run'[b].cands = {}
    BY <2>1, EndRunQuiet DEF Calm, RowsKept
  <2>3. CASE UNCHANGED attempts
    BY <2>2, <2>3, QuietRows DEF Turn
  <2>4. ASSUME NEW d \in run[b].cands, LockAndRecord(b, d) PROVE Quiet
    <3>1. d \in Drivers
      BY <2>4 DEF TypeOK, RunState
    <3> QED BY <2>2, <2>4, <3>1, QuietOffer, QuietRows
  <2> QED BY <1>5, <2>3, <2>4 DEF WorkerDies
<1> QED BY <1>1, <1>2, <1>3, <1>4, <1>5 DEF Environment

\* The accept, the hand-back and the selection.
LEMMA AskedMoves ==
    ASSUME TypeOK, AskedInv, NEW b \in Bookings,
           \/ \E d \in Drivers : Accept(b, d)
           \/ \E r \in UnableReasons : Unable(b, r)
           \/ WaveSelects(b)
    PROVE  AskedInv' /\ \A c \in Bookings, e \in Drivers : IsOffered(c, e)' => IsOffered(c, e)
<1>0. booking[b] \in Row /\ \A d \in Drivers : Asked(b, d)
  BY DEF TypeOK, AskedInv
<1>1. ASSUME \A c \in Bookings \ {b} :
               /\ booking'[c] = booking[c] /\ attempts'[c] = attempts[c]
               /\ run'[c] = run[c] /\ owed'[c] = owed[c],
             \A e \in Drivers : Asked(b, e)' /\ (IsOffered(b, e)' => IsOffered(b, e)),
             booking'[b].status \in ActiveJobStatuses => booking'[b].driver \in Drivers
      PROVE  AskedInv' /\ \A c \in Bookings, e \in Drivers : IsOffered(c, e)' => IsOffered(c, e)
  <2>1. ASSUME NEW c \in Bookings \ {b}, NEW e \in Drivers
        PROVE  Asked(c, e)' /\ (IsOffered(c, e)' => IsOffered(c, e))
    <3>1. Asked(c, e)
      BY <2>1 DEF AskedInv
    <3>2. /\ booking'[c] = booking[c] /\ attempts'[c] = attempts[c]
          /\ run'[c] = run[c] /\ owed'[c] = owed[c]
      BY <1>1, <2>1
    <3> QED BY <3>1, <3>2 DEF Asked, IsOffered
  <2>2. \A c \in Bookings \ {b} :
          booking'[c].status \in ActiveJobStatuses => booking'[c].driver \in Drivers
    BY <1>1 DEF AskedInv
  <2> QED BY <1>1, <2>1, <2>2 DEF AskedInv
<1>2. ASSUME NEW d \in Drivers, Accept(b, d)
      PROVE  AskedInv' /\ \A c \in Bookings, e \in Drivers : IsOffered(c, e)' => IsOffered(c, e)
  <2>1. /\ booking'[b].driver = d
        /\ \A c \in Bookings \ {b} : booking'[c] = booking[c] /\ attempts'[c] = attempts[c]
        /\ \A e \in Drivers \ {d} : attempts'[b][e] = attempts[b][e]
        /\ UNCHANGED <<run, owed>>
    BY <1>0, <1>2 DEF TypeOK, Accept, Transition, Row
  <2>2. attempts'[b][d] = {"accepted"}
    <3>1. attempts'[b][d] = Resolve(attempts[b][d], "accepted")
      BY <1>2 DEF TypeOK, Accept
    <3>2. attempts[b][d] = {"offered"}
      BY <1>0, <1>2 DEF Accept, Asked
    <3> QED BY <3>1, <3>2 DEF Resolve
  <2>3. d \notin run[b].cands
    BY <1>0, <1>2 DEF Accept, Asked, IsOffered
  <2>4. ASSUME NEW e \in Drivers
        PROVE  Asked(b, e)' /\ (IsOffered(b, e)' => IsOffered(b, e))
    BY <1>0, <2>1, <2>2, <2>3 DEF Asked, IsOffered
  <2> QED BY <1>1, <2>1, <2>4
<1>3. ASSUME NEW r \in UnableReasons, Unable(b, r)
      PROVE  AskedInv' /\ \A c \in Bookings, e \in Drivers : IsOffered(c, e)' => IsOffered(c, e)
  <2> DEFINE d == booking[b].driver
  <2>1. d \in Drivers /\ "accepted" \in attempts[b][d]
    BY <1>0, <1>3 DEF Unable, AskedInv, Asked
  <2>2. ~IsOffered(b, d)
    <3>1. IsOffered(b, d) => attempts[b][d] = {"offered"}
      BY <1>0, <2>1 DEF Asked
    <3> QED BY <2>1, <3>1
  <2>3. /\ booking'[b].driver = NoDriver /\ booking'[b].status = "searching"
        /\ \A c \in Bookings \ {b} : booking'[c] = booking[c]
    BY <1>0, <1>3 DEF TypeOK, Unable, Transition, Cleared, Row
  <2>4. /\ attempts'[b][d] = attempts[b][d] \cup {"unable"}
        /\ \A e \in Drivers \ {d} : attempts'[b][e] = attempts[b][e]
        /\ \A c \in Bookings \ {b} : attempts'[c] = attempts[c]
    BY <1>3, <2>1 DEF TypeOK, Unable
  <2>5. /\ \A c \in Bookings \ {b} : owed'[c] = owed[c]
        /\ owed'[b] = owed[b] \cup {<<"redispatch", r>>}
        /\ run' = run
    BY <1>3 DEF TypeOK, Unable, Reopen
  <2>6. d \notin run[b].cands
    BY <1>0, <2>1 DEF Asked
  <2> HIDE DEF d
  <2>7. ASSUME NEW e \in Drivers
        PROVE  Asked(b, e)' /\ (IsOffered(b, e)' => IsOffered(b, e))
    <3>1. e # NoDriver /\ <<"offer-to", e>> # <<"redispatch", r>>
      BY DispatchAssumption
    <3>2. Asked(b, e)
      BY <1>0
    <3>3. CASE e = d
      BY <2>2, <2>3, <2>4, <2>5, <2>6, <3>1, <3>2, <3>3 DEF Asked, IsOffered
    <3>4. CASE e # d
      BY <2>3, <2>4, <2>5, <3>1, <3>2, <3>4 DEF Asked, IsOffered
    <3> QED BY <3>3, <3>4
  <2> QED BY <1>1, <2>3, <2>4, <2>5, <2>7 DEF ActiveJobStatuses
<1>4. CASE WaveSelects(b)
  <2>1. PICK ds \in SUBSET Selectable(b) :
          /\ run'[b].cands = ds
          /\ \A c \in Bookings \ {b} : run'[c] = run[c]
    BY <1>4 DEF TypeOK, WaveSelects
  <2>2. UNCHANGED <<attempts, owed>> /\ RowsKept
        /\ \A c \in Bookings \ {b} : booking'[c] = booking[c]
    BY <1>4 DEF TypeOK, WaveSelects, SetWaveState, RowsKept
  <2>3. ASSUME NEW e \in Drivers
        PROVE  Asked(b, e)' /\ (IsOffered(b, e)' => IsOffered(b, e))
    BY <1>0, <2>1, <2>2 DEF Asked, IsOffered, Selectable, RowsKept
  <2>4. booking'[b].status \in ActiveJobStatuses => booking'[b].driver \in Drivers
    BY <2>2 DEF RowsKept, AskedInv
  <2> QED BY <1>1, <2>1, <2>2, <2>3, <2>4
<1> QED BY <1>2, <1>3, <1>4

LEMMA AskedStep ==
    ASSUME NoOperator, TypeOK, AskedInv, [Next]_vars
    PROVE  AskedInv' /\ \A b \in Bookings, d \in Drivers :
                           ~IsOffered(b, d) /\ IsOffered(b, d)' => attempts[b][d] = {}
<1> DEFINE Moves(b) == \/ \E d \in Drivers : Accept(b, d)
                       \/ \E r \in UnableReasons : Unable(b, r)
                       \/ WaveSelects(b)
<1>1. ASSUME NEW b \in Bookings, Moves(b)
      PROVE  AskedInv' /\ \A c \in Bookings, e \in Drivers : IsOffered(c, e)' => IsOffered(c, e)
  BY <1>1, AskedMoves
<1>2. SUFFICES Quiet \/ \E b \in Bookings : Moves(b)
  BY <1>1, <1>2, QuietStep
<1>3. ASSUME NEW b \in Bookings, Wave(b) PROVE Quiet \/ WaveSelects(b)
  BY <1>3, WaveQuiet
<1>4. ASSUME NEW b \in Bookings, Request(b)
      PROVE  Quiet \/ \E r \in UnableReasons : Unable(b, r)
  BY <1>4, RequestQuiet
<1>5. ASSUME NEW b \in Bookings, NEW d \in Drivers, OfferStep(b, d) PROVE Quiet \/ Accept(b, d)
  BY <1>5, OfferQuiet
<1>6. ASSUME NEW b \in Bookings, Continuation(b) PROVE Quiet
  BY <1>6, ContinuationQuiet
<1>7. ASSUME NEW b \in Bookings, Environment(b) PROVE Quiet
  BY <1>7, EnvironmentQuiet
<1>8. CASE UNCHANGED vars \/ \E d \in Drivers : OfferLockExpires(d)
  BY <1>8, EnvironmentQuiet
<1>9. CASE \E b \in Bookings : Wave(b) \/ Request(b) \/ Continuation(b) \/ Environment(b)
  BY <1>3, <1>4, <1>6, <1>7, <1>9
<1>10. CASE \E b \in Bookings, d \in Drivers : OfferStep(b, d)
  BY <1>5, <1>10
<1> QED BY <1>8, <1>9, <1>10 DEF Next

LEMMA AskedInit == Init => AskedInv
BY DispatchAssumption
   DEF Init, AskedInv, Asked, IsOffered, IdleRun, ActiveJobStatuses

\* While no operator offers beside the waves, a driver who was asked about a
\* booking is never asked again, whatever they answered, however long a wave
\* was in flight, and whichever tasks died, queues failed or locks ran out.
THEOREM NobodyIsAskedTwice ==
    ASSUME NoOperator PROVE Spec => NeverAskedTwice
<1>1. TypeOK /\ AskedInv /\ [Next]_vars => AskedInv'
  BY AskedStep
<1>2. TypeOK /\ AskedInv /\ [Next]_vars =>
        [\A b \in Bookings, d \in Drivers :
           ~IsOffered(b, d) /\ IsOffered(b, d)' => attempts[b][d] = {}]_vars
  BY AskedStep
<1> QED BY <1>1, <1>2, AskedInit, TypeCorrect, PTL DEF Spec, NeverAskedTwice

\* And the driver on a live job accepted it and neither handed it back nor was
\* taken off it since, under the same faults (accept, unable).
THEOREM HolderStayed ==
    ASSUME NoOperator PROVE Spec => []HolderAcceptedAndStayed
<1>1. TypeOK /\ AskedInv /\ [Next]_vars => AskedInv'
  BY AskedStep
<1>2. AskedInv => HolderAcceptedAndStayed
  BY DEF AskedInv, Asked, HolderAcceptedAndStayed
<1> QED BY <1>1, <1>2, AskedInit, TypeCorrect, PTL DEF Spec

------------------------------------------------------------------------------
(* A search is stranded only through a recorded loss *)

\* SearchPendingUnlessLost for one booking, and what makes it inductive: a lock
\* left by a killed task guards a job that BullMQ will deliver again.
SearchOK(b) ==
    /\ booking[b].status = "searching" /\ ~lost[b] => SearchPending(b)
    /\ DeadLock(b) => \E j \in JobIds : jobs[b][j].st = "stalled"

SearchInv == \A b \in Bookings : SearchOK(b)

\* What SearchOK reads of a booking does not move.
SearchSame(c) ==
    /\ booking'[c].status = booking[c].status /\ lost'[c] = lost[c]
    /\ jobs'[c] = jobs[c] /\ run'[c] = run[c] /\ owed'[c] = owed[c]
    /\ c \in searchLock' <=> c \in searchLock

LEMMA SearchKept ==
    ASSUME NEW c \in Bookings, SearchOK(c), SearchSame(c)
    PROVE  SearchOK(c)'
BY DEF SearchOK, SearchSame, SearchPending, DeadLock

\* Every handler moves one booking.
LEMMA SearchOne ==
    ASSUME SearchInv, NEW b \in Bookings, SearchOK(b)',
           \A c \in Bookings \ {b} : SearchSame(c)
    PROVE  SearchInv'
BY SearchKept DEF SearchInv

\* A wave that ends gives up its lock; its own job was active till then.
LEMMA EndRunSearch ==
    ASSUME TypeOK, WaveInv, NEW b \in Bookings, EndRun(b)
    PROVE  /\ ~DeadLock(b)' /\ \A c \in Bookings \ {b} : run'[c] = run[c]
           /\ \A c \in Bookings \ {b} : c \in searchLock' <=> c \in searchLock
BY DEF TypeOK, EndRun, DeadLock

\* A successor waits, or its loss is recorded.
LEMMA FinishSearch ==
    ASSUME TypeOK, WaveInv, NEW b \in Bookings, NEW j \in JobIds,
           run[b].pc # "idle", FinishInto(b, j)
    PROVE  /\ SearchOK(b)'
           /\ \A c \in Bookings \ {b} : /\ jobs'[c] = jobs[c] /\ lost'[c] = lost[c]
                                        /\ run'[c] = run[c] /\ (c \in searchLock' <=> c \in searchLock)
<1>1. /\ run[b].job \in JobIds /\ jobs[b] \in [JobIds -> JobState]
      /\ jobs[b][run[b].job].st = "active"
  BY DEF TypeOK, WaveInv, WaveOK
<1>2. EndRun(b)
  BY DEF FinishInto
<1>3. /\ jobs'[b] = [Add(jobs[b], j) EXCEPT ![run[b].job] = Completed]
      /\ \A c \in Bookings \ {b} : jobs'[c] = jobs[c] /\ lost'[c] = lost[c]
      /\ lost'[b] = (lost[b] \/ Refused(jobs[b], j))
  BY DEF TypeOK, FinishInto
<1>4. CASE Refused(jobs[b], j)
  BY <1>2, <1>3, <1>4, EndRunSearch DEF SearchOK
<1>5. CASE ~Refused(jobs[b], j)
  <2>1. jobs[b][j] = Unknown /\ j # run[b].job
    BY <1>1, <1>5 DEF Refused, Unknown
  <2>2. jobs'[b][j] = Waiting(Attempts(j))
    BY <1>1, <1>3, <2>1 DEF Add
  <2>3. jobs'[b][j].st = "waiting"
    BY <2>2 DEF Waiting
  <2> QED BY <1>2, <1>3, <2>3, EndRunSearch DEF SearchOK, SearchPending
<1> QED BY <1>4, <1>5

\* A wave that throws will be retried, or its loss is recorded.
LEMMA ThrowSearch ==
    ASSUME TypeOK, WaveInv, NEW b \in Bookings, run[b].pc # "idle", Throw(b)
    PROVE  /\ SearchOK(b)'
           /\ \A c \in Bookings \ {b} : /\ jobs'[c] = jobs[c] /\ lost'[c] = lost[c]
                                        /\ run'[c] = run[c] /\ (c \in searchLock' <=> c \in searchLock)
<1> DEFINE left == jobs[b][run[b].job].left - 1
<1>1. run[b].job \in JobIds /\ jobs[b] \in [JobIds -> JobState]
  BY DEF TypeOK, WaveInv, WaveOK
<1>2. EndRun(b)
  BY DEF Throw
<1>3. /\ jobs'[b][run[b].job] = (IF left = 0 THEN Failed ELSE Waiting(left))
      /\ \A c \in Bookings \ {b} : jobs'[c] = jobs[c] /\ lost'[c] = lost[c]
      /\ lost'[b] = (lost[b] \/ left = 0)
  BY <1>1 DEF TypeOK, Throw
<1> HIDE DEF left
<1>4. CASE left = 0
  <2>1. lost'[b] = TRUE
    BY <1>3, <1>4
  <2> QED BY <1>2, <1>3, <2>1, EndRunSearch DEF SearchOK
<1>5. CASE left # 0
  <2>1. jobs'[b][run[b].job].st = "waiting"
    BY <1>3, <1>5 DEF Waiting
  <2> QED BY <1>1, <1>2, <1>3, <2>1, EndRunSearch DEF SearchOK, SearchPending
<1> QED BY <1>4, <1>5

\* An enqueue leaves a waiting job, or a recorded loss, and disturbs no job.
LEMMA EnqueueSearch ==
    ASSUME TypeOK, NEW b \in Bookings, NEW j \in JobIds, Enqueue(b, j)
    PROVE  /\ lost'[b] \/ jobs'[b][j].st = "waiting"
           /\ \A i \in JobIds : jobs[b][i].st = "stalled" => jobs'[b][i].st = "stalled"
           /\ \A c \in Bookings \ {b} : jobs'[c] = jobs[c] /\ lost'[c] = lost[c]
<1>1. jobs[b] \in [JobIds -> JobState]
  BY DEF TypeOK
<1>2. CASE /\ jobs' = [jobs EXCEPT ![b] = Add(@, j)]
           /\ lost' = [lost EXCEPT ![b] = @ \/ Refused(jobs[b], j)]
  <2>1. jobs'[b] = Add(jobs[b], j) /\ lost'[b] = (lost[b] \/ Refused(jobs[b], j))
        /\ \A c \in Bookings \ {b} : jobs'[c] = jobs[c] /\ lost'[c] = lost[c]
    BY <1>2 DEF TypeOK
  <2>2. \A i \in JobIds : jobs[b][i].st = "stalled" => jobs'[b][i].st = "stalled"
    <3>1. \A i \in JobIds : Add(jobs[b], j)[i] = jobs[b][i] \/ jobs[b][i] = Unknown
      BY <1>1, AddFacts
    <3>2. Unknown.st = "none"
      BY DEF Unknown
    <3> QED BY <2>1, <3>1, <3>2
  <2>3. ~Refused(jobs[b], j) => jobs'[b][j].st = "waiting"
    BY <1>1, <2>1 DEF Refused, Add, Waiting
  <2> QED BY <2>1, <2>2, <2>3
<1>3. CASE lost' = [lost EXCEPT ![b] = TRUE] /\ UNCHANGED jobs
  BY <1>3 DEF TypeOK
<1> QED BY <1>2, <1>3 DEF Enqueue

LEMMA WaveSearch ==
    ASSUME TypeOK, WaveInv, SearchInv, NEW b \in Bookings, Wave(b)
    PROVE  SearchInv'
<1>0. SearchOK(b) /\ jobs[b] \in [JobIds -> JobState] /\ run[b] \in RunState
  BY DEF SearchInv, TypeOK
<1>1. ASSUME NEW j \in JobIds, StartWave(b, j) PROVE SearchInv'
  <2>1. \A c \in Bookings \ {b} : SearchSame(c)
    BY <1>1 DEF TypeOK, StartWave, SearchSame
  <2>2. /\ run'[b].pc = IF booking[b].status = "searching" THEN "read" ELSE "stop"
        /\ booking' = booking
    BY <1>1 DEF TypeOK, StartWave
  <2> QED BY <2>1, <2>2, SearchOne DEF SearchOK, SearchPending, DeadLock
<1>2. ASSUME NEW j \in JobIds, WaveSkipped(b, j) PROVE SearchInv'
  <2>1. \A c \in Bookings \ {b} : SearchSame(c)
    BY <1>2 DEF TypeOK, WaveSkipped, SearchSame
  <2>2. /\ jobs'[b] = [jobs[b] EXCEPT ![j] = Completed] /\ jobs[b][j].st = "waiting"
        /\ lost'[b] = (lost[b] \/ run[b].pc = "stop") /\ b \in searchLock
        /\ UNCHANGED <<booking, run, owed, searchLock>>
    BY <1>2 DEF TypeOK, WaveSkipped
  <2>3. \A i \in JobIds : jobs[b][i].st = "stalled" => jobs'[b][i].st = "stalled"
    BY <1>0, <2>2
  <2>4. run[b].pc \in {"idle", "stop", "read", "offering"}
    BY <1>0 DEF RunState
  <2>5. SearchOK(b)'
    BY <1>0, <2>2, <2>3, <2>4 DEF SearchOK, SearchPending, DeadLock
  <2> QED BY <2>1, <2>5, SearchOne
<1>3. ASSUME NEW j \in JobIds, JobRedelivered(b, j) PROVE SearchInv'
  <2>1. \A c \in Bookings \ {b} : SearchSame(c)
    BY <1>3 DEF TypeOK, JobRedelivered, SearchSame
  <2>2. jobs'[b][j].st = "waiting" /\ ~DeadLock(b) /\ UNCHANGED <<run, searchLock>>
    BY <1>0, <1>3 DEF TypeOK, JobRedelivered, Waiting
  <2>3. SearchOK(b)'
    BY <2>2 DEF SearchOK, SearchPending, DeadLock
  <2> QED BY <2>1, <2>3, SearchOne
<1>4. CASE WaveStops(b)
  <2>1. run[b].job \in JobIds /\ jobs[b][run[b].job].st = "active" /\ run[b].pc = "stop"
    BY <1>4 DEF WaveStops, WaveInv, WaveOK
  <2>2. /\ jobs'[b] = [jobs[b] EXCEPT ![run[b].job] = Completed]
        /\ \A c \in Bookings \ {b} : jobs'[c] = jobs[c]
        /\ EndRun(b) /\ UNCHANGED <<booking, owed, lost>>
    BY <1>4 DEF TypeOK, WaveStops
  <2>3. \A i \in JobIds : jobs[b][i].st \in {"waiting", "stalled"} => jobs'[b][i] = jobs[b][i]
    BY <1>0, <2>1, <2>2
  <2>4. SearchOK(b)'
    BY <1>0, <2>1, <2>2, <2>3, EndRunSearch DEF SearchOK, SearchPending
  <2>5. \A c \in Bookings \ {b} : SearchSame(c)
    BY <2>2, EndRunSearch DEF SearchSame
  <2> QED BY <2>4, <2>5, SearchOne
<1>5. ASSUME NEW j \in JobIds, run[b].pc # "idle", FinishInto(b, j), UNCHANGED <<booking, owed>>
      PROVE  SearchInv'
  <2>1. \A c \in Bookings \ {b} : SearchSame(c)
    BY <1>5, FinishSearch DEF SearchSame
  <2> QED BY <1>5, <2>1, FinishSearch, SearchOne
<1>6. ASSUME run[b].pc # "idle", Throw(b), UNCHANGED <<booking, owed>> PROVE SearchInv'
  <2>1. \A c \in Bookings \ {b} : SearchSame(c)
    BY <1>6, ThrowSearch DEF SearchSame
  <2> QED BY <1>6, <2>1, ThrowSearch, SearchOne
<1>7. CASE WaveWaitsForSchedule(b)
  BY <1>5, <1>7, JobIdFacts DEF WaveWaitsForSchedule
<1>8. CASE WaveHeld(b)
  BY <1>5, <1>8, JobIdFacts DEF WaveHeld
<1>9. CASE WaveReschedules(b)
  <2>1. <<"wave", run[b].wave>> \in JobIds
    BY <1>9, JobIdFacts DEF WaveReschedules, WaveInv, WaveOK
  <2> QED BY <1>5, <1>9, <2>1 DEF WaveReschedules
<1>10. CASE WaveCannotReschedule(b)
  BY <1>6, <1>10 DEF WaveCannotReschedule
<1>11. ASSUME NEW d \in Drivers, WaveOfferUntimed(b, d) PROVE SearchInv'
  BY <1>6, <1>11 DEF WaveOfferUntimed
<1>12. CASE WaveGivesUp(b)
  <2>1. CASE Throw(b) /\ UNCHANGED booking
    BY <1>6, <1>12, <2>1 DEF WaveGivesUp
  <2>2. CASE /\ Transition(b, "no_drivers_found", booking[b])
             /\ jobs' = [jobs EXCEPT ![b][run[b].job] = Completed]
             /\ EndRun(b) /\ UNCHANGED lost
    <3>1. booking'[b].status = "no_drivers_found"
          /\ \A c \in Bookings \ {b} : booking'[c] = booking[c] /\ jobs'[c] = jobs[c]
      BY <2>2 DEF TypeOK, Transition
    <3>2. \A c \in Bookings \ {b} : SearchSame(c)
      BY <1>12, <2>2, <3>1, EndRunSearch DEF SearchSame, WaveGivesUp
    <3>3. SearchOK(b)'
      BY <2>2, <3>1, EndRunSearch DEF SearchOK
    <3> QED BY <3>2, <3>3, SearchOne
  <2> QED BY <1>12, <2>1, <2>2 DEF WaveGivesUp
<1>13. CASE WaveSelects(b)
  <2>1. run'[b].pc = "offering" /\ \A c \in Bookings \ {b} : run'[c] = run[c]
    BY <1>13 DEF TypeOK, WaveSelects
  <2>2. \A c \in Bookings \ {b} : booking'[c] = booking[c]
    BY <1>13 DEF TypeOK, WaveSelects, SetWaveState
  <2>3. \A c \in Bookings \ {b} : SearchSame(c)
    BY <1>13, <2>1, <2>2 DEF WaveSelects, SearchSame
  <2>4. SearchOK(b)'
    BY <2>1 DEF SearchOK, SearchPending, DeadLock
  <2> QED BY <2>3, <2>4, SearchOne
<1>14. ASSUME NEW d \in Drivers, WaveOffers(b, d) PROVE SearchInv'
  <2>1. run'[b].pc = "offering" /\ \A c \in Bookings \ {b} : run'[c] = run[c]
    BY <1>14 DEF TypeOK, WaveOffers, RunState
  <2>2. \A c \in Bookings \ {b} : SearchSame(c)
    BY <1>14, <2>1 DEF WaveOffers, SearchSame
  <2>3. SearchOK(b)'
    BY <2>1 DEF SearchOK, SearchPending, DeadLock
  <2> QED BY <2>2, <2>3, SearchOne
<1>15. CASE SearchLockExpires(b)
  <2>1. \A c \in Bookings \ {b} : SearchSame(c)
    BY <1>15 DEF TypeOK, SearchLockExpires, SearchSame
  <2>2. SearchOK(b)'
    BY <1>0, <1>15 DEF SearchLockExpires, SearchOK, SearchPending, DeadLock
  <2> QED BY <2>1, <2>2, SearchOne
<1> QED BY <1>1, <1>2, <1>3, <1>4, <1>7, <1>8, <1>9, <1>10, <1>11, <1>12, <1>13, <1>14, <1>15
        DEF Wave

\* Whoever reopens a search owes it a job, or has recorded that nobody does.
LEMMA RequestSearch ==
    ASSUME TypeOK, SearchInv, NEW b \in Bookings, Request(b)
    PROVE  SearchInv'
<1>0. SearchOK(b)
  BY DEF SearchInv
<1>1. ASSUME NEW to \in JobStatus, NEW patch, to # "searching", Transition(b, to, patch),
             UNCHANGED <<lost, jobs, run, searchLock, owed>>
      PROVE  SearchInv'
  <2>1. /\ booking'[b].status = to
        /\ \A c \in Bookings \ {b} : booking'[c] = booking[c]
    BY <1>1 DEF TypeOK, Transition
  <2>2. \A c \in Bookings \ {b} : SearchSame(c)
    BY <1>1, <2>1 DEF SearchSame
  <2>3. SearchOK(b)'
    BY <1>0, <1>1, <2>1 DEF SearchOK, DeadLock
  <2> QED BY <2>2, <2>3, SearchOne
<1>2. ASSUME NEW patch, NEW work, Transition(b, "searching", patch), Reopen(b, work),
             (work # {} /\ UNCHANGED lost) \/ lost' = [lost EXCEPT ![b] = TRUE],
             UNCHANGED <<jobs, run, searchLock>>
      PROVE  SearchInv'
  <2>1. \A c \in Bookings \ {b} : booking'[c] = booking[c]
    BY <1>2 DEF TypeOK, Transition
  <2>2. owed'[b] = owed[b] \cup work /\ \A c \in Bookings \ {b} : owed'[c] = owed[c]
    BY <1>2 DEF TypeOK, Reopen
  <2>3. (work # {} \/ lost'[b] = TRUE) /\ \A c \in Bookings \ {b} : lost'[c] = lost[c]
    BY <1>2 DEF TypeOK
  <2>4. \A c \in Bookings \ {b} : SearchSame(c)
    BY <1>2, <2>1, <2>2, <2>3 DEF SearchSame
  <2>5. owed'[b] # {} \/ lost'[b] = TRUE
    BY <2>2, <2>3
  <2>6. DeadLock(b)' => \E j \in JobIds : jobs'[b][j].st = "stalled"
    BY <1>0, <1>2 DEF SearchOK, DeadLock
  <2>7. SearchOK(b)'
    BY <2>5, <2>6 DEF SearchOK, SearchPending
  <2> QED BY <2>4, <2>7, SearchOne
<1>3. ASSUME NEW to \in JobStatus, Progress(b, to) PROVE SearchInv'
  BY <1>1, <1>3 DEF Progress
<1>4. CASE Cancel(b)
  <2>1. "cancelled" \in JobStatus /\ "cancelled" # "searching"
    BY DEF JobStatus
  <2> QED BY <1>1, <1>4, <2>1 DEF Cancel
<1>5. ASSUME NEW r \in UnableReasons, Unable(b, r) PROVE SearchInv'
  BY <1>2, <1>5 DEF Unable
<1>6. ASSUME NEW w, Reassign(b, w) PROVE SearchInv'
  BY <1>2, <1>6 DEF Reassign
<1>7. CASE ReassignRefused(b)
  BY <1>7, SearchKept DEF ReassignRefused, SearchInv, SearchSame
<1>8. CASE RetrySearch(b)
  BY <1>2, <1>8 DEF RetrySearch
<1>9. CASE OverrideToSearching(b)
  BY <1>2, <1>9 DEF OverrideToSearching
<1> QED BY <1>3, <1>4, <1>5, <1>6, <1>7, <1>8, <1>9 DEF Request

\* Work is owed until its job is in the queue, or the loss is recorded.
LEMMA ContinuationSearch ==
    ASSUME TypeOK, SearchInv, NEW b \in Bookings, Continuation(b)
    PROVE  SearchInv'
<1>0. SearchOK(b)
  BY DEF SearchInv
<1>1. ASSUME NEW j \in JobIds, Enqueue(b, j), UNCHANGED <<run, searchLock>>,
             NEW w, owed' = [owed EXCEPT ![b] = @ \ {w}],
             \A c \in Bookings : booking'[c].status = booking[c].status
      PROVE  SearchInv'
  <2>1. \A c \in Bookings \ {b} : owed'[c] = owed[c]
    BY <1>1 DEF TypeOK
  <2>2. \A c \in Bookings \ {b} : SearchSame(c)
    BY <1>1, <2>1, EnqueueSearch DEF SearchSame
  <2>3. lost'[b] \/ SearchPending(b)'
    BY <1>1, EnqueueSearch DEF SearchPending
  <2>4. DeadLock(b)' => \E i \in JobIds : jobs'[b][i].st = "stalled"
    BY <1>0, <1>1, EnqueueSearch DEF SearchOK, DeadLock
  <2>5. SearchOK(b)'
    BY <2>3, <2>4 DEF SearchOK
  <2> QED BY <2>2, <2>5, SearchOne
<1>2. ASSUME booking[b].status # "searching" \/ lost'[b] = TRUE,
             NEW w, owed' = [owed EXCEPT ![b] = @ \ {w}],
             \A c \in Bookings \ {b} : lost'[c] = lost[c],
             UNCHANGED <<booking, jobs, run, searchLock>>
      PROVE  SearchInv'
  <2>1. \A c \in Bookings \ {b} : owed'[c] = owed[c]
    BY <1>2 DEF TypeOK
  <2>2. \A c \in Bookings \ {b} : SearchSame(c)
    BY <1>2, <2>1 DEF SearchSame
  <2>3. SearchOK(b)'
    BY <1>0, <1>2 DEF SearchOK, DeadLock
  <2> QED BY <2>2, <2>3, SearchOne
<1>3. ASSUME NEW w \in owed[b], HandOver(b, w) PROVE SearchInv'
  <2>1. w \in JobIds
    BY <1>3 DEF HandOver, TypeOK, Work
  <2> QED BY <1>1, <1>3, <2>1 DEF HandOver
<1>4. ASSUME NEW w \in owed[b], Redispatch(b, w) PROVE SearchInv'
  <2>1. w \in JobIds
    BY <1>4 DEF Redispatch, TypeOK, Work
  <2>2. CASE /\ booking[b].status = "searching"
             /\ SetWaveState(b, StoredWave(b), "ahead")
             /\ Enqueue(b, w)
    <3>1. \A c \in Bookings : booking'[c].status = booking[c].status
      BY <2>2 DEF TypeOK, SetWaveState
    <3> QED BY <1>1, <1>4, <2>1, <2>2, <3>1 DEF Redispatch
  <2>3. CASE booking[b].status # "searching" /\ UNCHANGED <<booking, jobs, lost>>
    BY <1>2, <1>4, <2>3 DEF Redispatch
  <2> QED BY <1>4, <2>2, <2>3 DEF Redispatch
<1>5. ASSUME NEW d \in Drivers, AdminOfferToDriver(b, d) PROVE SearchInv'
  <2>1. CASE Enqueue(b, <<"admin-offer", 0>>)
    BY <1>1, <1>5, <2>1, JobIdFacts DEF AdminOfferToDriver
  <2>2. CASE lost' = [lost EXCEPT ![b] = TRUE] /\ UNCHANGED jobs
    <3>1. lost'[b] = TRUE /\ \A c \in Bookings \ {b} : lost'[c] = lost[c]
      BY <2>2 DEF TypeOK
    <3> QED BY <1>2, <1>5, <2>2, <3>1 DEF AdminOfferToDriver
  <2>3. CASE /\ lost' = [lost EXCEPT ![b] = @ \/ booking[b].status = "searching"]
             /\ UNCHANGED jobs
    <3>1. booking[b].status = "searching" => lost'[b] = TRUE
      BY <2>3 DEF TypeOK
    <3>2. \A c \in Bookings \ {b} : lost'[c] = lost[c]
      BY <2>3 DEF TypeOK
    <3> QED BY <1>2, <1>5, <2>3, <3>1, <3>2 DEF AdminOfferToDriver
  <2> QED BY <1>5, <2>1, <2>2, <2>3 DEF AdminOfferToDriver
<1>6. CASE RunRevoke(b)
  BY <1>6, SearchKept DEF RunRevoke, SearchInv, SearchSame
<1> QED BY <1>3, <1>4, <1>5, <1>6 DEF Continuation

\* A driver's answer ends an offer, not a search, unless it takes the job.
LEMMA OfferSearch ==
    ASSUME TypeOK, SearchInv, NEW b \in Bookings, NEW d \in Drivers, OfferStep(b, d)
    PROVE  SearchInv'
<1>1. CASE Accept(b, d)
  <2>1. /\ booking'[b].status = "assigned"
        /\ \A c \in Bookings \ {b} : booking'[c] = booking[c]
    BY <1>1 DEF TypeOK, Accept, Transition
  <2>2. \A c \in Bookings \ {b} : SearchSame(c)
    BY <1>1, <2>1 DEF SearchSame, Accept
  <2>3. SearchOK(b)'
    BY <1>1, <2>1 DEF SearchInv, SearchOK, DeadLock, Accept
  <2> QED BY <2>2, <2>3, SearchOne
<1>2. ASSUME UNCHANGED <<booking, lost, jobs, run, owed, searchLock>> PROVE SearchInv'
  BY <1>2, SearchKept DEF SearchInv, SearchSame
<1> QED BY <1>1, <1>2 DEF OfferStep, AfterAssign, Reject, OfferTimesOut, FleetSuspended,
                          ReleaseOfferLock

\* A killed task leaves its job stalled under the lock it held.
LEMMA EnvironmentSearch ==
    ASSUME TypeOK, WaveInv, SearchInv, NEW b \in Bookings, Environment(b)
    PROVE  SearchInv'
<1>1. CASE DeadlinePasses(b)
  <2>1. \A c \in Bookings : booking'[c].status = booking[c].status
    BY <1>1 DEF TypeOK, Row, DeadlinePasses
  <2> QED BY <1>1, <2>1, SearchKept DEF SearchInv, SearchSame, DeadlinePasses
<1>2. CASE ScheduledTimeArrives(b) \/ KillSwitch(b)
  BY <1>2, SearchKept DEF SearchInv, SearchSame, ScheduledTimeArrives, KillSwitch
<1>3. CASE WorkerDies(b)
  <2> DEFINE dies(known) ==
        [known EXCEPT ![run[b].job] = Stalled(known[run[b].job].left)]
  <2>1. run[b].job \in JobIds /\ jobs[b] \in [JobIds -> JobState]
    BY <1>3 DEF TypeOK, WorkerDies, WaveInv, WaveOK
  <2>2. PICK known \in [JobIds -> JobState] : jobs' = [jobs EXCEPT ![b] = dies(known)]
    <3>1. CASE jobs' = [jobs EXCEPT ![b] = dies(jobs[b])]
      BY <2>1, <3>1
    <3>2. CASE /\ run[b].pc = "offering"
               /\ jobs' = [jobs EXCEPT ![b] = dies(Add(jobs[b], <<"wave", run[b].wave>>))]
      <4>1. <<"wave", run[b].wave>> \in JobIds
        BY <3>2, JobIdFacts DEF WaveInv, WaveOK
      <4>2. Add(jobs[b], <<"wave", run[b].wave>>) \in [JobIds -> JobState]
        BY <2>1, <4>1, AddFacts
      <4> QED BY <3>2, <4>2
    <3> QED BY <1>3, <3>1, <3>2 DEF WorkerDies
  <2>3. jobs'[b][run[b].job] = Stalled(known[run[b].job].left)
    BY <2>1, <2>2 DEF TypeOK
  <2>4. jobs'[b][run[b].job].st = "stalled"
    BY <2>3 DEF Stalled
  <2>5. \A c \in Bookings \ {b} : jobs'[c] = jobs[c] /\ run'[c] = run[c]
    BY <1>3, <2>2 DEF TypeOK, WorkerDies
  <2>6. \A c \in Bookings \ {b} : SearchSame(c)
    BY <1>3, <2>5 DEF SearchSame, WorkerDies
  <2>7. SearchOK(b)'
    BY <2>1, <2>4 DEF SearchOK, SearchPending
  <2> QED BY <2>6, <2>7, SearchOne
<1> QED BY <1>1, <1>2, <1>3 DEF Environment

\* Every confirmed booking starts out owed its first job.
LEMMA SearchInit == Init => SearchInv
BY DEF Init, SearchInv, SearchOK, SearchPending, DeadLock

LEMMA SearchStep == TypeOK /\ WaveInv /\ SearchInv /\ [Next]_vars => SearchInv'
<1> SUFFICES ASSUME TypeOK, WaveInv, SearchInv, [Next]_vars PROVE SearchInv'
  OBVIOUS
<1>1. ASSUME NEW d \in Drivers, OfferLockExpires(d) PROVE SearchInv'
  BY <1>1, SearchKept DEF SearchInv, SearchSame, OfferLockExpires
<1>2. CASE UNCHANGED vars
  BY <1>2, SearchKept DEF SearchInv, SearchSame, vars
<1> QED BY <1>1, <1>2, WaveSearch, RequestSearch, ContinuationSearch, OfferSearch,
           EnvironmentSearch DEF Next

\* Whatever fails, a booking in 'searching' is left with nobody to run its next
\* wave only through a loss the engine could have seen: a duplicate job id, a
\* job skipped under an older wave's lock, a failed enqueue, exhausted attempts,
\* an operator's override or offer.  A killed task alone never strands a search.
THEOREM SearchStrandedOnlyByLoss == Spec => []SearchPendingUnlessLost
<1>1. SearchInv => SearchPendingUnlessLost
  BY DEF SearchInv, SearchOK, SearchPendingUnlessLost
<1> QED BY <1>1, SearchInit, SearchStep, TypeInit, TypeStep, PTL DEF Spec
=============================================================================
