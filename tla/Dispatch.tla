------------------------------ MODULE Dispatch ------------------------------
(***************************************************************************)
(* The dispatch engine: how a confirmed booking finds a driver.            *)
(*                                                                         *)
(* A `dispatch.search` job advances one booking by one wave (runWave): it  *)
(* takes a Redis search lock, reads the booking row, offers the job to a   *)
(* few drivers and enqueues its own successor.  Drivers answer, offers     *)
(* time out, customers cancel and retry, operators reassign and override,  *)
(* all from other processes, at any point between two awaits of the wave.  *)
(*                                                                         *)
(* Each handler is cut where it awaits something another process can       *)
(* change: a variable such as `run`, `owed`, `assigning` or `releasing`    *)
(* holds what a handler has read and still has to do.                      *)
(*                                                                         *)
(* Data left out: geography and scoring (a wave picks ANY small set of the *)
(* drivers the filters leave), driver eligibility other than the live-job  *)
(* check (an ineligible driver is one the wave does not pick, and a        *)
(* refused accept rolls back), the delays of jobs (a job runs at any time  *)
(* after it is enqueued: the clocks of two tasks need not agree),          *)
(* notifications and the wave log.                                         *)
(***************************************************************************)
EXTENDS BookingStates, Naturals, FiniteSets

CONSTANTS
    Bookings, Drivers,
    NoBooking, NoDriver,
    Scheduled,       \* the bookings confirmed for a future time
    OffersPerWave,   \* config.offersPerWave
    MaxWave,         \* bound: the deadline falls within this many waves
    MaxReopen,       \* bound: how often one booking returns to the search
    UnableReasons,   \* the reasons a driver may give, as numbers
    CustomerRetries, \* whether POST /bookings/:id/retry-search is used
    AdminReassigns,  \* whether an operator reassigns
    AdminOverrides,  \* whether an operator overrides no_drivers_found
    ZonesPause,      \* whether the zone kill switch is used
    QueueCanFail,    \* whether an enqueue may fail
    WorkersCrash,    \* whether the task running a wave may be killed
    LateWorkers      \* whether an offer-timeout job may outlast the lock grace

ASSUME DispatchAssumption ==
    /\ NoBooking \notin Bookings
    /\ NoDriver \notin Drivers
    /\ Scheduled \subseteq Bookings
    /\ OffersPerWave \in Nat \ {0}
    /\ MaxWave \in Nat \ {0}
    /\ MaxReopen \in Nat
    /\ UnableReasons \subseteq Nat \ {0}
    /\ {CustomerRetries, AdminReassigns, AdminOverrides, ZonesPause,
        QueueCanFail, WorkersCrash, LateWorkers} \subseteq BOOLEAN

VARIABLES
    booking,    \* bookings: status, driver_id, search_wave, dispatch_deadline_at
    due,        \* whether scheduled_at has passed
    attempts,   \* dispatch_attempts: the outcomes recorded per booking and driver
    offerLock,  \* driver:{id}:offer_lock; the value is a ghost, Redis holds '1'
    timers,     \* the dispatch.offer-timeout jobs BullMQ knows: booking,
                \* driver, wave (together the job id) and state
    jobs,       \* the dispatch.search jobs BullMQ knows, per booking and job id
    run,        \* the wave in flight, per booking: what it read and has to do
    searchLock, \* booking:{id}:search_lock
    revokes,    \* the bookings with a pending dispatch.revoke job
    owed,       \* search work a committed request has not handed over yet
    assigning,  \* accepts committed, afterAssign still to run
    releasing,  \* offers resolved, the DEL of the driver's lock still to run
    paused,     \* the kill switch: bookings of a paused zone or band
    reopened,   \* how often each booking went back to the search (bound)
    crashed,    \* the bookings that lost a worker in mid-wave (bound)
    lost        \* ghost: a search job was refused, skipped or never enqueued

vars == <<booking, due, attempts, offerLock, timers, jobs, run, searchLock,
          revokes, owed, assigning, releasing, paused, reopened, crashed,
          lost>>

------------------------------------------------------------------------------
(* Types and helpers *)

Outcome == {"offered", "accepted", "rejected", "expired", "revoked",
            "unable", "reassigned"}

OfferWaves == 1 .. MaxWave + 1

\* The ids under which dispatch.search jobs are enqueued, without the booking.
JobIds ==
    {<<"create", 0>>, <<"scheduled", 0>>, <<"paused", 0>>, <<"admin-offer", 0>>}
        \cup {<<"wave", n>> : n \in OfferWaves}
        \cup {<<"redispatch", r>> : r \in UnableReasons \cup {0}}
        \cup {<<"retry", k>> : k \in 1 .. MaxReopen}

NoJob == <<"none", 0>>

\* `reschedule` asks for two attempts; the other enqueues take the default three.
Attempts(j) == IF j[1] \in {"create", "scheduled", "retry"} THEN 3 ELSE 2

Unknown   == [st |-> "none",    left |-> 0]
Completed == [st |-> "done",    left |-> 0]
Failed    == [st |-> "failed",  left |-> 0]
Stalled(n) == [st |-> "stalled", left |-> n]
Waiting(n) == [st |-> "waiting", left |-> n]
Running(n) == [st |-> "active",  left |-> n]

IdleRun == [job |-> NoJob, pc |-> "idle", wave |-> 0, deadline |-> "none",
            cands |-> {}]

IsOffered(b, d) == "offered" \in attempts[b][d]

\* resolveOffer: a conditional UPDATE of the rows that are still 'offered'.
Resolve(outs, outcome) == (outs \ {"offered"}) \cup {outcome}

\* The offer-timeout job that will expire the offer is still to come.
HasTimer(b, d) == \E w \in OfferWaves : <<b, d, w, "waiting">> \in timers

HoldsJob(d) ==
    \E b \in Bookings : /\ booking[b].driver = d
                        /\ booking[b].status \in ActiveJobStatuses

\* QueuePort.enqueue with a job id: BullMQ refuses an id it still knows, and it
\* knows waiting, active, failed and (for an hour) completed jobs.
Add(known, j) == IF known[j] = Unknown
                 THEN [known EXCEPT ![j] = Waiting(Attempts(j))]
                 ELSE known
Refused(known, j) == known[j] # Unknown

\* A request hands the search over; a queue that is down loses it.
Enqueue(b, j) ==
    \/ /\ jobs' = [jobs EXCEPT ![b] = Add(@, j)]
       /\ lost' = [lost EXCEPT ![b] = @ \/ Refused(jobs[b], j)]
    \/ /\ QueueCanFail
       /\ lost' = [lost EXCEPT ![b] = TRUE]
       /\ UNCHANGED jobs

\* Mutant: the UPDATE without the look at the table.
UncheckedTransition(b, to, patch) ==
    booking' = [booking EXCEPT ![b] =
        [status |-> to, driver |-> patch.driver, wave |-> patch.wave,
         deadline |-> patch.deadline]]

\* transition(tx, ...): legal or 409, the status and the patch in one UPDATE.
Transition(b, to, patch) ==
    /\ IsLegal(booking[b].status, to)
    /\ booking' = [booking EXCEPT ![b] =
            [status |-> to, driver |-> patch.driver, wave |-> patch.wave,
             deadline |-> patch.deadline]]

Cleared(row) == [row EXCEPT !.driver = NoDriver]

\* `searchWave ?? 1`
StoredWave(b) == IF booking[b].wave = 0 THEN 1 ELSE booking[b].wave

\* setWaveState: an UPDATE by id with no condition on the status.
SetWaveState(b, w, deadline) ==
    booking' = [booking EXCEPT ![b] =
        [status |-> booking[b].status, driver |-> booking[b].driver,
         wave |-> w, deadline |-> deadline]]

\* revokeAll(b): every pending offer of b becomes 'revoked'; the driver's lock
\* is deleted afterwards.
PendingOffers(b) == {d \in Drivers : IsOffered(b, d)}
RevokePending(b, ds) ==
    /\ attempts' = [attempts EXCEPT ![b] =
            [d \in Drivers |-> IF d \in ds THEN Resolve(@[d], "revoked") ELSE @[d]]]
    /\ releasing' = releasing \cup ({b} \X ds)

------------------------------------------------------------------------------
(* The start: bookings just confirmed, announceCreation about to enqueue.     *)

Init ==
    /\ booking = [b \in Bookings |-> [status |-> "searching", driver |-> NoDriver,
                                      wave |-> 0, deadline |-> "none"]]
    /\ due = [b \in Bookings |-> b \notin Scheduled]
    /\ attempts = [b \in Bookings |-> [d \in Drivers |-> {}]]
    /\ offerLock = [d \in Drivers |-> NoBooking]
    /\ timers = {}
    /\ jobs = [b \in Bookings |-> [j \in JobIds |-> Unknown]]
    /\ run = [b \in Bookings |-> IdleRun]
    /\ searchLock = {}
    /\ revokes = {}
    /\ owed = [b \in Bookings |-> {<<"create", 0>>}]
    /\ assigning = {}
    /\ releasing = {}
    /\ paused = {}
    /\ reopened = [b \in Bookings |-> 0]
    /\ crashed = {}
    /\ lost = [b \in Bookings |-> FALSE]

------------------------------------------------------------------------------
(* Time and the environment *)

ScheduledTimeArrives(b) ==
    /\ ~due[b]
    /\ due' = [due EXCEPT ![b] = TRUE]
    /\ UNCHANGED <<booking, attempts, offerLock, timers, jobs, run, searchLock,
                   revokes, owed, assigning, releasing, paused, reopened, crashed,
                   lost>>

DeadlinePasses(b) ==
    /\ booking[b].deadline = "ahead"
    /\ booking' = [booking EXCEPT ![b].deadline = "past"]
    /\ UNCHANGED <<due, attempts, offerLock, timers, jobs, run, searchLock,
                   revokes, owed, assigning, releasing, paused, reopened, crashed,
                   lost>>

\* Redis drops an offer lock at its TTL, the offer timeout plus five seconds.
\* A worker that is never later than the grace has resolved the offer by then,
\* if the offer's timeout job was ever enqueued.
OfferLockExpires(d) ==
    /\ offerLock[d] # NoBooking
    /\ \/ LateWorkers
       \/ /\ IsOffered(offerLock[d], d) => ~HasTimer(offerLock[d], d)
          /\ <<offerLock[d], d>> \notin assigning \cup releasing
    /\ offerLock' = [offerLock EXCEPT ![d] = NoBooking]
    /\ UNCHANGED <<booking, due, attempts, timers, jobs, run, searchLock,
                   revokes, owed, assigning, releasing, paused, reopened, crashed,
                   lost>>

\* An operator flips the zone or long-distance kill switch.
KillSwitch(b) ==
    /\ ZonesPause
    /\ paused' = IF b \in paused THEN paused \ {b} ELSE paused \cup {b}
    /\ UNCHANGED <<booking, due, attempts, offerLock, timers, jobs, run,
                   searchLock, revokes, owed, assigning, releasing, reopened, crashed, lost>>

------------------------------------------------------------------------------
(* runWave *)

\* The bound on waves: the deadline has passed before wave MaxWave + 1, or is
\* stamped by it when a retry cleared it under a wave in flight.
WithinBound(row) ==
    \/ row.wave < MaxWave
    \/ row.wave = MaxWave /\ row.deadline = "none"
    \/ row.deadline = "past"

\* A worker picks up a dispatch.search job, takes the lock and reads the row.
StartWave(b, j) ==
    /\ jobs[b][j].st = "waiting"
    /\ b \notin searchLock
    /\ booking[b].status = "searching" => WithinBound(booking[b])
    /\ jobs' = [jobs EXCEPT ![b][j] = Running(jobs[b][j].left)]
    /\ searchLock' = searchLock \cup {b}
    /\ run' = [run EXCEPT ![b] =
         [job |-> j,
          pc |-> IF booking[b].status = "searching" THEN "read" ELSE "stop",
          wave |-> booking[b].wave,
          deadline |-> booking[b].deadline,
          cands |-> {}]]
    /\ UNCHANGED <<booking, due, attempts, offerLock, timers, revokes, owed,
                   assigning, releasing, paused, reopened, crashed, lost>>

\* Another worker holds the lock: the job ends as 'locked', schedules nothing.
WaveSkipped(b, j) ==
    /\ jobs[b][j].st = "waiting"
    /\ b \in searchLock
    /\ jobs' = [jobs EXCEPT ![b][j] = Completed]
    /\ lost' = [lost EXCEPT ![b] = @ \/ run[b].pc = "stop"]
    /\ UNCHANGED <<booking, due, attempts, offerLock, timers, run, searchLock,
                   revokes, owed, assigning, releasing, paused, reopened, crashed>>

\* The `finally` of runWave and the worker's verdict on the job.
EndRun(b) ==
    /\ run' = [run EXCEPT ![b] = IdleRun]
    /\ searchLock' = searchLock \ {b}

\* The job ends well, having scheduled a successor: the id is refused if BullMQ
\* knows it, the job that is running included.
FinishInto(b, j) ==
    /\ jobs' = [jobs EXCEPT ![b] = [Add(jobs[b], j) EXCEPT ![run[b].job] = Completed]]
    /\ lost' = [lost EXCEPT ![b] = @ \/ Refused(jobs[b], j)]
    /\ EndRun(b)

\* The handler throws: BullMQ retries it until its attempts are used up.
Throw(b) ==
    LET left == jobs[b][run[b].job].left - 1 IN
    /\ jobs' = [jobs EXCEPT ![b][run[b].job] =
                    IF left = 0 THEN Failed ELSE Waiting(left)]
    /\ lost' = [lost EXCEPT ![b] = @ \/ left = 0]
    /\ EndRun(b)

\* The row read was not 'searching': the search is over for this job.
WaveStops(b) ==
    /\ run[b].pc = "stop"
    /\ jobs' = [jobs EXCEPT ![b][run[b].job] = Completed]
    /\ EndRun(b)
    /\ UNCHANGED <<booking, due, attempts, offerLock, timers, revokes, owed,
                   assigning, releasing, paused, reopened, crashed,
                   lost>>

\* scheduledAt is in the future: come back then.
WaveWaitsForSchedule(b) ==
    /\ run[b].pc = "read"
    /\ ~due[b]
    /\ FinishInto(b, <<"scheduled", 0>>)
    /\ UNCHANGED <<booking, due, attempts, offerLock, timers, revokes, owed,
                   assigning, releasing, paused, reopened, crashed>>

\* The zone is paused: revoke the live offers, look again in 30 s.
WaveHeld(b) ==
    /\ run[b].pc = "read"
    /\ due[b]
    /\ b \in paused
    /\ RevokePending(b, PendingOffers(b))
    /\ FinishInto(b, <<"paused", 0>>)
    /\ UNCHANGED <<booking, due, offerLock, timers, revokes, owed, assigning,
                   paused, reopened, crashed>>

\* Mutant: the wave past the deadline just ends.
WaveEndsPastDeadline(b) ==
    /\ run[b].pc = "read"
    /\ due[b]
    /\ b \notin paused
    /\ run[b].deadline = "past"
    /\ jobs' = [jobs EXCEPT ![b][run[b].job] = Completed]
    /\ EndRun(b)
    /\ UNCHANGED <<booking, due, attempts, offerLock, timers, revokes, owed,
                   assigning, releasing, paused, reopened, crashed, lost>>

\* The deadline read with the row has passed: giveUp.  The transition is made
\* against the row as it is now and throws when that is not 'searching'.
WaveGivesUp(b) ==
    /\ run[b].pc = "read"
    /\ due[b]
    /\ b \notin paused
    /\ run[b].deadline = "past"
    /\ \/ /\ Transition(b, "no_drivers_found", booking[b])
          /\ jobs' = [jobs EXCEPT ![b][run[b].job] = Completed]
          /\ EndRun(b)
          /\ UNCHANGED lost
       \/ /\ ~IsLegal(booking[b].status, "no_drivers_found")
          /\ Throw(b)
          /\ UNCHANGED booking
    /\ UNCHANGED <<due, attempts, offerLock, timers, revokes, owed, assigning,
                   releasing, paused, reopened, crashed>>

\* Mutant: only an answered offer excludes a driver, a silence does not.
SelectableAgain(b) ==
    {d \in Drivers : /\ attempts[b][d] \subseteq {"expired"}
                     /\ ~HoldsJob(d)
                     /\ offerLock[d] = NoBooking}

\* select: never a driver with a row for this booking, a live job or a lock.
Selectable(b) ==
    {d \in Drivers : /\ attempts[b][d] = {}
                     /\ ~HoldsJob(d)
                     /\ offerLock[d] = NoBooking}

\* select, then setWaveState.
WaveSelects(b) ==
    /\ run[b].pc = "read"
    /\ due[b]
    /\ b \notin paused
    /\ run[b].deadline # "past"
    /\ \E ds \in SUBSET Selectable(b) :
        /\ Cardinality(ds) <= OffersPerWave
        /\ run' = [run EXCEPT ![b] =
                [job |-> run[b].job, pc |-> "offering", wave |-> run[b].wave + 1,
                 deadline |-> run[b].deadline, cands |-> ds]]
    /\ SetWaveState(b, run[b].wave + 1, IF run[b].deadline = "none" THEN "ahead"
                                        ELSE booking[b].deadline)
    /\ UNCHANGED <<due, attempts, offerLock, timers, jobs, searchLock, revokes,
                   owed, assigning, releasing, paused, reopened, crashed,
                   lost>>

\* Mutant: a plain SET, so the second search takes the driver too.
RecordWithoutLock(b, d) ==
    /\ offerLock' = [offerLock EXCEPT ![d] = b]
    /\ attempts' = [attempts EXCEPT ![b][d] = @ \cup {"offered"}]

\* OfferService.offer, in the order it happens: SET NX on the driver's lock, the
\* attempt row, the timeout job, whose id names the booking, driver and wave.
LockAndRecord(b, d) ==
    /\ offerLock[d] = NoBooking
    /\ offerLock' = [offerLock EXCEPT ![d] = b]
    /\ attempts' = [attempts EXCEPT ![b][d] = @ \cup {"offered"}]

MakeOffer(b, d, w) ==
    /\ LockAndRecord(b, d)
    /\ timers' = IF <<b, d, w, "done">> \in timers THEN timers
                 ELSE timers \cup {<<b, d, w, "waiting">>}

\* A driver another search has locked since the selection is passed over.
WaveOffers(b, d) ==
    /\ run[b].pc = "offering"
    /\ d \in run[b].cands
    /\ run' = [run EXCEPT ![b].cands = @ \ {d}]
    /\ \/ MakeOffer(b, d, run[b].wave)
       \/ /\ offerLock[d] # NoBooking
          /\ UNCHANGED <<offerLock, attempts, timers>>
    /\ UNCHANGED <<booking, due, jobs, searchLock, revokes, owed, assigning,
                   releasing, paused, reopened, crashed, lost>>

\* The timeout job cannot be enqueued: the wave throws, the offer stands.
WaveOfferUntimed(b, d) ==
    /\ QueueCanFail
    /\ run[b].pc = "offering"
    /\ d \in run[b].cands
    /\ LockAndRecord(b, d)
    /\ Throw(b)
    /\ UNCHANGED <<booking, due, timers, revokes, owed, assigning, releasing,
                   paused, reopened, crashed>>

\* Every candidate was tried: schedule the next wave.
WaveReschedules(b) ==
    /\ run[b].pc = "offering"
    /\ run[b].cands = {}
    /\ FinishInto(b, <<"wave", run[b].wave>>)
    /\ UNCHANGED <<booking, due, attempts, offerLock, timers, revokes, owed,
                   assigning, releasing, paused, reopened, crashed>>

\* The enqueue of the successor fails and the wave throws.
WaveCannotReschedule(b) ==
    /\ QueueCanFail
    /\ run[b].pc = "offering"
    /\ run[b].cands = {}
    /\ Throw(b)
    /\ UNCHANGED <<booking, due, attempts, offerLock, timers, revokes, owed,
                   assigning, releasing, paused, reopened, crashed>>

\* The task running the wave is killed: before its next step, between an
\* offer's row and its timeout job, or once the successor is enqueued.  The
\* search lock stays until its TTL.
WorkerDies(b) ==
    /\ WorkersCrash
    /\ b \notin crashed
    /\ run[b].pc # "idle"
    /\ crashed' = crashed \cup {b}
    /\ run' = [run EXCEPT ![b] = IdleRun]
    /\ LET dies(known) == [known EXCEPT ![run[b].job] = Stalled(@.left)] IN
       \/ /\ jobs' = [jobs EXCEPT ![b] = dies(@)]
          /\ UNCHANGED <<attempts, offerLock>>
       \/ /\ \E d \in run[b].cands : LockAndRecord(b, d)
          /\ jobs' = [jobs EXCEPT ![b] = dies(@)]
       \/ /\ run[b].pc = "offering"
          /\ run[b].cands = {}
          /\ jobs' = [jobs EXCEPT ![b] = dies(Add(@, <<"wave", run[b].wave>>))]
          /\ UNCHANGED <<attempts, offerLock>>
    /\ UNCHANGED <<booking, due, timers, searchLock, revokes, owed, assigning,
                   releasing, paused, reopened, lost>>

DeadLock(b) == b \in searchLock /\ run[b].pc = "idle"

SearchLockExpires(b) ==
    /\ DeadLock(b)
    /\ searchLock' = searchLock \ {b}
    /\ UNCHANGED <<booking, due, attempts, offerLock, timers, jobs, run, revokes,
                   owed, assigning, releasing, paused, reopened, crashed, lost>>

\* Mutant: a search lock that outlives BullMQ's own.
JobRedeliveredEarly(b, j) ==
    /\ jobs[b][j].st = "stalled"
    /\ jobs' = [jobs EXCEPT ![b][j] = Waiting(@.left)]
    /\ UNCHANGED <<booking, due, attempts, offerLock, timers, run, searchLock,
                   revokes, owed, assigning, releasing, paused, reopened, crashed,
                   lost>>

\* BullMQ finds the stalled job and gives it to another worker, later than the
\* 15 s the search lock lives.
JobRedelivered(b, j) ==
    /\ jobs[b][j].st = "stalled"
    /\ ~DeadLock(b)
    /\ jobs' = [jobs EXCEPT ![b][j] = Waiting(@.left)]
    /\ UNCHANGED <<booking, due, attempts, offerLock, timers, run, searchLock,
                   revokes, owed, assigning, releasing, paused, reopened, crashed,
                   lost>>

------------------------------------------------------------------------------
(* The driver's answers, and what ends an offer *)

\* Mutant: no unique index, a driver takes a second live job.
AcceptSecondJob(b, d) ==
    /\ IsOffered(b, d)
    /\ Transition(b, "assigned", [booking[b] EXCEPT !.driver = d])
    /\ attempts' = [attempts EXCEPT ![b][d] = Resolve(@, "accepted")]
    /\ assigning' = assigning \cup {<<b, d>>}
    /\ UNCHANGED <<due, offerLock, timers, jobs, run, searchLock, revokes, owed,
                   releasing, paused, reopened, crashed, lost>>

\* accept: one transaction claims the offer row and assigns the booking.  The
\* partial unique index refuses a driver who is on another live job.
Accept(b, d) ==
    /\ IsOffered(b, d)
    /\ booking[b].status = "searching"
    /\ ~HoldsJob(d)
    /\ Transition(b, "assigned", [booking[b] EXCEPT !.driver = d])
    /\ attempts' = [attempts EXCEPT ![b][d] = Resolve(@, "accepted")]
    /\ assigning' = assigning \cup {<<b, d>>}
    /\ UNCHANGED <<due, offerLock, timers, jobs, run, searchLock, revokes, owed,
                   releasing, paused, reopened, crashed,
                   lost>>

\* afterAssign: the losers' offers are revoked, their locks and the winner's go.
AfterAssign(b, d) ==
    /\ <<b, d>> \in assigning
    /\ assigning' = assigning \ {<<b, d>>}
    /\ LET losers == PendingOffers(b) \ {d} IN
       /\ attempts' = [attempts EXCEPT ![b] =
             [e \in Drivers |-> IF e \in losers THEN Resolve(@[e], "revoked") ELSE @[e]]]
       /\ releasing' = releasing \cup ({b} \X (losers \cup {d}))
    /\ UNCHANGED <<booking, due, offerLock, timers, jobs, run, searchLock,
                   revokes, owed, paused, reopened, crashed,
                   lost>>

\* Mutant: an UPDATE without the outcome = 'offered' predicate.
AnswerAnyRow(b, d, outcome) ==
    /\ attempts[b][d] # {}
    /\ attempts' = [attempts EXCEPT ![b][d] = {outcome}]
    /\ releasing' = releasing \cup {<<b, d>>}

\* reject, and dispatch.offer-timeout: only a row still 'offered' is moved.
Answer(b, d, outcome) ==
    /\ IsOffered(b, d)
    /\ attempts' = [attempts EXCEPT ![b][d] = Resolve(@, outcome)]
    /\ releasing' = releasing \cup {<<b, d>>}

Reject(b, d) ==
    /\ Answer(b, d, "rejected")
    /\ UNCHANGED <<booking, due, offerLock, timers, jobs, run, searchLock,
                   revokes, owed, assigning, paused, reopened, crashed,
                   lost>>

\* Mutant: the expiry passes over an offer whose booking has left the search.
OfferTimesOutWhileSearching(b, d) ==
    /\ \E w \in OfferWaves :
        /\ <<b, d, w, "waiting">> \in timers
        /\ timers' = (timers \ {<<b, d, w, "waiting">>}) \cup {<<b, d, w, "done">>}
    /\ \/ booking[b].status = "searching" /\ Answer(b, d, "expired")
       \/ /\ booking[b].status # "searching" \/ ~IsOffered(b, d)
          /\ UNCHANGED <<attempts, releasing>>
    /\ UNCHANGED <<booking, due, offerLock, jobs, run, searchLock, revokes, owed,
                   assigning, paused, reopened, crashed, lost>>

OfferTimesOut(b, d) ==
    /\ \E w \in OfferWaves :
        /\ <<b, d, w, "waiting">> \in timers
        /\ timers' = (timers \ {<<b, d, w, "waiting">>}) \cup {<<b, d, w, "done">>}
    /\ \/ Answer(b, d, "expired")
       \/ ~IsOffered(b, d) /\ UNCHANGED <<attempts, releasing>>
    /\ UNCHANGED <<booking, due, offerLock, jobs, run, searchLock, revokes, owed,
                   assigning, paused, reopened, crashed,
                   lost>>

\* revokeDrivers, called when the driver's fleet is suspended.
FleetSuspended(b, d) ==
    /\ IsOffered(b, d)
    /\ RevokePending(b, {d})
    /\ UNCHANGED <<booking, due, offerLock, timers, jobs, run, searchLock,
                   revokes, owed, assigning, paused, reopened, crashed,
                   lost>>

\* releaseOfferLock: a DEL that does not look at whose lock it deletes.
ReleaseOfferLock(b, d) ==
    /\ <<b, d>> \in releasing
    /\ releasing' = releasing \ {<<b, d>>}
    /\ offerLock' = [offerLock EXCEPT ![d] = NoBooking]
    /\ UNCHANGED <<booking, due, attempts, timers, jobs, run, searchLock,
                   revokes, owed, assigning, paused, reopened, crashed,
                   lost>>

\* dispatch.revoke, enqueued by a cancellation.
RunRevoke(b) ==
    /\ b \in revokes
    /\ revokes' = revokes \ {b}
    /\ RevokePending(b, PendingOffers(b))
    /\ UNCHANGED <<booking, due, offerLock, timers, jobs, run, searchLock, owed,
                   assigning, paused, reopened, crashed,
                   lost>>

------------------------------------------------------------------------------
(* What moves a booking from outside the engine *)

\* The driver, or an operator's override, moves the job along to its end.
Progress(b, to) ==
    /\ booking[b].status \in ActiveJobStatuses
    /\ to \in {"en_route", "arrived", "in_progress", "completed"}
    /\ Transition(b, to, booking[b])
    /\ UNCHANGED <<due, attempts, offerLock, timers, jobs, run, searchLock,
                   revokes, owed, assigning, releasing, paused, reopened, crashed,
                   lost>>

\* The customer, or an operator, cancels: the revoke job follows the commit,
\* and a queue that is down loses it.
Cancel(b) ==
    /\ Transition(b, "cancelled", booking[b])
    /\ \/ revokes' = revokes \cup {b}
       \/ QueueCanFail /\ UNCHANGED revokes
    /\ UNCHANGED <<due, attempts, offerLock, timers, jobs, run, searchLock, owed,
                   assigning, releasing, paused, reopened, crashed,
                   lost>>

Reopen(b, work) ==
    /\ reopened[b] < MaxReopen
    /\ reopened' = [reopened EXCEPT ![b] = @ + 1]
    /\ owed' = [owed EXCEPT ![b] = @ \cup work]

\* unable: the driver hands the job back; the attempt row, then redispatch.
Unable(b, r) ==
    /\ booking[b].status \in ActiveJobStatuses
    /\ Transition(b, "searching", Cleared(booking[b]))
    /\ attempts' = [attempts EXCEPT ![b][booking[b].driver] = @ \cup {"unable"}]
    /\ Reopen(b, {<<"redispatch", r>>})
    /\ UNCHANGED <<due, offerLock, timers, jobs, run, searchLock, revokes,
                   assigning, releasing, paused, crashed, lost>>

\* reassign: live offers revoked, the job taken from its driver, and either a
\* new search or one exclusive offer to the operator's choice.
Reassign(b, work) ==
    /\ AdminReassigns
    /\ booking[b].status \in ActiveJobStatuses
    /\ Transition(b, "searching", Cleared(booking[b]))
    /\ LET ds == PendingOffers(b)
           prev == booking[b].driver IN
       /\ \E outcome \in {"unable", "reassigned"} :
            attempts' = [attempts EXCEPT ![b] =
                [d \in Drivers |->
                    (IF d \in ds THEN Resolve(@[d], "revoked") ELSE @[d])
                       \cup (IF d = prev THEN {outcome} ELSE {})]]
       /\ releasing' = releasing \cup ({b} \X ds)
    /\ Reopen(b, {work})
    /\ UNCHANGED <<due, offerLock, timers, jobs, run, searchLock, revokes,
                   assigning, paused, crashed, lost>>

\* reassign accepts in_progress, revokes, and only then finds the edge illegal.
ReassignRefused(b) ==
    /\ AdminReassigns
    /\ booking[b].status \in ActiveJobStatuses
    /\ ~IsLegal(booking[b].status, "searching")
    /\ RevokePending(b, PendingOffers(b))
    /\ UNCHANGED <<booking, due, offerLock, timers, jobs, run, searchLock,
                   revokes, owed, assigning, paused, reopened, crashed, lost>>

\* retrySearch: the wave and the deadline start over.  The transition table is
\* its only guard, and its patch leaves driver_id alone.
RetrySearch(b) ==
    /\ CustomerRetries
    /\ Transition(b, "searching", [driver |-> booking[b].driver, wave |-> 0,
                                    deadline |-> "none"])
    /\ Reopen(b, {<<"retry", reopened[b] + 1>>})
    /\ UNCHANGED <<due, attempts, offerLock, timers, jobs, run, searchLock,
                   revokes, assigning, releasing, paused, crashed, lost>>

\* transitionOverride on no_drivers_found: the status, and nothing else.
OverrideToSearching(b) ==
    /\ AdminOverrides
    /\ booking[b].status = "no_drivers_found"
    /\ Transition(b, "searching", booking[b])
    /\ Reopen(b, {})
    /\ lost' = [lost EXCEPT ![b] = TRUE]
    /\ UNCHANGED <<due, attempts, offerLock, timers, jobs, run, searchLock,
                   revokes, assigning, releasing, paused, crashed>>

------------------------------------------------------------------------------
(* Handing the search over to the queue, after the commit *)

\* announceCreation and retrySearch enqueue at once.
HandOver(b, w) ==
    /\ w \in owed[b]
    /\ w[1] \in {"create", "retry"}
    /\ owed' = [owed EXCEPT ![b] = @ \ {w}]
    /\ Enqueue(b, w)
    /\ UNCHANGED <<booking, due, attempts, offerLock, timers, run, searchLock,
                   revokes, assigning, releasing, paused, reopened, crashed>>

\* Mutant: the search is taken as resumed, and nothing is enqueued.
RedispatchInName(b, w) ==
    /\ w \in owed[b]
    /\ w[1] = "redispatch"
    /\ owed' = [owed EXCEPT ![b] = @ \ {w}]
    /\ UNCHANGED <<booking, due, attempts, offerLock, timers, jobs, run,
                   searchLock, revokes, assigning, releasing, paused, reopened,
                   crashed, lost>>

\* redispatch: only a booking that is (still) searching; a fresh deadline, the
\* stored wave.
Redispatch(b, w) ==
    /\ w \in owed[b]
    /\ w[1] = "redispatch"
    /\ owed' = [owed EXCEPT ![b] = @ \ {w}]
    /\ \/ /\ booking[b].status = "searching"
          /\ SetWaveState(b, StoredWave(b), "ahead")
          /\ Enqueue(b, w)
       \/ /\ booking[b].status # "searching"
          /\ UNCHANGED <<booking, jobs, lost>>
    /\ UNCHANGED <<due, attempts, offerLock, timers, run, searchLock, revokes,
                   assigning, releasing, paused, reopened, crashed>>

\* adminOfferToDriver: one offer and a successor for its expiry.  When the
\* driver cannot be offered (for any of the filters, most of them abstracted
\* here) the request fails, after the job was taken away.
AdminOfferToDriver(b, d) ==
    /\ <<"offer-to", d>> \in owed[b]
    /\ owed' = [owed EXCEPT ![b] = @ \ {<<"offer-to", d>>}]
    /\ \/ /\ booking[b].status = "searching"
          /\ d \in Selectable(b)
          /\ \/ /\ MakeOffer(b, d, StoredWave(b))
                /\ Enqueue(b, <<"admin-offer", 0>>)
             \/ /\ QueueCanFail
                /\ LockAndRecord(b, d)
                /\ lost' = [lost EXCEPT ![b] = TRUE]
                /\ UNCHANGED <<timers, jobs>>
       \/ /\ lost' = [lost EXCEPT ![b] = @ \/ booking[b].status = "searching"]
          /\ UNCHANGED <<offerLock, attempts, timers, jobs>>
    /\ UNCHANGED <<booking, due, run, searchLock, revokes, assigning, releasing,
                   paused, reopened, crashed>>

------------------------------------------------------------------------------
Wave(b) ==
    \/ \E j \in JobIds : StartWave(b, j) \/ WaveSkipped(b, j) \/ JobRedelivered(b, j)
    \/ WaveStops(b)
    \/ WaveWaitsForSchedule(b)
    \/ WaveHeld(b)
    \/ WaveGivesUp(b)
    \/ WaveSelects(b)
    \/ \E d \in Drivers : WaveOffers(b, d) \/ WaveOfferUntimed(b, d)
    \/ WaveReschedules(b)
    \/ WaveCannotReschedule(b)
    \/ SearchLockExpires(b)

OfferStep(b, d) ==
    \/ Accept(b, d)
    \/ AfterAssign(b, d)
    \/ Reject(b, d)
    \/ OfferTimesOut(b, d)
    \/ FleetSuspended(b, d)
    \/ ReleaseOfferLock(b, d)

Request(b) ==
    \/ \E to \in JobStatus : Progress(b, to)
    \/ Cancel(b)
    \/ \E r \in UnableReasons : Unable(b, r)
    \/ Reassign(b, <<"redispatch", 0>>)
    \/ \E d \in Drivers : Reassign(b, <<"offer-to", d>>)
    \/ ReassignRefused(b)
    \/ RetrySearch(b)
    \/ OverrideToSearching(b)

Continuation(b) ==
    \/ \E w \in owed[b] : HandOver(b, w) \/ Redispatch(b, w)
    \/ \E d \in Drivers : AdminOfferToDriver(b, d)
    \/ RunRevoke(b)

Environment(b) ==
    \/ ScheduledTimeArrives(b)
    \/ DeadlinePasses(b)
    \/ KillSwitch(b)
    \/ WorkerDies(b)

Next ==
    \/ \E b \in Bookings : Wave(b) \/ Request(b) \/ Continuation(b) \/ Environment(b)
    \/ \E b \in Bookings, d \in Drivers : OfferStep(b, d)
    \/ \E d \in Drivers : OfferLockExpires(d)

Spec == Init /\ [][Next]_vars

(***************************************************************************)
(* The workers keep running, due jobs are picked up, committed requests    *)
(* carry on after their commit, and time passes.  Nothing is assumed of    *)
(* drivers, customers and operators.                                       *)
(***************************************************************************)
Fairness ==
    /\ \A b \in Bookings :
        /\ WF_vars(Wave(b))
        /\ WF_vars(Continuation(b))
        /\ WF_vars(ScheduledTimeArrives(b))
        /\ WF_vars(DeadlinePasses(b))
    /\ \A b \in Bookings, d \in Drivers :
        /\ WF_vars(AfterAssign(b, d))
        /\ WF_vars(OfferTimesOut(b, d))
        /\ WF_vars(ReleaseOfferLock(b, d))
    /\ \A d \in Drivers : WF_vars(OfferLockExpires(d))

FairSpec == Spec /\ Fairness

------------------------------------------------------------------------------
(* Properties *)

Row == [status : JobStatus, driver : Drivers \cup {NoDriver},
        wave : 0 .. MaxWave + 1, deadline : {"none", "ahead", "past"}]

JobState == [st : {"none", "waiting", "active", "stalled", "done", "failed"},
             left : 0 .. 3]

RunState == [job : JobIds \cup {NoJob}, pc : {"idle", "stop", "read", "offering"},
             wave : 0 .. MaxWave + 1, deadline : {"none", "ahead", "past"},
             cands : SUBSET Drivers]

Work == JobIds \cup {<<"offer-to", d>> : d \in Drivers}

\* Every variable has its type: rows, job states and what handlers hold.
TypeOK ==
    /\ booking \in [Bookings -> Row]
    /\ due \in [Bookings -> BOOLEAN]
    /\ attempts \in [Bookings -> [Drivers -> SUBSET Outcome]]
    /\ offerLock \in [Drivers -> Bookings \cup {NoBooking}]
    /\ timers \subseteq Bookings \X Drivers \X OfferWaves \X {"waiting", "done"}
    /\ jobs \in [Bookings -> [JobIds -> JobState]]
    /\ run \in [Bookings -> RunState]
    /\ searchLock \subseteq Bookings
    /\ revokes \subseteq Bookings
    /\ owed \in [Bookings -> SUBSET Work]
    /\ assigning \subseteq Bookings \X Drivers
    /\ releasing \subseteq Bookings \X Drivers
    /\ paused \subseteq Bookings
    /\ reopened \in [Bookings -> 0 .. MaxReopen]
    /\ crashed \subseteq Bookings
    /\ lost \in [Bookings -> BOOLEAN]

\* A driver never looks at two countdowns for two customers: takeOfferLock's
\* SET NX and the order of every resolve before its DEL guarantee it, as long
\* as an offer is resolved before its lock's TTL runs out.
OneLiveOfferPerDriver ==
    \A b, c \in Bookings, d \in Drivers :
        IsOffered(b, d) /\ IsOffered(c, d) => b = c

\* The driver on a live job accepted its offer and has not handed the job back
\* nor been taken off it since: exclusions and the accept transaction together
\* never bring a driver back to a job they left.
HolderAcceptedAndStayed ==
    \A b \in Bookings :
        booking[b].status \in ActiveJobStatuses =>
            /\ booking[b].driver \in Drivers
            /\ "accepted" \in attempts[b][booking[b].driver]
            /\ attempts[b][booking[b].driver] \cap {"unable", "reassigned"} = {}

\* A driver who was asked about a booking, whatever they answered, is never
\* asked about it again (excludedDrivers counts every outcome).
NeverAskedTwice ==
    [][\A b \in Bookings, d \in Drivers :
         ~IsOffered(b, d) /\ IsOffered(b, d)' => attempts[b][d] = {}]_vars

\* A live offer owns its driver's lock and has its timer.
Held(b, d) == IsOffered(b, d) => offerLock[d] = b /\ HasTimer(b, d)

\* An offer that is over, but whose lock is still to be deleted, owns the lock.
Closing(b, d) ==
    /\ <<b, d>> \in assigning \cup releasing => offerLock[d] = b /\ ~IsOffered(b, d)
    /\ ~(<<b, d>> \in assigning /\ <<b, d>> \in releasing)

\* The drivers a wave still has to ask have never been asked.
Fresh(b, d) ==
    /\ d \in run[b].cands => attempts[b][d] = {}
    /\ booking[b].driver = d => attempts[b][d] # {}
    /\ attempts[b][d] = {} => \A t \in timers : t[1] = b => t[2] # d
    /\ <<"offer-to", d>> \notin owed[b]

\* How offers, their locks and their timers hang together, the inductive
\* invariant behind OneLiveOfferPerDriver: no DEL of releaseOfferLock ever hits
\* a lock that belongs to another search's live offer.
OfferLockInv ==
    \A b \in Bookings, d \in Drivers : Held(b, d) /\ Closing(b, d) /\ Fresh(b, d)

\* Somebody will run the next wave: a job waits, a wave that read 'searching'
\* is in flight, or a request still has to hand the search over.
SearchPending(b) ==
    \/ \E j \in JobIds : jobs[b][j].st \in {"waiting", "stalled"}
    \/ run[b].pc \in {"read", "offering"}
    \/ owed[b] # {}

\* A search is left with nobody to run its next wave only through one of the
\* losses recorded in `lost`: a job id refused as a duplicate, a job skipped
\* because a wave that had read an older status held the lock, a failed
\* enqueue, an operator's offer that could not be made, an operator's override
\* (which enqueues nothing), attempts exhausted.
SearchPendingUnlessLost ==
    \A b \in Bookings :
        booking[b].status = "searching" /\ ~lost[b] => SearchPending(b)

\* The engine's own claim: a booking in 'searching' always has somebody
\* searching for it (runWave: RE-ENTRANT AND SELF-SCHEDULING).
SearchNeverStranded ==
    \A b \in Bookings : booking[b].status = "searching" => SearchPending(b)

\* Every offer is answered, revoked or expired in the end.
OffersEnd ==
    \A b \in Bookings, d \in Drivers : IsOffered(b, d) ~> ~IsOffered(b, d)

\* Every search ends, in a driver, a cancellation or no_drivers_found, unless
\* its next job was lost.
SearchesEnd ==
    \A b \in Bookings :
        booking[b].status = "searching" ~>
            (booking[b].status # "searching" \/ lost[b])

\* A booking that was handed back to the search leaves it again, whatever was
\* lost on the way (unable: the periodic sweep reaches it).
HandedBackSearchEnds ==
    \A b \in Bookings :
        booking[b].status = "searching" /\ reopened[b] > 0 ~>
            booking[b].status # "searching"

\* Dispatch implements the lifecycle: the holder is the row's driver while the
\* status is an active one.
Lifecycle == INSTANCE BookingLifecycle WITH
    status <- [b \in Bookings |-> booking[b].status],
    holder <- [b \in Bookings |-> IF booking[b].status \in ActiveJobStatuses
                                  THEN booking[b].driver ELSE NoDriver]

\* Every step of the engine is a step of the lifecycle or invisible to it.
ImplementsLifecycle == Lifecycle!LSpec
=============================================================================
