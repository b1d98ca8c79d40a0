-------------------------------- MODULE Trips --------------------------------
(***************************************************************************)
(* One booking from its driver's acceptance to its end: the driver's calls *)
(* (JobExecutionService), the operator's (AdminBookingsService), the code  *)
(* the customer reads out at the pickup (BookingOtpService), the waiting   *)
(* charge, and cancelling with its fee and the driver's compensation       *)
(* (BookingsService.cancel, CancellationFeeService).                       *)
(*                                                                         *)
(* Every call reads the row without a lock, decides from what it read, and *)
(* moves the booking later in a transaction that looks at the status only. *)
(* `call` holds what a call has read and still has to do.                  *)
(*                                                                         *)
(* Abstracted: the search (a driver who never had the job accepts it), the *)
(* position check, photos, notifications and the shared link; amounts and  *)
(* times are small integers and codes are numbered as they are minted.     *)
(***************************************************************************)
EXTENDS BookingStates, Integers, FiniteSets

CONSTANTS
    Drivers, NoDriver,
    Operator, Customer,   \* the other two callers
    Screens,              \* the customer's requests for the code at a time
    MaxTime,              \* bound on the clock
    FreeWindow, PartialWindow, PartialFee, BaseFare, CompPct,  \* charge_config
    FreeMinutes, PerMinute,  \* the waiting rules locked on the booking
    LockedTotal,          \* the total locked at confirm
    OtpWindow, MaxAttempts, MaxRenewals,
    MaxCodes,             \* bound on the codes minted
    MaxCalls,             \* bound on the requests in flight at a time
    MaxPayments,          \* bound on the orders for the fee that are paid
    Deaths,               \* the points at which a call may die
    MaxFaults,            \* bound on faults
    Faults                \* the faults that may happen:
                          \*   "redis"   the write of a code to Redis fails
                          \*   "silent"  the vendor reports a payment without
                          \*             its amount

Actors == Drivers \cup {Operator, Customer}
Fees == {PartialFee, BaseFare}

ASSUME TripsAssumption ==
    /\ NoDriver \notin Drivers /\ {Operator, Customer} \cap Drivers = {}
    /\ Operator # Customer
    /\ {MaxTime, FreeWindow, PartialWindow, BaseFare, CompPct, FreeMinutes, PerMinute,
        LockedTotal, OtpWindow, MaxAttempts, MaxRenewals, MaxCodes, MaxCalls, MaxPayments,
        MaxFaults} \subseteq Nat
    /\ PartialFee \in Nat \ {0} /\ BaseFare > 0 /\ CompPct <= 100 /\ MaxTime > 0

VARIABLES
    now,       \* the clock, 1 when the booking was confirmed
    booking,   \* the bookings row; 0 stands for a null time
    gone,      \* the drivers who have left the job
    call,      \* what each caller has read and still has to do
    otp,       \* booking_otp_hash, otp_expires_at, otp_attempts
    cached,    \* booking:otp:{id}, 0 when missing
    renewals,  \* booking:otp:renewals:{id}
    screen,    \* the customer's requests for the code
    shown,     \* the code the customer was last given
    compared,  \* ghost: how many guesses were compared with the current code
    feeRow,    \* the amount of the open payments row of purpose
               \* cancellation_fee, 0 when none is open
    orders,    \* the vendor's orders for the fee, by amount: opened, paid, and
               \* taken once a row records the payment; a failed row's order
               \* stays payable, and orders of one amount are not told apart
    posted,    \* the compensation leg, one per booking
    faults

vars == <<now, booking, gone, call, otp, cached, renewals, screen, shown,
          compared, feeRow, orders, posted, faults>>

otpVars == <<otp, renewals, screen, shown, compared>>
moneyVars == <<feeRow, orders, posted>>

-----------------------------------------------------------------------------
NoRow == [status |-> "searching", driver |-> NoDriver, arrivedAt |-> 0,
          startedAt |-> 0, waiting |-> 0, total |-> LockedTotal, fee |-> 0,
          comp |-> 0, by |-> "nobody"]
NoDue == [fee |-> 0, comp |-> 0, payee |-> NoDriver]
Quiet == [pc |-> "idle", code |-> 0]
JobOf(row) == [arrivedAt |-> row.arrivedAt, startedAt |-> row.startedAt,
               waiting |-> row.waiting, total |-> row.total]
NoCall == [op |-> "none", at |-> 0, job |-> JobOf(NoRow), due |-> NoDue]

\* A call on a booking that has ended changes nothing and is left out.
InFlight(a) == call[a].op # "none"
MayCall ==
    /\ booking.status \in ActiveJobStatuses \cup {"searching"}
    /\ Cardinality({a \in Actors : InFlight(a)})
           + Cardinality({s \in Screens : screen[s].pc # "idle"}) < MaxCalls
Fault(kind) == kind \in Faults /\ faults < MaxFaults /\ faults' = faults + 1
FaultUnless(ok, kind) == IF ok THEN UNCHANGED faults ELSE Fault(kind)

Begin(a, op) == call' = [call EXCEPT ![a] = [NoCall EXCEPT !.op = op]]
End(a) == call' = [call EXCEPT ![a] = NoCall]

\* The code is numbered by its minting; 0 is the unreadable one of the create.
Init ==
    /\ now = 1
    /\ booking = NoRow
    /\ gone = {}
    /\ call = [a \in Actors |-> NoCall]
    /\ otp = [code |-> 0, expires |-> 0, attempts |-> 0]
    /\ cached = 0 /\ renewals = 0 /\ shown = 0
    /\ screen = [s \in Screens |-> Quiet]
    /\ compared = 0
    /\ feeRow = 0 /\ orders = [p \in Fees |-> "none"]
    /\ posted = [driver |-> NoDriver, amount |-> 0]
    /\ faults = 0

\* The clock of a live booking: once it has ended, time could only expire its code.
Tick ==
    /\ booking.status \in ActiveJobStatuses \cup {"searching"}
    /\ now < MaxTime /\ now' = now + 1
    /\ UNCHANGED <<booking, gone, call, cached, otpVars, moneyVars, faults>>

\* Mutant: the status is written without a look at the table.
UncheckedTransition(to, row) == booking' = [row EXCEPT !.status = to]

\* transition(): legal or an error that ends the call.
Transition(to, row) ==
    IF IsLegal(booking.status, to)
        THEN booking' = [row EXCEPT !.status = to] ELSE UNCHANGED booking

\* OfferService.accept, seen from here: a driver not excluded by an earlier turn.
Accept(d) ==
    /\ booking.status = "searching" /\ d \notin gone
    /\ booking' = [booking EXCEPT !.status = "assigned", !.driver = d]
    /\ UNCHANGED <<now, gone, call, cached, otpVars, moneyVars, faults>>

\* markEnRoute, called by the location pipeline; a 409 is swallowed.
markEnRoute ==
    /\ booking.status = "assigned"
    /\ booking' = [booking EXCEPT !.status = "en_route"]
    /\ UNCHANGED <<now, gone, call, cached, otpVars, moneyVars, faults>>

-----------------------------------------------------------------------------
(* The driver's calls.                                                     *)

\* The authorisation every route shares: the row as it is now.
requireDriverJob(d) == booking.driver = d

DriverCalls(d) ==
    /\ ~InFlight(d) /\ MayCall /\ requireDriverJob(d)
    /\ \/ \E op \in {"arrived", "otp", "unable"} : Begin(d, op)
       \/ call' = [call EXCEPT ![d] = [NoCall EXCEPT !.op = "complete", !.at = now,
                                                     !.job = JobOf(booking)]]
    /\ UNCHANGED <<now, booking, gone, cached, otpVars, moneyVars, faults>>

\* arrived, by the driver or by an operator's override.
Arrived(a) ==
    /\ call[a].op = "arrived"
    /\ Transition("arrived", [booking EXCEPT !.arrivedAt = now])
    /\ End(a)
    /\ UNCHANGED <<now, gone, cached, otpVars, moneyVars, faults>>

\* Mutant: the count is part of the transaction a wrong guess rolls back.
verifyRolledBack(d, code) ==
    /\ call[d].op = "otp"
    /\ LET counts == otp.expires > now /\ otp.attempts < MaxAttempts
           right == counts /\ code = otp.code
       IN /\ otp' = IF right THEN [otp EXCEPT !.attempts = @ + 1] ELSE otp
          /\ compared' = IF counts THEN compared + 1 ELSE compared
          /\ IF right THEN Begin(d, "start") ELSE End(d)
    /\ UNCHANGED <<now, booking, gone, cached, renewals, screen, shown, moneyVars, faults>>

\* verify: one statement counts the attempt and reads the code; an expired or
\* exhausted one is not compared.  The count is kept up to the limit.
verify(d, code) ==
    /\ call[d].op = "otp"
    /\ otp' = [otp EXCEPT !.attempts = IF @ < MaxAttempts THEN @ + 1 ELSE @]
    /\ LET counts == otp.expires > now /\ otp.attempts < MaxAttempts
           right == counts /\ code = otp.code
       IN /\ compared' = IF counts THEN compared + 1 ELSE compared
          /\ IF right THEN Begin(d, "start") ELSE End(d)
    /\ UNCHANGED <<now, booking, gone, cached, renewals, screen, shown, moneyVars, faults>>

\* start, once the code was right, or by an operator's override.
Start(a) ==
    /\ call[a].op = "start"
    /\ Transition("in_progress", [booking EXCEPT !.startedAt = now])
    /\ End(a)
    /\ UNCHANGED <<now, gone, cached, otpVars, moneyVars, faults>>

waitingCharge(waited) ==
    IF waited > FreeMinutes THEN (waited - FreeMinutes) * PerMinute ELSE 0

\* Mutant: the ticker runs on until the trip ends.
WaitedToTheEnd(job, at) == IF job.arrivedAt = 0 THEN 0 ELSE at - job.arrivedAt

\* Minutes between arrival and start, from the row the call read.
Waited(job, at) ==
    LET until == IF job.startedAt = 0 THEN at ELSE job.startedAt
    IN IF job.arrivedAt = 0 \/ until < job.arrivedAt THEN 0 ELSE until - job.arrivedAt

\* finalizeTrip: the waiting charge of the row read replaces the one in its
\* total; then afterJobEnded.
finalizeTrip(a) ==
    /\ call[a].op = "complete"
    /\ LET job == call[a].job
           waiting == waitingCharge(Waited(job, call[a].at))
       IN Transition("completed", [booking EXCEPT !.waiting = waiting,
                                        !.total = job.total - job.waiting + waiting])
    /\ cached' = IF IsLegal(booking.status, "completed") THEN 0 ELSE cached
    /\ End(a)
    /\ UNCHANGED <<now, gone, otpVars, moneyVars, faults>>

\* The patch that takes a driver off the job, by unable and by reassign, also
\* while another call of his, or of a driver before him, is in flight.
BackToSearch(a) ==
    /\ IF IsLegal(booking.status, "searching")
           THEN /\ booking' = [booking EXCEPT !.status = "searching", !.arrivedAt = 0,
                                              !.driver = NoDriver]
                /\ gone' = gone \cup {booking.driver}
                /\ cached' = 0
           ELSE UNCHANGED <<booking, gone, cached>>
    /\ End(a)
    /\ UNCHANGED <<now, otpVars, moneyVars, faults>>

unable(d) == call[d].op = "unable" /\ BackToSearch(d)
reassign == call[Operator].op = "reassign" /\ BackToSearch(Operator)

-----------------------------------------------------------------------------
(* Cancelling.                                                             *)

Tier(row, at) ==
    CASE row.status = "searching" -> "free"
      [] row.status \in {"en_route", "arrived", "in_progress"} -> "full"
      [] OTHER -> IF at - 1 <= FreeWindow THEN "free"
                  ELSE IF at - 1 <= PartialWindow THEN "partial" ELSE "full"

FeeOf(tier) == CASE tier = "free" -> 0 [] tier = "partial" -> PartialFee
                 [] tier = "full" -> BaseFare

\* Mutant: the percentage is not divided by a hundred.
ShareUnscaled(fee) == fee * CompPct

\* Math.round(fee * pct / 100)
Share(fee) == (2 * fee * CompPct + 100) \div 200

\* cancellationPolicy
Policy(row, at) ==
    LET fee == FeeOf(Tier(row, at))
    IN [fee |-> fee, payee |-> row.driver,
        comp |-> IF row.driver = NoDriver THEN 0 ELSE Share(fee)]

\* The customer's createIntent for the fee: an open row is returned as it was
\* priced, whatever the fee is by now; else a new row, with an order of its own.
OpenFee ==
    /\ booking.status \in ActiveJobStatuses
    /\ feeRow = 0 /\ Policy(booking, now).fee > 0
    /\ LET fee == Policy(booking, now).fee
       IN /\ feeRow' = fee
          /\ orders' = [orders EXCEPT ![fee] = IF @ = "none" THEN "open" ELSE @]
    /\ UNCHANGED <<now, booking, gone, call, cached, otpVars, posted, faults>>

PayFee(p) ==
    /\ orders[p] = "open"
    /\ Cardinality({q \in Fees : orders[q] \in {"paid", "taken"}}) < MaxPayments
    /\ orders' = [orders EXCEPT ![p] = "paid"]
    /\ UNCHANGED <<now, booking, gone, call, cached, otpVars, feeRow, posted, faults>>

\* The reconcile sweep fails a row whose order was never paid; the order itself
\* is not cancelled at the vendor.
SweepFailsFee ==
    /\ feeRow # 0 /\ orders[feeRow] # "paid" /\ booking.status # "cancelled"
    /\ feeRow' = 0
    /\ UNCHANGED <<now, booking, gone, call, cached, otpVars, orders, posted, faults>>

\* The vendor's webhook, or the sweep, reports the paid fee: both hand it to
\* settleCapturedPayment, which looks at the booking's status and not at what
\* the payment was for.  The row of the order may be one that had failed.
FeeConfirmed(p) ==
    /\ orders[p] = "paid" /\ booking.status \in {"completed", "cancelled"}
    /\ orders' = [orders EXCEPT ![p] = "taken"]
    /\ feeRow' = IF feeRow = p THEN 0 ELSE feeRow
    /\ booking' = IF booking.status = "completed"
                      THEN [booking EXCEPT !.status = "paid"] ELSE booking
    /\ UNCHANGED <<now, gone, call, cached, otpVars, posted, faults>>

\* cancel reads the row and prices the cancellation (cancellationFor).
CustomerCancels ==
    /\ ~InFlight(Customer) /\ MayCall
    /\ LET due == Policy(booking, now)
       IN call' = [call EXCEPT ![Customer] =
                      [NoCall EXCEPT !.op = IF due.fee = 0 THEN "commit" ELSE "pay",
                                     !.due = due]]
    /\ UNCHANGED <<now, booking, gone, cached, otpVars, moneyVars, faults>>

\* A captured row of purpose cancellation_fee.
Collected == \E p \in Fees : orders[p] = "taken"

\* Mutant: whatever the order collected is taken for the fee.
captureAny(p, fee) ==
    IF Collected THEN UNCHANGED <<feeRow, orders, faults>>
    ELSE /\ orders[p] = "paid"
         /\ orders' = [orders EXCEPT ![p] = "taken"] /\ feeRow' = 0
         /\ UNCHANGED faults

\* CancellationFeeService.capture of order p: a fee already collected is a
\* replay; what the vendor says was paid must be the fee, unless it does not
\* say.  The open row, whatever its order and amount, is marked captured, else
\* one is created: either way none is open.
capture(p, fee) ==
    IF Collected THEN UNCHANGED <<feeRow, orders, faults>>
    ELSE /\ orders[p] = "paid" /\ FaultUnless(p = fee, "silent")
         /\ orders' = [orders EXCEPT ![p] = "taken"] /\ feeRow' = 0

\* cancel goes on once the fee is in; a request without a payment, or with one
\* that capture refuses, ends here.
PayCancellation ==
    /\ call[Customer].op = "pay"
    /\ \/ /\ \E p \in Fees : capture(p, call[Customer].due.fee)
          /\ call' = [call EXCEPT ![Customer].op = "commit"]
       \/ End(Customer) /\ UNCHANGED <<feeRow, orders, faults>>
    /\ UNCHANGED <<now, booking, gone, cached, otpVars, posted>>

\* The transition with what the call computed; the driver stays on the row.
CommitCancel(a) ==
    /\ call[a].op = "commit"
    /\ LET due == call[a].due
           by == IF a = Customer THEN "customer" ELSE "admin"
           pays == due.comp > 0 /\ due.payee # NoDriver
       IN /\ Transition("cancelled", [booking EXCEPT !.fee = due.fee,
                                           !.comp = due.comp, !.by = by])
          /\ IF IsLegal(booking.status, "cancelled") /\ pays
                 THEN call' = [call EXCEPT ![a].op = "compensate"] ELSE End(a)
    /\ cached' = IF IsLegal(booking.status, "cancelled") THEN 0 ELSE cached
    /\ UNCHANGED <<now, gone, otpVars, moneyVars, faults>>

\* One adjustment leg per booking; a second post is a replay.
Compensate(a) ==
    /\ call[a].op = "compensate"
    /\ posted' = IF posted.amount # 0 THEN posted
                 ELSE [driver |-> call[a].due.payee, amount |-> call[a].due.comp]
    /\ End(a)
    /\ UNCHANGED <<now, booking, gone, cached, otpVars, feeRow, orders, faults>>

-----------------------------------------------------------------------------
(* The operator: overrides, completion, reassignment, cancellation.        *)

OverrideEdges == {<<"assigned", "arrived">>, <<"en_route", "arrived">>,
                  <<"arrived", "start">>, <<"in_progress", "complete">>}

OperatorCalls ==
    /\ ~InFlight(Operator) /\ MayCall
    /\ \/ /\ \E op \in {"arrived", "start"} :
                 <<booking.status, op>> \in OverrideEdges /\ Begin(Operator, op)
       \/ /\ <<booking.status, "complete">> \in OverrideEdges /\ booking.driver # NoDriver
          /\ call' = [call EXCEPT ![Operator] = [NoCall EXCEPT !.op = "complete", !.at = now,
                                                               !.job = JobOf(booking)]]
       \/ /\ booking.status \in ActiveJobStatuses /\ booking.driver # NoDriver
          /\ Begin(Operator, "reassign")
       \/ /\ booking.status \in ActiveJobStatuses \cup {"searching"}
          /\ \E applies, compensates \in BOOLEAN :
                 LET p == Policy(booking, now)
                 IN call' = [call EXCEPT ![Operator] = [NoCall EXCEPT !.op = "commit",
                        !.due = [fee |-> IF applies THEN p.fee ELSE 0, payee |-> p.payee,
                                 comp |-> IF applies \/ compensates THEN p.comp ELSE 0]]]
    /\ UNCHANGED <<now, booking, gone, cached, otpVars, moneyVars, faults>>

-----------------------------------------------------------------------------
(* The code.                                                               *)

\* issueOtp: the cached code inside a live window, else a new one.
Available == booking.status \in ActiveJobStatuses

issue(s) ==
    /\ screen[s].pc = "idle" /\ MayCall /\ Available
    /\ IF otp.expires > now /\ cached # 0
           THEN shown' = cached /\ UNCHANGED screen
           ELSE screen' = [screen EXCEPT ![s].pc = "mint"] /\ UNCHANGED shown
    /\ UNCHANGED <<now, booking, gone, call, otp, cached, renewals, compared, moneyVars, faults>>

\* renewOtp: counted, and always a new one.
renew(s) ==
    /\ screen[s].pc = "idle" /\ MayCall /\ Available /\ renewals < MaxRenewals
    /\ renewals' = renewals + 1
    /\ screen' = [screen EXCEPT ![s].pc = "mint"]
    /\ UNCHANGED <<now, booking, gone, call, otp, cached, shown, compared, moneyVars, faults>>

\* mint: the digest, the window and the attempts in one UPDATE...
mint(s) ==
    /\ screen[s].pc = "mint" /\ otp.code < MaxCodes
    /\ otp' = [code |-> otp.code + 1, expires |-> now + OtpWindow, attempts |-> 0]
    /\ screen' = [screen EXCEPT ![s] = [pc |-> "cache", code |-> otp.code + 1]]
    /\ compared' = 0
    /\ UNCHANGED <<now, booking, gone, call, cached, renewals, shown, moneyVars, faults>>

\* Mutant: only a missing entry is written.
CacheIfMissing(c) == IF cached = 0 THEN c ELSE cached

\* ... then the readable copy, which replaces the one before.
Cached(c) == c

cache(s) ==
    /\ screen[s].pc = "cache"
    /\ \/ cached' = Cached(screen[s].code) /\ UNCHANGED faults
       \/ Fault("redis") /\ UNCHANGED cached
    /\ shown' = screen[s].code
    /\ screen' = [screen EXCEPT ![s] = Quiet]
    /\ UNCHANGED <<now, booking, gone, call, otp, renewals, compared, moneyVars>>

\* The TTL, a flush or an eviction.
CacheLoses ==
    /\ cached # 0 /\ cached' = 0
    /\ UNCHANGED <<now, booking, gone, call, otpVars, moneyVars, faults>>

\* A call dies; what it committed stays.
Die(a) ==
    /\ call[a].op \in Deaths
    /\ End(a)
    /\ UNCHANGED <<now, booking, gone, cached, otpVars, moneyVars, faults>>

-----------------------------------------------------------------------------
\* The driver types the code the customer reads out, or a wrong one.
WrongCode == MaxCodes + 1

DriverStep(d) ==
    \/ Accept(d) \/ DriverCalls(d) \/ unable(d)
    \/ \E code \in {shown, WrongCode} : verify(d, code)

Next ==
    \/ Tick \/ markEnRoute \/ OpenFee \/ SweepFailsFee
    \/ \E p \in Fees : PayFee(p) \/ FeeConfirmed(p)
    \/ CustomerCancels \/ PayCancellation \/ OperatorCalls \/ reassign
    \/ \E d \in Drivers : DriverStep(d)
    \/ \E a \in Actors : Arrived(a) \/ Start(a) \/ finalizeTrip(a) \/ Die(a)
                         \/ CommitCancel(a) \/ Compensate(a)
    \/ \E s \in Screens : issue(s) \/ renew(s) \/ mint(s) \/ cache(s)
    \/ CacheLoses

Spec == Init /\ [][Next]_vars

-----------------------------------------------------------------------------
Times == 0 .. MaxTime
Bill == 0 .. (LockedTotal + MaxTime * PerMinute)
Row == [status : JobStatus, driver : Drivers \cup {NoDriver}, arrivedAt : Times,
        startedAt : Times, waiting : Bill, total : Bill,
        fee : 0 .. (BaseFare + PartialFee), comp : 0 .. (BaseFare + PartialFee),
        by : {"nobody", "customer", "admin"}]
Job == [arrivedAt : Times, startedAt : Times, waiting : Bill, total : Bill]
Due == [fee : 0 .. (BaseFare + PartialFee), comp : 0 .. (BaseFare + PartialFee),
        payee : Drivers \cup {NoDriver}]
Ops == {"none", "arrived", "otp", "start", "complete", "unable", "reassign",
        "pay", "commit", "compensate"}

\* Types of the row, the calls, the code and the fee.
TypeOK ==
    /\ now \in 1 .. MaxTime /\ booking \in Row /\ gone \subseteq Drivers
    /\ call \in [Actors -> [op : Ops, at : Times, job : Job, due : Due]]
    /\ otp \in [code : 0 .. MaxCodes, expires : 0 .. (MaxTime + OtpWindow),
                attempts : 0 .. MaxAttempts]
    /\ cached \in 0 .. MaxCodes /\ renewals \in 0 .. MaxRenewals /\ shown \in 0 .. MaxCodes
    /\ screen \in [Screens -> [pc : {"idle", "mint", "cache"}, code : 0 .. MaxCodes]]
    /\ compared \in Nat
    /\ feeRow \in Fees \cup {0} /\ orders \in [Fees -> {"none", "open", "paid", "taken"}]
    /\ posted \in [driver : Drivers \cup {NoDriver}, amount : 0 .. (BaseFare + PartialFee)]
    /\ faults \in 0 .. MaxFaults

\* No code is compared with more guesses than OTP_MAX_ATTEMPTS, by all drivers
\* and calls together: start verifies outside the transaction so that a wrong
\* guess keeps its count.
GuessesAreCapped == compared <= MaxAttempts

\* The code on the customer's screen is the one that opens the job, for as
\* long as its window runs: through renewals, evictions, a change of driver
\* and re-reads (the reason BookingOtpService keeps a readable copy at all).
ShownCodeOpens ==
    (\A s \in Screens : screen[s].pc = "idle") /\ shown # 0 /\ otp.expires > now
        => shown = otp.code

\* A fee the customer's cancellation cost was collected, to the amount, and
\* the driver's compensation is its share, paid once, whatever the driver, the
\* operator and the clock did between the read, the payment and the commit.
CancellationIsPaidFor ==
    booking.status = "cancelled" /\ booking.by = "customer" =>
        /\ booking.fee > 0 => booking.fee \in Fees /\ orders[booking.fee] = "taken"
        /\ posted.amount \in {0, booking.comp} /\ booking.comp \in {0, Share(booking.fee)}

\* A trip completed by its driver or by an operator costs the locked total and
\* no more waiting than there was between the arrival and the start, whatever
\* row the completion had read and whatever arrived, start, hand-back or
\* override came between the read and the write.
BillIsTheTrip ==
    [][\A a \in Actors :
          /\ call[a].op = "complete" /\ call'[a].op = "none"
          /\ booking.status # "completed" /\ booking'.status = "completed"
          /\ a \in Drivers => booking.driver = a
          => booking'.total - LockedTotal \in
                 0 .. waitingCharge(booking'.startedAt - booking'.arrivedAt)]_vars

\* Every call, whatever row it had read, moves the booking as the lifecycle
\* allows: along the table, with one holder from the acceptance to the end.
Lifecycle == INSTANCE BookingLifecycle WITH
    Bookings <- {Customer},
    status <- [b \in {Customer} |-> booking.status],
    holder <- [b \in {Customer} |->
                 IF booking.status \in ActiveJobStatuses THEN booking.driver ELSE NoDriver]

ImplementsLifecycle == Lifecycle!LSpec

\* "DELIBERATELY NOT A SETTLEMENT" (CancellationFeeService): no other payment
\* exists here, so a booking that became paid was paid with its fee.
FeeIsNotASettlement == booking.status # "paid"

=============================================================================
