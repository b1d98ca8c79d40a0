----------------------------- MODULE Trips_proofs -----------------------------
(***************************************************************************)
(* Proofs about Trips, for any number of drivers, screens and calls in     *)
(* flight, any charges, windows and waiting rules, and any clock: types,   *)
(* the guesses at the code, the code on the screen, the bill, the fee of a *)
(* cancellation, and that the module implements BookingLifecycle.          *)
(***************************************************************************)
EXTENDS Trips, TLAPS

USE TripsAssumption

-----------------------------------------------------------------------------
(* The inductive invariants                                                *)

BeforeStart == {"searching", "assigned", "en_route", "arrived"}
Ended == {"completed", "paid", "cancelled"}

\* The statuses these calls can reach, and who is on the row in them.
HolderInv ==
    /\ booking.status \in BeforeStart \cup {"in_progress"} \cup Ended
    /\ booking.status \in ActiveJobStatuses => booking.driver \in Drivers
    /\ booking.status = "searching" => booking.driver = NoDriver

\* A total is the locked one and the waiting it contains, on the row and in
\* every copy a call carries.
TotalInv ==
    /\ booking.total = LockedTotal + booking.waiting
    /\ \A a \in Actors : /\ call[a].job.total = LockedTotal + call[a].job.waiting
                         /\ call[a].at <= now

TypeInv == TypeOK /\ HolderInv /\ TotalInv

\* No comparison without its count.
GuessInv == compared <= otp.attempts

\* One request for the code at a time, and no failed write: what is readable
\* is the code whose digest is on the row.
CodeInv ==
    /\ \A s \in Screens : screen[s].pc = "cache" => screen[s].code = otp.code
    /\ (\A s \in Screens : screen[s].pc # "cache") =>
           cached \in {0, otp.code} /\ shown \in {0, otp.code}

\* A driver whose call is in flight is on the job, or has had it and will not
\* get it again.
CallerInv == \A d \in Drivers : InFlight(d) => booking.driver = d \/ d \in gone

\* The times on the row, by its status.
TimesInv ==
    /\ booking.status \in BeforeStart \ {"arrived"} => booking.arrivedAt = 0
    /\ booking.status \in BeforeStart => booking.startedAt = 0
    /\ booking.status \in {"in_progress", "completed", "paid"} => booking.startedAt # 0
    /\ booking.arrivedAt <= now /\ booking.startedAt <= now
    /\ booking.startedAt # 0 => booking.arrivedAt <= booking.startedAt

\* What a completion read is what the row still says, but for an arrival or a
\* start that came after the read, unless the job is no longer the driver's.
ReadBefore(c) ==
    /\ c.job.arrivedAt \in {0, booking.arrivedAt}
    /\ c.job.startedAt \in {0, booking.startedAt}
    /\ c.job.startedAt = 0 /\ booking.startedAt # 0 => c.at <= booking.startedAt

Ousted(a) == a \in Drivers /\ booking.driver # a

CompletionInv ==
    /\ \A a \in Actors : call[a].op = "complete" =>
         a # Customer /\ (Ousted(a) \/ ReadBefore(call[a]))
    /\ call[Operator].op = "complete" => booking.status \notin BeforeStart

BillInv == CallerInv /\ TimesInv /\ CompletionInv

Taken(fee) == fee \in Fees /\ orders[fee] = "taken"

\* A fee is captured for the cancellation that is about to commit, and a
\* compensation is posted only for the cancellation that is on the row.
FeeInv ==
    /\ Collected =>
         \/ call[Customer].op = "commit" /\ Taken(call[Customer].due.fee)
         \/ booking.status \in Ended
    /\ call[Customer].op = "commit" /\ call[Customer].due.fee > 0 =>
         Taken(call[Customer].due.fee) \/ booking.status \in Ended
    /\ call[Customer].due.comp \in {0, Share(call[Customer].due.fee)}
    /\ \A a \in Actors : call[a].op = "compensate" =>
         booking.status = "cancelled" /\ call[a].due.comp = booking.comp
    /\ posted.amount # 0 => booking.status = "cancelled" /\ posted.amount = booking.comp
    /\ CancellationIsPaidFor

-----------------------------------------------------------------------------
(* The operators                                                           *)

LEMMA ProductMonotone ==
    ASSUME NEW m \in Nat, NEW n \in Nat, NEW p \in Nat, m <= n
    PROVE  m * p \in Nat /\ n * p \in Nat /\ m * p <= n * p
<1>1. PICK k \in Nat : n = m + k
    BY n - m \in Nat
<1>2. n * p = m * p + k * p
    BY <1>1
<1>3. m * p \in Nat /\ k * p \in Nat
    BY <1>1
<1> QED BY <1>2, <1>3

\* A longer wait never costs less.
LEMMA WaitingMonotone ==
    ASSUME NEW v \in Nat, NEW w \in Nat, v <= w
    PROVE  waitingCharge(v) \in Nat /\ waitingCharge(w) \in Nat
           /\ waitingCharge(v) <= waitingCharge(w)
<1>1. FreeMinutes \in Nat /\ PerMinute \in Nat
    OBVIOUS
<1>2. CASE w > FreeMinutes /\ v > FreeMinutes
  <2>1. v - FreeMinutes \in Nat /\ w - FreeMinutes \in Nat
        /\ v - FreeMinutes <= w - FreeMinutes
      BY <1>1, <1>2
  <2> QED BY <2>1, <1>1, <1>2, ProductMonotone DEF waitingCharge
<1>3. CASE w > FreeMinutes /\ ~(v > FreeMinutes)
  <2>1. w - FreeMinutes \in Nat
      BY <1>1, <1>3
  <2> QED BY <2>1, <1>1, <1>3, ProductMonotone DEF waitingCharge
<1>4. CASE ~(w > FreeMinutes)
    BY <1>1, <1>4 DEF waitingCharge
<1> QED BY <1>2, <1>3, <1>4

LEMMA WaitingBound ==
    ASSUME NEW w \in Times
    PROVE  waitingCharge(w) \in 0 .. (MaxTime * PerMinute)
<1>1. w \in Nat /\ w <= MaxTime /\ MaxTime \in Nat /\ FreeMinutes \in Nat /\ PerMinute \in Nat
    BY DEF Times
<1>2. MaxTime * PerMinute \in Nat
    BY <1>1, ProductMonotone
<1>3. CASE w > FreeMinutes
  <2>1. w - FreeMinutes \in Nat /\ w - FreeMinutes <= MaxTime
      BY <1>1, <1>3
  <2> QED BY <2>1, <1>1, <1>3, ProductMonotone DEF waitingCharge
<1>4. CASE ~(w > FreeMinutes)
    BY <1>1, <1>2, <1>4 DEF waitingCharge
<1> QED BY <1>3, <1>4

\* The driver's share is never more than the fee.
LEMMA ShareBound ==
    ASSUME NEW fee \in Nat
    PROVE  Share(fee) \in 0 .. fee
<1>1. CompPct \in Nat /\ CompPct <= 100
    OBVIOUS
<1>2. CompPct * fee \in Nat /\ CompPct * fee <= 100 * fee
    BY <1>1, ProductMonotone
<1>3. 2 * fee * CompPct + 100 = 2 * (CompPct * fee) + 100
    BY <1>1
<1>4. \A n \in Nat : n <= 200 * fee + 100 => n \div 200 \in 0 .. fee
    OBVIOUS
<1> QED BY <1>2, <1>3, <1>4 DEF Share

LEMMA FeeBound ==
    ASSUME NEW r, NEW t
    PROVE  FeeOf(Tier(r, t)) \in {0, PartialFee, BaseFare}
<1>1. Tier(r, t) \in {"free", "partial", "full"}
    BY DEF Tier
<1> QED BY <1>1 DEF FeeOf

LEMMA PolicyType ==
    ASSUME NEW r, NEW t, r.driver \in Drivers \cup {NoDriver}
    PROVE  /\ Policy(r, t) \in Due
           /\ Policy(r, t).comp \in {0, Share(Policy(r, t).fee)}
<1> DEFINE fee == FeeOf(Tier(r, t))
<1>1. fee \in Nat /\ fee \in 0 .. (BaseFare + PartialFee)
    BY FeeBound
<1>2. Share(fee) \in 0 .. (BaseFare + PartialFee)
    BY <1>1, ShareBound
<1> HIDE DEF fee
<1>3. Policy(r, t) = [fee |-> fee, payee |-> r.driver,
                      comp |-> IF r.driver = NoDriver THEN 0 ELSE Share(fee)]
    BY DEF Policy, fee
<1>4. BaseFare + PartialFee \in Nat
    OBVIOUS
<1> QED BY <1>1, <1>2, <1>3, <1>4 DEF Due

LEMMA WaitedType ==
    ASSUME NEW job \in Job, NEW t \in Times
    PROVE  Waited(job, t) \in Times
    BY DEF Waited, Job, Times

-----------------------------------------------------------------------------
(* Types                                                                   *)

Calls == [op : Ops, at : Times, job : Job, due : Due]

\* What TypeInv says of one call, kept apart for the steps that write one.
CallFine(c, t) == c \in Calls /\ c.job.total = LockedTotal + c.job.waiting /\ c.at <= t

LEMMA BillNat == MaxTime * PerMinute \in Nat /\ LockedTotal + MaxTime * PerMinute \in Nat
<1>1. MaxTime \in Nat /\ PerMinute \in Nat /\ LockedTotal \in Nat
    OBVIOUS
<1>2. MaxTime * PerMinute \in Nat
    BY <1>1, ProductMonotone
<1> QED BY <1>1, <1>2

LEMMA NoCallFine == \A t \in Nat : CallFine(NoCall, t)
<1>1. JobOf(NoRow) \in Job /\ JobOf(NoRow).total = LockedTotal + JobOf(NoRow).waiting
    BY BillNat DEF JobOf, NoRow, Job, Bill, Times
<1>2. NoDue \in Due
    BY DEF NoDue, Due
<1> QED BY <1>1, <1>2 DEF NoCall, CallFine, Calls, Ops, Times

LEMMA CallFacts ==
    ASSUME TypeInv, NEW a \in Actors
    PROVE  CallFine(call[a], now) /\ call[a].job \in Job /\ call[a].due \in Due
           /\ call[a].at \in Times /\ call[a].op \in Ops
    BY DEF TypeInv, TypeOK, TotalInv, CallFine, Calls

\* A step that writes one call and lets no time pass.
LEMMA CallsKept ==
    ASSUME TypeInv, NEW a \in Actors, NEW c, CallFine(c, now),
           call' = [call EXCEPT ![a] = c], now' = now
    PROVE  call' \in [Actors -> Calls] /\ \A b \in Actors : CallFine(call'[b], now')
<1>1. call \in [Actors -> Calls] /\ \A b \in Actors : CallFine(call[b], now)
    BY CallFacts DEF CallFine, TypeInv, TypeOK, Calls
<1>2. c \in Calls
    BY DEF CallFine
<1> QED BY <1>1, <1>2

LEMMA EndKept ==
    ASSUME TypeInv, NEW a \in Actors, End(a), now' = now
    PROVE  call' \in [Actors -> Calls] /\ \A b \in Actors : CallFine(call'[b], now')
<1>1. now \in Nat
    BY DEF TypeInv, TypeOK
<1> QED BY <1>1, CallsKept, NoCallFine DEF End

LEMMA BeginKept ==
    ASSUME TypeInv, NEW a \in Actors, NEW op \in Ops, Begin(a, op), now' = now
    PROVE  call' \in [Actors -> Calls] /\ \A b \in Actors : CallFine(call'[b], now')
<1>1. now \in Nat
    BY DEF TypeInv, TypeOK
<1>2. CallFine([NoCall EXCEPT !.op = op], now)
    BY <1>1, NoCallFine DEF NoCall, CallFine, Calls
<1> QED BY <1>2, CallsKept DEF Begin

LEMMA OpKept ==
    ASSUME TypeInv, NEW a \in Actors, NEW op \in Ops, now' = now,
           call' = [call EXCEPT ![a].op = op]
    PROVE  call' \in [Actors -> Calls] /\ \A b \in Actors : CallFine(call'[b], now')
<1>1. CallFine([call[a] EXCEPT !.op = op], now)
    BY CallFacts DEF CallFine, Calls
<1>2. call' = [call EXCEPT ![a] = [call[a] EXCEPT !.op = op]]
    BY DEF TypeInv, TypeOK
<1> QED BY <1>1, <1>2, CallsKept

LEMMA PricedFine ==
    ASSUME TypeInv, NEW due \in Due, NEW op \in Ops
    PROVE  CallFine([NoCall EXCEPT !.op = op, !.due = due], now)
<1>1. now \in Nat
    BY DEF TypeInv, TypeOK
<1> QED BY <1>1, NoCallFine DEF NoCall, CallFine, Calls

LEMMA CompletionFine ==
    ASSUME TypeInv
    PROVE  CallFine([NoCall EXCEPT !.op = "complete", !.at = now, !.job = JobOf(booking)], now)
<1>1. now \in Times /\ now <= now /\ now \in Nat
    BY DEF TypeInv, TypeOK, Times
<1>2. JobOf(booking) \in Job /\ JobOf(booking).total = LockedTotal + JobOf(booking).waiting
    BY DEF TypeInv, TypeOK, TotalInv, Row, Job, JobOf
<1> QED BY <1>1, <1>2, NoCallFine DEF NoCall, CallFine, Calls, Ops

\* What TypeInv says of the row.
RowFine(r) ==
    /\ r \in Row /\ r.total = LockedTotal + r.waiting
    /\ r.status \in BeforeStart \cup {"in_progress"} \cup Ended
    /\ r.status \in ActiveJobStatuses => r.driver \in Drivers
    /\ r.status = "searching" => r.driver = NoDriver

LEMMA RowFacts ==
    ASSUME TypeInv
    PROVE  RowFine(booking)
    BY DEF TypeInv, TypeOK, HolderInv, TotalInv, RowFine

CodeFine ==
    /\ otp \in [code : 0 .. MaxCodes, expires : 0 .. (MaxTime + OtpWindow),
                attempts : 0 .. MaxAttempts]
    /\ cached \in 0 .. MaxCodes /\ renewals \in 0 .. MaxRenewals /\ shown \in 0 .. MaxCodes
    /\ screen \in [Screens -> [pc : {"idle", "mint", "cache"}, code : 0 .. MaxCodes]]
    /\ compared \in Nat

MoneyFine ==
    /\ feeRow \in Fees \cup {0} /\ orders \in [Fees -> {"none", "open", "paid", "taken"}]
    /\ posted \in [driver : Drivers \cup {NoDriver}, amount : 0 .. (BaseFare + PartialFee)]

RestFine == now \in 1 .. MaxTime /\ gone \subseteq Drivers /\ faults \in 0 .. MaxFaults

LEMMA TypeSplit ==
    ASSUME TypeInv
    PROVE  /\ RowFine(booking) /\ CodeFine /\ MoneyFine /\ RestFine
           /\ call \in [Actors -> Calls]
           /\ \A a \in Actors : CallFine(call[a], now)
    BY RowFacts, CallFacts DEF TypeInv, TypeOK, CodeFine, MoneyFine, RestFine, Calls

LEMMA TypeJoin ==
    ASSUME RowFine(booking)', CodeFine', MoneyFine', RestFine',
           call' \in [Actors -> Calls], \A a \in Actors : CallFine(call'[a], now')
    PROVE  TypeInv'
    BY DEF TypeInv, TypeOK, HolderInv, TotalInv, RowFine, CallFine, Calls,
           CodeFine, MoneyFine, RestFine

LEMMA CodeSame ==
    ASSUME TypeInv, UNCHANGED otpVars, cached' \in {0, cached}
    PROVE  CodeFine'
    BY TypeSplit DEF CodeFine, otpVars

LEMMA MoneySame ==
    ASSUME TypeInv, UNCHANGED moneyVars
    PROVE  MoneyFine'
    BY TypeSplit DEF MoneyFine, moneyVars

LEMMA RestSame ==
    ASSUME TypeInv, UNCHANGED <<now, gone, faults>>
    PROVE  RestFine'
    BY TypeSplit DEF RestFine

LEMMA RowSame ==
    ASSUME TypeInv, UNCHANGED booking
    PROVE  RowFine(booking)'
    BY TypeSplit

LEMMA CallsSame ==
    ASSUME TypeInv, UNCHANGED <<now, call>>
    PROVE  call' \in [Actors -> Calls] /\ \A a \in Actors : CallFine(call'[a], now')
    BY TypeSplit

\* The statuses a legal transition can leave, by its target.
LEMMA LegalFrom ==
    ASSUME TypeInv, NEW to \in {"arrived", "in_progress", "completed", "searching", "cancelled"},
           IsLegal(booking.status, to)
    PROVE  /\ to = "arrived" => booking.status \in {"assigned", "en_route"}
           /\ to = "in_progress" => booking.status = "arrived"
           /\ to = "completed" => booking.status = "in_progress"
           /\ to = "searching" => booking.status \in {"assigned", "en_route", "arrived"}
           /\ to = "cancelled" => booking.status \in BeforeStart \cup {"in_progress"}
<1>1. booking.status \in BeforeStart \cup {"in_progress"} \cup Ended
    BY TypeSplit DEF RowFine
<1> QED BY <1>1 DEF IsLegal, LegalTransitions, BeforeStart, Ended

LEMMA TypeInit == Init => TypeInv
<1> SUFFICES ASSUME Init PROVE TypeInv
    OBVIOUS
<1>1. booking \in Row /\ HolderInv /\ booking.total = LockedTotal + booking.waiting
    BY BillNat DEF Init, NoRow, Row, JobStatus, Times, Bill, HolderInv, ActiveJobStatuses,
                   BeforeStart, Ended
<1>2. call \in [Actors -> Calls] /\ \A a \in Actors : CallFine(call[a], now)
    BY NoCallFine DEF Init, CallFine
<1>3. screen \in [Screens -> [pc : {"idle", "mint", "cache"}, code : 0 .. MaxCodes]]
    BY DEF Init, Quiet
<1>4. MaxTime + OtpWindow \in Nat /\ BaseFare + PartialFee \in Nat
    OBVIOUS
<1> QED BY <1>1, <1>2, <1>3, <1>4 DEF Init, TypeInv, TypeOK, TotalInv, CallFine, Calls

LEMMA TypeClock ==
    ASSUME TypeInv, Tick \/ CacheLoses
    PROVE  TypeInv'
<1>1. CASE Tick
  <2>1. now' \in 1 .. MaxTime /\ now' >= now /\ now \in Nat /\ now' \in Nat
      BY <1>1, TypeSplit DEF Tick, RestFine
  <2>2. \A a \in Actors : CallFine(call'[a], now')
      BY <1>1, <2>1, TypeSplit DEF Tick, CallFine, Calls, Times
  <2>3. RowFine(booking)' /\ CodeFine' /\ MoneyFine' /\ RestFine' /\ call' \in [Actors -> Calls]
      BY <1>1, <2>1, TypeSplit, CodeSame, MoneySame, RowSame DEF Tick, RestFine
  <2> QED BY <2>2, <2>3, TypeJoin
<1>2. CASE CacheLoses
    BY <1>2, TypeJoin, CodeSame, MoneySame, RestSame, RowSame, CallsSame DEF CacheLoses
<1> QED BY <1>1, <1>2

\* The calls that move the row: each one's row is well typed again.
LEMMA TypeMoves ==
    ASSUME TypeInv,
           \/ markEnRoute
           \/ \E d \in Drivers : Accept(d)
           \/ \E a \in Actors : Arrived(a) \/ Start(a) \/ finalizeTrip(a) \/ CommitCancel(a)
    PROVE  TypeInv'
<1>0. now \in Times
    BY TypeSplit DEF RestFine, Times
<1>1. CASE markEnRoute
  <2>1. RowFine(booking)'
      BY <1>1, TypeSplit DEF markEnRoute, RowFine, Row, JobStatus, ActiveJobStatuses, BeforeStart, Ended
  <2> QED BY <1>1, <2>1, TypeJoin, CodeSame, MoneySame, RestSame, CallsSame DEF markEnRoute
<1>2. ASSUME NEW d \in Drivers, Accept(d) PROVE TypeInv'
  <2>1. RowFine(booking)'
      BY <1>2, TypeSplit DEF Accept, RowFine, Row, JobStatus, ActiveJobStatuses, BeforeStart, Ended
  <2> QED BY <1>2, <2>1, TypeJoin, CodeSame, MoneySame, RestSame, CallsSame DEF Accept
<1>3. ASSUME NEW a \in Actors, Arrived(a) PROVE TypeInv'
  <2>1. RowFine(booking)'
      BY <1>0, <1>3, TypeSplit, LegalFrom, ZenonT(60)
      DEF Arrived, Transition, RowFine, Row, JobStatus, ActiveJobStatuses, BeforeStart, Ended
  <2> QED BY <1>3, <2>1, TypeJoin, CodeSame, MoneySame, RestSame, EndKept DEF Arrived
<1>4. ASSUME NEW a \in Actors, Start(a) PROVE TypeInv'
  <2>1. RowFine(booking)'
      BY <1>0, <1>4, TypeSplit, LegalFrom, ZenonT(60)
      DEF Start, Transition, RowFine, Row, JobStatus, ActiveJobStatuses, BeforeStart, Ended
  <2> QED BY <1>4, <2>1, TypeJoin, CodeSame, MoneySame, RestSame, EndKept DEF Start
<1>5. ASSUME NEW a \in Actors, finalizeTrip(a) PROVE TypeInv'
  <2> DEFINE job == call[a].job
             w == waitingCharge(Waited(job, call[a].at))
  <2>1. w \in 0 .. (MaxTime * PerMinute) /\ job \in Job
        /\ job.total = LockedTotal + job.waiting
      BY WaitingBound, WaitedType, CallFacts DEF CallFine
  <2>2. job.waiting \in Int /\ LockedTotal \in Int /\ w \in Int
      BY <2>1, BillNat DEF Job, Bill
  <2>3. job.total - job.waiting + w = LockedTotal + w
      BY <2>1, <2>2
  <2>4. Transition("completed", [booking EXCEPT !.waiting = w, !.total = LockedTotal + w])
      BY <1>5, <2>3 DEF finalizeTrip
  <2> HIDE DEF job, w
  <2>5. w \in Bill /\ LockedTotal + w \in Bill
      BY <2>1, BillNat DEF Bill
  <2>6. RowFine(booking)'
    <3>1. CASE ~IsLegal(booking.status, "completed")
        BY <2>4, <3>1, RowFacts DEF Transition
    <3>2. CASE IsLegal(booking.status, "completed")
      <4>1. booking' = [[booking EXCEPT !.waiting = w, !.total = LockedTotal + w]
                           EXCEPT !.status = "completed"]
          BY <2>4, <3>2 DEF Transition
      <4>2. booking' \in Row /\ booking'.status = "completed"
            /\ booking'.total = LockedTotal + booking'.waiting
          BY <2>5, <4>1, RowFacts DEF RowFine, Row, JobStatus
      <4> QED BY <4>2 DEF RowFine, ActiveJobStatuses, BeforeStart, Ended
    <3> QED BY <3>1, <3>2
  <2>7. cached' \in {0, cached}
      BY <1>5 DEF finalizeTrip
  <2> QED BY <1>5, <2>6, <2>7, TypeJoin, CodeSame, MoneySame, RestSame, EndKept DEF finalizeTrip
<1>6. ASSUME NEW a \in Actors, CommitCancel(a) PROVE TypeInv'
  <2> DEFINE due == call[a].due
             by == IF a = Customer THEN "customer" ELSE "admin"
  <2>1. due \in Due /\ by \in {"nobody", "customer", "admin"}
      BY CallFacts, SMTT(40)
  <2>2. Transition("cancelled", [booking EXCEPT !.fee = due.fee, !.comp = due.comp, !.by = by])
      BY <1>6, ZenonT(60) DEF CommitCancel
  <2>3. call' = [call EXCEPT ![a].op = "compensate"] \/ End(a)
      BY <1>6 DEF CommitCancel
  <2> HIDE DEF due, by
  <2>4. RowFine(booking)'
    <3>1. CASE ~IsLegal(booking.status, "cancelled")
        BY <2>2, <3>1, RowFacts DEF Transition
    <3>2. CASE IsLegal(booking.status, "cancelled")
      <4>1. booking' = [[booking EXCEPT !.fee = due.fee, !.comp = due.comp, !.by = by]
                           EXCEPT !.status = "cancelled"]
          BY <2>2, <3>2 DEF Transition
      <4>2. booking' \in Row /\ booking'.status = "cancelled"
            /\ booking'.total = LockedTotal + booking'.waiting
          BY <2>1, <4>1, RowFacts DEF RowFine, Row, Due, JobStatus
      <4> QED BY <4>2 DEF RowFine, ActiveJobStatuses, BeforeStart, Ended
    <3> QED BY <3>1, <3>2
  <2>5. cached' \in {0, cached}
      BY <1>6 DEF CommitCancel
  <2>6. call' \in [Actors -> Calls] /\ \A b \in Actors : CallFine(call'[b], now')
      BY <1>6, <2>3, EndKept, OpKept DEF CommitCancel, Ops
  <2> QED BY <1>6, <2>4, <2>5, <2>6, TypeJoin, CodeSame, MoneySame, RestSame DEF CommitCancel
<1> QED BY <1>1, <1>2, <1>3, <1>4, <1>5, <1>6

LEMMA FaultType ==
    ASSUME TypeInv, NEW ok, NEW kind, FaultUnless(ok, kind) \/ Fault(kind) \/ UNCHANGED faults
    PROVE  faults' \in 0 .. MaxFaults
    BY TypeSplit DEF FaultUnless, Fault, RestFine

LEMMA TypeBackToSearch ==
    ASSUME TypeInv, NEW a \in Actors, BackToSearch(a)
    PROVE  TypeInv'
<1>1. faults' = faults
    BY DEF BackToSearch
<1>2. RowFine(booking)' /\ gone' \subseteq Drivers /\ cached' \in {0, cached}
  <2>1. CASE ~IsLegal(booking.status, "searching")
      BY <2>1, TypeSplit DEF BackToSearch, RestFine
  <2>2. CASE IsLegal(booking.status, "searching")
    <3>1. /\ booking' = [booking EXCEPT !.status = "searching", !.arrivedAt = 0,
                                        !.driver = NoDriver]
          /\ gone' = gone \cup {booking.driver} /\ cached' = 0
        BY <2>2 DEF BackToSearch
    <3>2. booking.driver \in Drivers
        BY <2>2, LegalFrom, RowFacts DEF RowFine, ActiveJobStatuses
    <3>3. /\ booking' \in Row /\ booking'.status = "searching" /\ booking'.driver = NoDriver
          /\ booking'.total = LockedTotal + booking'.waiting
      <4>1. 0 \in Times /\ "searching" \in JobStatus /\ NoDriver \in Drivers \cup {NoDriver}
          BY DEF Times, JobStatus
      <4>2. booking \in Row /\ booking.total = LockedTotal + booking.waiting
          BY RowFacts DEF RowFine
      <4> QED BY <3>1, <4>1, <4>2 DEF Row
    <3> QED BY <3>1, <3>2, <3>3, TypeSplit
            DEF RowFine, ActiveJobStatuses, BeforeStart, Ended, RestFine
  <2> QED BY <2>1, <2>2
<1>3. now' = now /\ End(a) /\ UNCHANGED otpVars /\ UNCHANGED moneyVars
    BY DEF BackToSearch
<1>4. RestFine'
    BY <1>1, <1>2, <1>3, TypeSplit DEF RestFine
<1> QED BY <1>2, <1>3, <1>4, TypeJoin, CodeSame, MoneySame, EndKept

\* The calls that only begin, go on or die.
LEMMA TypeCalls ==
    ASSUME TypeInv,
           \/ CustomerCancels \/ OperatorCalls
           \/ \E d \in Drivers : DriverCalls(d)
           \/ \E a \in Actors : Die(a)
    PROVE  TypeInv'
<1> DEFINE Kept == call' \in [Actors -> Calls] /\ \A b \in Actors : CallFine(call'[b], now')
<1>1. SUFFICES Kept
  <2>1. UNCHANGED <<now, booking, gone, cached, otpVars, moneyVars, faults>>
      BY DEF CustomerCancels, OperatorCalls, DriverCalls, Die
  <2> QED BY <1>1, <2>1, TypeJoin, CodeSame, MoneySame, RestSame, RowSame
<1>2. now' = now /\ Operator \in Actors /\ Customer \in Actors /\ Drivers \subseteq Actors
    BY DEF CustomerCancels, OperatorCalls, DriverCalls, Die, Actors
<1>3. Policy(booking, now) \in Due
    BY RowFacts, PolicyType DEF RowFine, Row
<1>4. CASE CustomerCancels
  <2> DEFINE due == Policy(booking, now)
             op == IF due.fee = 0 THEN "commit" ELSE "pay"
  <2>1. call' = [call EXCEPT ![Customer] = [NoCall EXCEPT !.op = op, !.due = due]]
      BY <1>4 DEF CustomerCancels
  <2>2. op \in Ops
      BY DEF Ops
  <2> HIDE DEF due, op
  <2>3. due \in Due
      BY <1>3 DEF due
  <2> QED BY <1>2, <2>1, <2>2, <2>3, PricedFine, CallsKept
<1>5. CASE OperatorCalls
  <2>1. CASE \E op \in {"arrived", "start"} : Begin(Operator, op)
      BY <1>2, <2>1, BeginKept DEF Ops
  <2>2. CASE call' = [call EXCEPT ![Operator] = [NoCall EXCEPT !.op = "complete", !.at = now,
                                                               !.job = JobOf(booking)]]
      BY <1>2, <2>2, CompletionFine, CallsKept
  <2>3. CASE Begin(Operator, "reassign")
      BY <1>2, <2>3, BeginKept DEF Ops
  <2>4. ASSUME NEW applies \in BOOLEAN, NEW compensates \in BOOLEAN,
               call' = [call EXCEPT ![Operator] = [NoCall EXCEPT !.op = "commit",
                        !.due = [fee |-> IF applies THEN Policy(booking, now).fee ELSE 0,
                                 payee |-> Policy(booking, now).payee,
                                 comp |-> IF applies \/ compensates
                                              THEN Policy(booking, now).comp ELSE 0]]]
        PROVE Kept
    <3> DEFINE due == [fee |-> IF applies THEN Policy(booking, now).fee ELSE 0,
                       payee |-> Policy(booking, now).payee,
                       comp |-> IF applies \/ compensates THEN Policy(booking, now).comp ELSE 0]
    <3>1. due \in Due
        BY <1>3 DEF Due
    <3>2. call' = [call EXCEPT ![Operator] = [NoCall EXCEPT !.op = "commit", !.due = due]]
        BY <2>4
    <3> HIDE DEF due
    <3> QED BY <1>2, <3>1, <3>2, PricedFine, CallsKept DEF Ops
  <2> QED BY <1>5, <2>1, <2>2, <2>3, <2>4 DEF OperatorCalls
<1>6. ASSUME NEW d \in Drivers, DriverCalls(d) PROVE Kept
  <2>1. CASE \E op \in {"arrived", "otp", "unable"} : Begin(d, op)
      BY <1>2, <2>1, BeginKept DEF Ops
  <2>2. CASE call' = [call EXCEPT ![d] = [NoCall EXCEPT !.op = "complete", !.at = now,
                                                        !.job = JobOf(booking)]]
      BY <1>2, <2>2, CompletionFine, CallsKept
  <2> QED BY <1>6, <2>1, <2>2 DEF DriverCalls
<1>7. ASSUME NEW a \in Actors, Die(a) PROVE Kept
    BY <1>2, <1>7, EndKept DEF Die
<1> QED BY <1>4, <1>5, <1>6, <1>7

\* The code: a guess, and the requests for it.
LEMMA TypeCode ==
    ASSUME TypeInv,
           \/ \E d \in Drivers, code \in {shown, WrongCode} : verify(d, code)
           \/ \E s \in Screens : issue(s) \/ renew(s) \/ mint(s) \/ cache(s)
    PROVE  TypeInv'
<1>1. CodeFine /\ now \in 1 .. MaxTime /\ MaxTime \in Nat
    BY TypeSplit DEF RestFine
<1>2. ASSUME NEW d \in Drivers, NEW code, verify(d, code) PROVE TypeInv'
  <2>1. CodeFine'
      BY <1>1, <1>2 DEF verify, CodeFine
  <2>2. d \in Actors /\ (Begin(d, "start") \/ End(d))
        /\ UNCHANGED <<now, booking, gone, faults>> /\ UNCHANGED moneyVars
      BY <1>2 DEF verify, Actors
  <2>3. call' \in [Actors -> Calls] /\ \A b \in Actors : CallFine(call'[b], now')
      BY <2>2, EndKept, BeginKept DEF Ops
  <2> QED BY <2>1, <2>2, <2>3, TypeJoin, MoneySame, RestSame, RowSame
<1>3. ASSUME NEW s \in Screens, issue(s) \/ renew(s) \/ mint(s) PROVE TypeInv'
  <2>1. CodeFine'
    <3>1. CASE issue(s)
        BY <1>1, <3>1 DEF issue, CodeFine
    <3>2. CASE renew(s)
        BY <1>1, <3>2 DEF renew, CodeFine
    <3>3. CASE mint(s)
        BY <1>1, <3>3 DEF mint, CodeFine
    <3> QED BY <1>3, <3>1, <3>2, <3>3
  <2>2. UNCHANGED <<now, booking, gone, call, faults>> /\ UNCHANGED moneyVars
      BY <1>3 DEF issue, renew, mint
  <2> QED BY <2>1, <2>2, TypeJoin, MoneySame, RestSame, RowSame, CallsSame
<1>4. ASSUME NEW s \in Screens, cache(s) PROVE TypeInv'
  <2>1. CodeFine'
      BY <1>1, <1>4 DEF cache, CodeFine, Quiet, Cached
  <2>2. UNCHANGED <<now, booking, gone, call>> /\ UNCHANGED moneyVars
      BY <1>4 DEF cache
  <2>3. RestFine'
      BY <1>4, <2>2, FaultType, TypeSplit DEF cache, RestFine
  <2> QED BY <2>1, <2>2, <2>3, TypeJoin, MoneySame, RowSame, CallsSame
<1> QED BY <1>2, <1>3, <1>4

\* The fee and the compensation.
LEMMA TypeMoney ==
    ASSUME TypeInv,
           \/ OpenFee \/ SweepFailsFee \/ PayCancellation
           \/ \E p \in Fees : PayFee(p) \/ FeeConfirmed(p)
           \/ \E a \in Actors : Compensate(a)
    PROVE  TypeInv'
<1>1. MoneyFine
    BY TypeSplit
<1>2. Policy(booking, now) \in Due
    BY RowFacts, PolicyType DEF RowFine, Row
<1>3. ASSUME OpenFee \/ SweepFailsFee \/ \E p \in Fees : PayFee(p) PROVE TypeInv'
  <2>1. MoneyFine'
    <3>1. CASE OpenFee
      <4>1. Policy(booking, now).fee \in Fees
          BY <3>1, FeeBound DEF OpenFee, Policy, Fees
      <4> QED BY <1>1, <3>1, <4>1 DEF OpenFee, MoneyFine
    <3>2. CASE SweepFailsFee
        BY <1>1, <3>2 DEF SweepFailsFee, MoneyFine
    <3>3. ASSUME NEW p \in Fees, PayFee(p) PROVE MoneyFine'
        BY <1>1, <3>3 DEF PayFee, MoneyFine
    <3> QED BY <1>3, <3>1, <3>2, <3>3
  <2>2. UNCHANGED <<now, booking, gone, call, cached, faults>> /\ UNCHANGED otpVars
      BY <1>3 DEF OpenFee, PayFee, SweepFailsFee
  <2> QED BY <2>1, <2>2, TypeJoin, CodeSame, RestSame, RowSame, CallsSame
<1>4. ASSUME NEW p \in Fees, FeeConfirmed(p) PROVE TypeInv'
  <2>1. MoneyFine'
      BY <1>1, <1>4 DEF FeeConfirmed, MoneyFine
  <2>2. RowFine(booking)'
      BY <1>4, RowFacts
      DEF FeeConfirmed, RowFine, Row, JobStatus, ActiveJobStatuses, BeforeStart, Ended
  <2> QED BY <1>4, <2>1, <2>2, TypeJoin, CodeSame, RestSame, CallsSame DEF FeeConfirmed
<1>5. CASE PayCancellation
  <2>1. MoneyFine' /\ faults' \in 0 .. MaxFaults
    <3>1. ASSUME NEW p \in Fees, capture(p, call[Customer].due.fee), posted' = posted
          PROVE  MoneyFine' /\ faults' \in 0 .. MaxFaults
        BY <1>1, <3>1, FaultType DEF capture, MoneyFine
    <3>2. CASE UNCHANGED <<feeRow, orders, faults, posted>>
        BY <1>1, <3>2, FaultType DEF MoneyFine
    <3> QED BY <1>5, <3>1, <3>2 DEF PayCancellation
  <2>2. UNCHANGED <<now, booking, gone, cached>> /\ UNCHANGED otpVars
        /\ (call' = [call EXCEPT ![Customer].op = "commit"] \/ End(Customer))
      BY <1>5 DEF PayCancellation
  <2>3. call' \in [Actors -> Calls] /\ \A b \in Actors : CallFine(call'[b], now')
      BY <2>2, EndKept, OpKept DEF Ops, Actors
  <2>4. RestFine'
      BY <2>1, <2>2, TypeSplit DEF RestFine
  <2> QED BY <2>1, <2>2, <2>3, <2>4, TypeJoin, CodeSame, RowSame
<1>6. ASSUME NEW a \in Actors, Compensate(a) PROVE TypeInv'
  <2>1. call[a].due \in Due
      BY CallFacts
  <2>2. MoneyFine'
      BY <1>1, <1>6, <2>1 DEF Compensate, MoneyFine, Due
  <2> QED BY <1>6, <2>2, TypeJoin, CodeSame, RestSame, RowSame, EndKept DEF Compensate
<1> QED BY <1>3, <1>4, <1>5, <1>6

LEMMA TypeStep == TypeInv /\ [Next]_vars => TypeInv'
<1> SUFFICES ASSUME TypeInv, [Next]_vars PROVE TypeInv'
    OBVIOUS
<1>1. CASE UNCHANGED vars
  <2>1. UNCHANGED <<now, booking, gone, call, cached, otpVars, moneyVars, faults>>
      BY <1>1 DEF vars, otpVars, moneyVars
  <2> QED BY <2>1, TypeJoin, CodeSame, MoneySame, RestSame, RowSame, CallsSame
<1>2. CASE Next
  <2>1. Operator \in Actors /\ Drivers \subseteq Actors
      BY DEF Actors
  <2> QED BY <1>2, <2>1, TypeClock, TypeMoves, TypeBackToSearch, TypeCalls, TypeCode, TypeMoney
      DEF Next, DriverStep, unable, reassign
<1> QED BY <1>1, <1>2

LEMMA TypeInvariance == Spec => []TypeInv
    BY TypeInit, TypeStep, PTL DEF Spec

\* Types: every call, whatever row it read, writes a well-typed row; the bill
\* stays within the locked total and the waiting of the whole clock, and the
\* compensation within the fee (finalizeTrip, cancellationPolicy).
THEOREM TripsTypeCorrect == Spec => []TypeOK
<1>1. TypeInv => TypeOK
    BY DEF TypeInv
<1> QED BY <1>1, TypeInvariance, PTL

-----------------------------------------------------------------------------
(* The code                                                                *)

\* Nothing but a guess and a request for the code touches the code; the rest
\* can only drop the readable copy.
LEMMA CodeFrame ==
    ASSUME [Next]_vars
    PROVE  \/ UNCHANGED otpVars /\ cached' \in {0, cached}
           \/ \E d \in Drivers, code \in {shown, WrongCode} : verify(d, code)
           \/ \E s \in Screens : issue(s) \/ renew(s) \/ mint(s) \/ cache(s)
<1> DEFINE Goal == UNCHANGED otpVars /\ cached' \in {0, cached}
<1>1. CASE UNCHANGED vars
    BY <1>1 DEF vars, otpVars
<1>2. CASE Tick \/ markEnRoute \/ OpenFee \/ SweepFailsFee \/ CacheLoses
    BY <1>2 DEF Tick, markEnRoute, OpenFee, SweepFailsFee, CacheLoses
<1>8. ASSUME NEW p, PayFee(p) \/ FeeConfirmed(p) PROVE Goal
    BY <1>8 DEF PayFee, FeeConfirmed
<1>3. CASE CustomerCancels \/ PayCancellation \/ OperatorCalls
    BY <1>3 DEF CustomerCancels, PayCancellation, OperatorCalls
<1>4. ASSUME NEW a, BackToSearch(a) PROVE Goal
    BY <1>4 DEF BackToSearch
<1>5. ASSUME NEW a, Accept(a) \/ DriverCalls(a) PROVE Goal
    BY <1>5 DEF Accept, DriverCalls
<1>6. ASSUME NEW a, Arrived(a) \/ Start(a) \/ finalizeTrip(a) PROVE Goal
    BY <1>6 DEF Arrived, Start, finalizeTrip
<1>7. ASSUME NEW a, Die(a) \/ CommitCancel(a) \/ Compensate(a) PROVE Goal
    BY <1>7 DEF Die, CommitCancel, Compensate
<1> QED BY <1>1, <1>2, <1>3, <1>4, <1>5, <1>6, <1>7, <1>8 DEF Next, DriverStep, unable, reassign

LEMMA GuessStep == TypeInv /\ GuessInv /\ [Next]_vars => GuessInv'
<1> SUFFICES ASSUME TypeInv, GuessInv, [Next]_vars PROVE GuessInv'
    OBVIOUS
<1>1. compared \in Nat /\ otp.attempts \in 0 .. MaxAttempts /\ compared <= otp.attempts
    BY TypeSplit DEF CodeFine, GuessInv
<1>2. CASE UNCHANGED otpVars
    BY <1>2 DEF otpVars, GuessInv
<1>3. ASSUME NEW d, NEW code, verify(d, code) PROVE GuessInv'
  <2>1. otp'.attempts = IF otp.attempts < MaxAttempts THEN otp.attempts + 1 ELSE otp.attempts
      BY <1>3, TypeSplit DEF verify, CodeFine
  <2>2. compared' = compared \/ (compared' = compared + 1 /\ otp.attempts < MaxAttempts)
      BY <1>3 DEF verify
  <2> QED BY <1>1, <2>1, <2>2 DEF GuessInv
<1>4. ASSUME NEW s, mint(s) PROVE GuessInv'
    BY <1>1, <1>4 DEF mint, GuessInv
<1>5. ASSUME NEW s, issue(s) \/ renew(s) \/ cache(s) PROVE GuessInv'
    BY <1>5 DEF issue, renew, cache, GuessInv
<1> QED BY <1>2, <1>3, <1>4, <1>5, CodeFrame

\* No code is compared with more guesses than the limit, by all drivers and
\* calls together, whatever requests renew it and whatever faults happen: the
\* attempt is counted by the statement that reads the code (verify).
THEOREM CodeIsGuarded == Spec => []GuessesAreCapped
<1>1. Init => GuessInv
    BY DEF Init, GuessInv
<1>2. TypeInv /\ GuessInv => GuessesAreCapped
    BY DEF TypeInv, TypeOK, GuessInv, GuessesAreCapped
<1> QED BY <1>1, <1>2, GuessStep, TypeInvariance, PTL DEF Spec

\* One request for the code at a time, and a Redis that takes every write.
OneScreen == "redis" \notin Faults /\ \A s, t \in Screens : s = t

LEMMA CodeStep ==
    ASSUME OneScreen, TypeInv, CodeInv, [Next]_vars
    PROVE  CodeInv'
<1>1. CodeFine
    BY TypeSplit
<1>2. CASE UNCHANGED otpVars /\ cached' \in {0, cached}
    BY <1>2 DEF otpVars, CodeInv
<1>3. ASSUME NEW d, NEW code, verify(d, code) PROVE CodeInv'
  <2>1. otp'.code = otp.code /\ UNCHANGED <<cached, screen, shown>>
      BY <1>1, <1>3 DEF verify, CodeFine
  <2> QED BY <2>1 DEF CodeInv
<1>4. ASSUME NEW s \in Screens, issue(s) \/ renew(s) PROVE CodeInv'
  <2>1. /\ screen[s].pc = "idle" /\ UNCHANGED <<otp, cached>>
        /\ shown' \in {shown, cached}
        /\ screen' = screen \/ screen' = [screen EXCEPT ![s].pc = "mint"]
      BY <1>4 DEF issue, renew
  <2>2. \A t \in Screens : screen[t].pc # "cache" /\ screen'[t].pc # "cache"
      BY <1>1, <2>1 DEF OneScreen, CodeFine
  <2> QED BY <2>1, <2>2 DEF CodeInv
<1>5. ASSUME NEW s \in Screens, mint(s) PROVE CodeInv'
  <2>1. screen'[s] = [pc |-> "cache", code |-> otp.code + 1] /\ otp'.code = otp.code + 1
      BY <1>1, <1>5 DEF mint, CodeFine
  <2> QED BY <2>1 DEF OneScreen, CodeInv
<1>6. ASSUME NEW s \in Screens, cache(s) PROVE CodeInv'
  <2>1. screen[s].code = otp.code /\ UNCHANGED otp
      BY <1>6 DEF cache, CodeInv
  <2>2. cached' = otp.code /\ shown' = otp.code /\ screen'[s] = Quiet
      BY <1>1, <1>6, <2>1 DEF cache, Cached, Fault, OneScreen, CodeFine
  <2> QED BY <2>1, <2>2 DEF OneScreen, CodeInv, Quiet
<1> QED BY <1>2, <1>3, <1>4, <1>5, <1>6, CodeFrame

\* While the customer's app has one request for the code at a time and Redis
\* takes the writes, the code on the screen is the one that opens the job,
\* through renewals, evictions, changes of driver and endings (issue, renew,
\* mint, cache).
THEOREM CodeOnScreenOpens ==
    ASSUME OneScreen PROVE Spec => []ShownCodeOpens
<1>1. Init => CodeInv
    BY DEF Init, CodeInv, Quiet
<1>2. TypeInv /\ CodeInv /\ [Next]_vars => CodeInv'
    BY CodeStep
<1>3. CodeInv => ShownCodeOpens
    BY DEF CodeInv, ShownCodeOpens
<1> QED BY <1>1, <1>2, <1>3, TypeInvariance, PTL DEF Spec

-----------------------------------------------------------------------------
(* The bill                                                                *)

Completion == [NoCall EXCEPT !.op = "complete", !.at = now, !.job = JobOf(booking)]

\* A call that goes on, ends, or begins on the row as it is.
CallMoves(a) ==
    /\ \/ call'[a] = call[a]
       \/ call'[a].op # "complete"
       \/ call'[a] = Completion /\ a # Customer /\ (a = Operator => booking.status = "in_progress")
    /\ a \in Drivers /\ call'[a].op # "none" => call[a].op # "none" \/ booking.driver = a

LEMMA EndMoves ==
    ASSUME TypeInv, NEW a \in Actors, End(a)
    PROVE  \A b \in Actors : CallMoves(b)
<1>1. call \in [Actors -> Calls]
    BY TypeSplit
<1> QED BY <1>1 DEF End, NoCall, CallMoves

\* A step moves the row or the clock, or it is a call's own business.
LEMMA CallFrame ==
    ASSUME TypeInv, [Next]_vars
    PROVE  \/ Tick \/ markEnRoute
           \/ \E p \in Fees : FeeConfirmed(p)
           \/ \E d \in Drivers : Accept(d)
           \/ \E a \in Drivers \cup {Operator} : BackToSearch(a)
           \/ \E a \in Actors : Arrived(a) \/ Start(a) \/ finalizeTrip(a) \/ CommitCancel(a)
           \/ UNCHANGED <<now, booking, gone>> /\ \A a \in Actors : CallMoves(a)
<1> DEFINE Goal == UNCHANGED <<now, booking, gone>> /\ \A a \in Actors : CallMoves(a)
<1>0. call \in [Actors -> Calls] /\ Operator \in Actors /\ Customer \in Actors
      /\ Drivers \subseteq Actors
    BY TypeSplit DEF Actors
<1>1. ASSUME UNCHANGED <<now, booking, gone, call>> PROVE Goal
    BY <1>1 DEF CallMoves
<1>2. CASE UNCHANGED vars
    BY <1>1, <1>2 DEF vars
<1>3. CASE OpenFee \/ SweepFailsFee \/ CacheLoses \/ \E p \in Fees : PayFee(p)
    BY <1>1, <1>3 DEF OpenFee, PayFee, SweepFailsFee, CacheLoses
<1>4. ASSUME NEW s, issue(s) \/ renew(s) \/ mint(s) \/ cache(s) PROVE Goal
    BY <1>1, <1>4 DEF issue, renew, mint, cache
<1>5. CASE CustomerCancels
    BY <1>0, <1>5 DEF CustomerCancels, CallMoves, NoCall
<1>6. CASE PayCancellation
  <2>1. call' = [call EXCEPT ![Customer].op = "commit"] \/ End(Customer)
      BY <1>6 DEF PayCancellation
  <2>2. call'[Customer].op # "complete" /\ \A a \in Actors \ {Customer} : call'[a] = call[a]
      BY <1>0, <2>1 DEF End, NoCall, Calls
  <2> QED BY <1>0, <1>6, <2>2 DEF PayCancellation, CallMoves, Actors
<1>7. CASE OperatorCalls
  <2>1. UNCHANGED <<now, booking, gone>> /\ \A a \in Actors \ {Operator} : call'[a] = call[a]
      BY <1>0, <1>7 DEF OperatorCalls, Begin
  <2>2. \/ call'[Operator].op # "complete"
        \/ call'[Operator] = Completion /\ booking.status = "in_progress"
    <3>1. CASE \E op \in {"arrived", "start", "reassign"} : Begin(Operator, op)
        BY <1>0, <3>1 DEF Begin, NoCall
    <3>2. CASE <<booking.status, "complete">> \in OverrideEdges
               /\ call' = [call EXCEPT ![Operator] = Completion]
        BY <1>0, <3>2 DEF OverrideEdges
    <3>3. CASE \E due : call' = [call EXCEPT ![Operator] =
                                     [NoCall EXCEPT !.op = "commit", !.due = due]]
        BY <1>0, <3>3 DEF NoCall
    <3> QED BY <1>7, <3>1, <3>2, <3>3 DEF OperatorCalls, Completion
  <2> QED BY <1>0, <2>1, <2>2 DEF CallMoves
<1>8. ASSUME NEW d \in Drivers, DriverCalls(d) PROVE Goal
  <2>1. UNCHANGED <<now, booking, gone>> /\ (\A a \in Actors \ {d} : call'[a] = call[a])
        /\ booking.driver = d
      BY <1>0, <1>8 DEF DriverCalls, Begin, requireDriverJob
  <2>2. call'[d].op # "complete" \/ call'[d] = Completion
      BY <1>0, <1>8 DEF DriverCalls, Begin, NoCall, Completion
  <2> QED BY <1>0, <2>1, <2>2 DEF CallMoves
<1>9. ASSUME NEW d \in Drivers, NEW code, verify(d, code) PROVE Goal
  <2>1. UNCHANGED <<now, booking, gone>> /\ (Begin(d, "start") \/ End(d)) /\ call[d].op = "otp"
      BY <1>9 DEF verify
  <2> QED BY <1>0, <2>1 DEF Begin, End, NoCall, CallMoves
<1>10. ASSUME NEW a \in Actors, Die(a) \/ Compensate(a) PROVE Goal
    BY <1>10, EndMoves DEF Die, Compensate
<1> QED BY <1>2, <1>3, <1>4, <1>5, <1>6, <1>7, <1>8, <1>9, <1>10
        DEF Next, DriverStep, unable, reassign

LEMMA RowNumbers ==
    ASSUME TypeInv
    PROVE  /\ now \in Nat /\ now # 0
           /\ booking.arrivedAt \in Nat /\ booking.startedAt \in Nat
           /\ booking.waiting \in Nat /\ booking.total = LockedTotal + booking.waiting
    BY TypeSplit, BillNat DEF RowFine, Row, Times, Bill, RestFine

LEMMA CallNumbers ==
    ASSUME TypeInv, NEW a \in Actors
    PROVE  /\ call[a].job.arrivedAt \in Nat /\ call[a].job.startedAt \in Nat
           /\ call[a].at \in Nat /\ call[a].at <= now
    BY CallFacts DEF CallFine, Calls, Job, Times

\* Each caller: a call that ends leaves the others as they were.
LEMMA EndCalls ==
    ASSUME TypeInv, NEW a \in Actors, End(a)
    PROVE  call'[a] = NoCall /\ \A b \in Actors \ {a} : call'[b] = call[b]
    BY TypeSplit DEF End

LEMMA CallerStep ==
    ASSUME TypeInv, CallerInv, [Next]_vars
    PROVE  CallerInv'
<1>0. Drivers \subseteq Actors /\ Operator \in Actors
    BY DEF Actors
<1>1. ASSUME booking'.driver = booking.driver, gone' = gone,
             \A d \in Drivers : call'[d].op # "none" => call[d].op # "none" \/ booking.driver = d
      PROVE  CallerInv'
    BY <1>1 DEF CallerInv, InFlight
<1>2. CASE Tick \/ markEnRoute \/ \E p \in Fees : FeeConfirmed(p)
  <2>1. booking'.driver = booking.driver /\ call' = call /\ gone' = gone
      BY <1>2, RowFacts DEF Tick, markEnRoute, FeeConfirmed, RowFine, Row
  <2> QED BY <1>1, <2>1
<1>3. ASSUME NEW d \in Drivers, Accept(d) PROVE CallerInv'
  <2>1. booking.driver = NoDriver /\ call' = call /\ gone' = gone
      BY <1>3, RowFacts DEF Accept, RowFine
  <2>2. \A e \in Drivers : InFlight(e) => e \in gone
      BY <2>1 DEF CallerInv
  <2> QED BY <2>1, <2>2 DEF CallerInv, InFlight
<1>4. ASSUME NEW a \in Drivers \cup {Operator}, BackToSearch(a) PROVE CallerInv'
  <2>1. call'[a] = NoCall /\ \A b \in Actors \ {a} : call'[b] = call[b]
      BY <1>0, <1>4, EndCalls DEF BackToSearch
  <2>2. (booking' = booking /\ gone' = gone) \/ gone' = gone \cup {booking.driver}
      BY <1>4 DEF BackToSearch
  <2> QED BY <1>0, <2>1, <2>2 DEF CallerInv, InFlight, NoCall
<1>5. ASSUME NEW a \in Actors, Arrived(a) \/ Start(a) \/ finalizeTrip(a) PROVE CallerInv'
  <2>1. booking'.driver = booking.driver /\ gone' = gone
      BY <1>5, RowFacts DEF Arrived, Start, finalizeTrip, Transition, RowFine, Row
  <2>2. call'[a] = NoCall /\ \A b \in Actors \ {a} : call'[b] = call[b]
      BY <1>5, EndCalls DEF Arrived, Start, finalizeTrip
  <2> QED BY <1>0, <1>1, <2>1, <2>2 DEF NoCall
<1>6. ASSUME NEW a \in Actors, CommitCancel(a) PROVE CallerInv'
  <2>1. booking'.driver = booking.driver /\ gone' = gone
      BY <1>6, RowFacts DEF CommitCancel, Transition, RowFine, Row
  <2>2. call[a].op = "commit" /\ \A b \in Actors \ {a} : call'[b] = call[b]
      BY <1>6, TypeSplit DEF CommitCancel, End
  <2> QED BY <1>0, <1>1, <2>1, <2>2
<1>7. CASE UNCHANGED <<booking, gone>> /\ \A a \in Actors : CallMoves(a)
    BY <1>0, <1>1, <1>7 DEF CallMoves
<1> QED BY <1>2, <1>3, <1>4, <1>5, <1>6, <1>7, CallFrame

\* The waiting a completion charges is no more than the row's own.
LEMMA ChargeWithin ==
    ASSUME TypeInv, TimesInv, NEW a \in Actors, ReadBefore(call[a]),
           booking.status = "in_progress"
    PROVE  LET w == waitingCharge(Waited(call[a].job, call[a].at))
           IN w \in 0 .. waitingCharge(booking.startedAt - booking.arrivedAt)
<1> DEFINE job == call[a].job
           t == call[a].at
<1>1. /\ job.arrivedAt \in Nat /\ job.startedAt \in Nat /\ t \in Nat
      /\ booking.arrivedAt \in Nat /\ booking.startedAt \in Nat
    BY CallNumbers, RowNumbers
<1>2. booking.startedAt # 0 /\ booking.arrivedAt <= booking.startedAt
    BY DEF TimesInv
<1>3. /\ job.arrivedAt \in {0, booking.arrivedAt}
      /\ job.startedAt \in {0, booking.startedAt}
      /\ job.startedAt = 0 => t <= booking.startedAt
    BY <1>2 DEF ReadBefore
<1> HIDE DEF job, t
<1>4. Waited(job, t) \in Nat /\ Waited(job, t) <= booking.startedAt - booking.arrivedAt
      /\ booking.startedAt - booking.arrivedAt \in Nat
    BY <1>1, <1>2, <1>3 DEF Waited
<1> QED BY <1>4, WaitingMonotone DEF job, t

\* A step that leaves the times on the row, and does not go back.
LEMMA BillSame ==
    ASSUME TypeInv, TimesInv, CompletionInv,
           now' = now, call' \in [Actors -> Calls], \A a \in Actors : CallMoves(a),
           booking' = booking
    PROVE  TimesInv' /\ CompletionInv'
<1>1. TimesInv'
    BY DEF TimesInv
<1>2. ASSUME NEW a \in Actors, call'[a].op = "complete"
      PROVE  a # Customer /\ (Ousted(a) \/ ReadBefore(call[a]))'
  <2>1. CASE call'[a] = call[a]
      BY <1>2, <2>1 DEF CompletionInv, ReadBefore, Ousted
  <2>2. CASE call'[a] = Completion /\ a # Customer
    <3>1. call'[a].job = JobOf(booking)
        BY <2>2 DEF Completion, NoCall
    <3>2. call'[a].job.arrivedAt = booking.arrivedAt /\ call'[a].job.startedAt = booking.startedAt
        BY <3>1 DEF JobOf
    <3> QED BY <2>2, <3>2 DEF ReadBefore
  <2> QED BY <1>2, <2>1, <2>2 DEF CallMoves
<1>3. call'[Operator].op = "complete" => booking'.status \notin BeforeStart
    BY DEF CallMoves, CompletionInv, Actors, BeforeStart
<1> QED BY <1>1, <1>2, <1>3 DEF CompletionInv

\* A step in which the calls go on as they were or end.
OnlyEnds == \A b \in Actors : call'[b] = call[b] \/ call'[b].op # "complete"

LEMMA BillStep ==
    ASSUME TypeInv, BillInv, [Next]_vars
    PROVE  BillInv'
<1>0. /\ Drivers \subseteq Actors /\ Operator \in Actors
      /\ CallerInv /\ TimesInv /\ CompletionInv
    BY DEF Actors, BillInv
<1>a. now \in Nat /\ now # 0 /\ booking.arrivedAt \in Nat /\ booking.startedAt \in Nat
    BY RowNumbers
<1>b. booking \in Row /\ booking.status \in BeforeStart \cup {"in_progress"} \cup Ended
    BY RowFacts DEF RowFine
<1> SUFFICES TimesInv' /\ CompletionInv'
    BY <1>0, CallerStep DEF BillInv
<1>1. CASE Tick
  <2>1. booking' = booking /\ call' = call /\ now' = now + 1
      BY <1>1 DEF Tick
  <2>2. TimesInv'
      BY <1>0, <1>a, <2>1 DEF TimesInv
  <2>3. CompletionInv'
      BY <1>0, <2>1 DEF CompletionInv, ReadBefore, Ousted
  <2> QED BY <2>2, <2>3
<1>2. ASSUME call' = call, now' = now,
             booking'.arrivedAt = booking.arrivedAt, booking'.startedAt = booking.startedAt,
             booking.status \in {"searching", "assigned"},
             booking'.status \in {"assigned", "en_route"},
             \A d \in Drivers : InFlight(d) => booking'.driver = booking.driver \/ booking'.driver # d
      PROVE  TimesInv' /\ CompletionInv'
  <2>1. TimesInv'
      BY <1>0, <1>2 DEF TimesInv, BeforeStart
  <2>2. CompletionInv'
      BY <1>0, <1>2 DEF CompletionInv, ReadBefore, Ousted, BeforeStart, InFlight
  <2> QED BY <2>1, <2>2
<1>3. CASE markEnRoute
    BY <1>b, <1>2, <1>3 DEF markEnRoute, Row
<1>13. ASSUME NEW d \in Drivers, Accept(d)
       PROVE  TimesInv' /\ CompletionInv'
  <2>1. /\ booking.status = "searching" /\ booking'.status = "assigned"
        /\ booking'.arrivedAt = booking.arrivedAt /\ booking'.startedAt = booking.startedAt
        /\ call' = call /\ now' = now /\ booking'.driver = d /\ d \notin gone
      BY <1>b, <1>13 DEF Accept, Row
  <2>2. booking.driver = NoDriver
      BY <2>1, RowFacts DEF RowFine
  <2>3. ~InFlight(d)
      BY <1>0, <2>1, <2>2 DEF CallerInv
  <2> QED BY <1>2, <2>1, <2>3
<1>4. ASSUME UNCHANGED now, OnlyEnds,
             booking'.arrivedAt = booking.arrivedAt, booking'.startedAt = booking.startedAt,
             booking'.driver = booking.driver,
             \/ booking.status = "completed" /\ booking'.status = "paid"
             \/ booking'.status = "cancelled"
             \/ booking' = booking
      PROVE  TimesInv' /\ CompletionInv'
  <2>1. TimesInv'
      BY <1>0, <1>4 DEF TimesInv, BeforeStart
  <2>2. CompletionInv'
      BY <1>0, <1>4 DEF CompletionInv, ReadBefore, Ousted, BeforeStart, OnlyEnds
  <2> QED BY <2>1, <2>2
<1>5. ASSUME NEW p, FeeConfirmed(p) PROVE TimesInv' /\ CompletionInv'
    BY <1>b, <1>4, <1>5 DEF FeeConfirmed, Row, OnlyEnds
<1>6. ASSUME NEW a \in Actors, CommitCancel(a)
      PROVE  TimesInv' /\ CompletionInv'
  <2>1. OnlyEnds
    <3>1. call' = [call EXCEPT ![a].op = "compensate"] \/ End(a)
        BY <1>6 DEF CommitCancel
    <3> QED BY <3>1, TypeSplit DEF OnlyEnds, End, NoCall, Calls
  <2>2. /\ booking'.arrivedAt = booking.arrivedAt /\ booking'.startedAt = booking.startedAt
        /\ booking'.driver = booking.driver
        /\ booking' = booking \/ booking'.status = "cancelled"
      BY <1>b, <1>6, ZenonT(60) DEF CommitCancel, Transition, Row
  <2>3. UNCHANGED now
      BY <1>6 DEF CommitCancel
  <2> QED BY <1>4, <2>1, <2>2, <2>3
<1>7. ASSUME NEW a \in Actors, Arrived(a) \/ Start(a) \/ finalizeTrip(a) \/ BackToSearch(a)
      PROVE  OnlyEnds /\ UNCHANGED now /\ call'[a].op = "none"
             /\ \A b \in Actors \ {a} : call'[b] = call[b]
  <2>1. End(a) /\ UNCHANGED now
      BY <1>7 DEF Arrived, Start, finalizeTrip, BackToSearch
  <2>2. call'[a] = NoCall /\ \A b \in Actors \ {a} : call'[b] = call[b]
      BY <2>1, EndCalls
  <2>3. NoCall.op = "none"
      BY DEF NoCall
  <2> QED BY <2>1, <2>2, <2>3 DEF OnlyEnds
<1>8. ASSUME NEW a \in Actors, Arrived(a)
      PROVE  TimesInv' /\ CompletionInv'
  <2>1. CASE booking' = booking
      BY <1>4, <1>7, <1>8, <2>1
  <2>2. CASE booking' # booking
    <3>1. /\ booking.status \in {"assigned", "en_route"} /\ booking'.status = "arrived"
          /\ booking'.arrivedAt = now /\ booking'.startedAt = booking.startedAt
          /\ booking'.driver = booking.driver
        BY <1>b, <1>8, <2>2, LegalFrom DEF Arrived, Transition, Row
    <3>2. booking.arrivedAt = 0 /\ booking.startedAt = 0
        BY <1>0, <3>1 DEF TimesInv, BeforeStart
    <3>3. TimesInv'
        BY <1>a, <1>7, <1>8, <3>1, <3>2 DEF TimesInv, BeforeStart
    <3>4. CompletionInv'
        BY <1>0, <1>7, <1>8, <3>1, <3>2
        DEF CompletionInv, ReadBefore, Ousted, BeforeStart, OnlyEnds
    <3> QED BY <3>3, <3>4
  <2> QED BY <2>1, <2>2
<1>9. ASSUME NEW a \in Actors, Start(a)
      PROVE  TimesInv' /\ CompletionInv'
  <2>1. CASE booking' = booking
      BY <1>4, <1>7, <1>9, <2>1
  <2>2. CASE booking' # booking
    <3>1. /\ booking.status = "arrived" /\ booking'.status = "in_progress"
          /\ booking'.arrivedAt = booking.arrivedAt /\ booking'.startedAt = now
          /\ booking'.driver = booking.driver
        BY <1>b, <1>9, <2>2, LegalFrom DEF Start, Transition, Row
    <3>2. booking.startedAt = 0
        BY <1>0, <3>1 DEF TimesInv, BeforeStart
    <3>3. TimesInv'
        BY <1>0, <1>a, <1>7, <1>9, <3>1, <3>2 DEF TimesInv, BeforeStart
    <3>4. \A b \in Actors : call[b].at <= now
        BY CallNumbers
    <3>5. CompletionInv'
        BY <1>0, <1>7, <1>9, <3>1, <3>2, <3>4
        DEF CompletionInv, ReadBefore, Ousted, BeforeStart, OnlyEnds
    <3> QED BY <3>3, <3>5
  <2> QED BY <2>1, <2>2
<1>10. ASSUME NEW a \in Actors, finalizeTrip(a)
       PROVE  TimesInv' /\ CompletionInv'
  <2>1. CASE ~IsLegal(booking.status, "completed")
      BY <1>4, <1>7, <1>10, <2>1 DEF finalizeTrip, Transition
  <2>2. CASE IsLegal(booking.status, "completed")
    <3>1. booking.status = "in_progress"
        BY <2>2, LegalFrom
    <3>2. /\ booking'.status = "completed" /\ booking'.driver = booking.driver
          /\ booking'.arrivedAt = booking.arrivedAt /\ booking'.startedAt = booking.startedAt
        BY <1>b, <1>10, <2>2 DEF finalizeTrip, Transition, Row
    <3>3. TimesInv'
        BY <1>0, <1>7, <1>10, <3>1, <3>2 DEF TimesInv, BeforeStart
    <3>4. CompletionInv'
        BY <1>0, <1>7, <1>10, <3>2
        DEF CompletionInv, ReadBefore, Ousted, BeforeStart, OnlyEnds
    <3> QED BY <3>3, <3>4
  <2> QED BY <2>1, <2>2
<1>11. ASSUME NEW a \in Drivers \cup {Operator}, BackToSearch(a)
       PROVE  TimesInv' /\ CompletionInv'
  <2>0. a \in Actors
      BY <1>0
  <2>1. CASE ~IsLegal(booking.status, "searching")
      BY <1>4, <1>7, <1>11, <2>0, <2>1 DEF BackToSearch
  <2>2. CASE IsLegal(booking.status, "searching")
    <3>1. booking.status \in BeforeStart
        BY <2>2, LegalFrom DEF BeforeStart
    <3>2. /\ booking'.status = "searching" /\ booking'.arrivedAt = 0
          /\ booking'.startedAt = booking.startedAt /\ booking'.driver = NoDriver
        BY <1>b, <1>11, <2>2 DEF BackToSearch, Row
    <3>3. TimesInv'
        BY <1>0, <1>a, <1>7, <1>11, <2>0, <3>1, <3>2 DEF TimesInv, BeforeStart
    <3>4. call'[Operator].op # "complete"
        BY <1>0, <1>7, <1>11, <2>0, <3>1 DEF CompletionInv
    <3>5. ASSUME NEW c \in Actors, call'[c].op = "complete"
          PROVE  c # Customer /\ Ousted(c)'
      <4>1. call[c].op = "complete"
          BY <1>7, <1>11, <2>0, <3>5
      <4>2. c \in Drivers
          BY <1>0, <3>4, <3>5, <4>1 DEF CompletionInv, Actors
      <4> QED BY <1>0, <3>2, <4>1, <4>2 DEF CompletionInv, Ousted
    <3> QED BY <3>3, <3>4, <3>5 DEF CompletionInv
  <2> QED BY <2>1, <2>2
<1>12. CASE UNCHANGED <<now, booking>> /\ \A a \in Actors : CallMoves(a)
  <2>1. call' \in [Actors -> Calls]
      BY TypeStep DEF TypeInv, TypeOK, Calls
  <2> QED BY <1>0, <1>12, <2>1, BillSame
<1> QED BY <1>1, <1>3, <1>5, <1>6, <1>8, <1>9, <1>10, <1>11, <1>12, <1>13, CallFrame

\* The completion itself, by the driver who is on the job or by an operator.
LEMMA CompletionBills ==
    ASSUME TypeInv, BillInv, [Next]_vars, NEW a \in Actors, finalizeTrip(a),
           ~Ousted(a), booking.status # "completed", booking'.status = "completed"
    PROVE  booking'.total - LockedTotal \in
               0 .. waitingCharge(booking'.startedAt - booking'.arrivedAt)
<1> DEFINE w == waitingCharge(Waited(call[a].job, call[a].at))
<1>1. IsLegal(booking.status, "completed")
    BY DEF finalizeTrip, Transition
<1>2. booking.status = "in_progress"
    BY <1>1, LegalFrom
<1>3. booking' = [[booking EXCEPT !.waiting = w,
                                  !.total = call[a].job.total - call[a].job.waiting + w]
                     EXCEPT !.status = "completed"]
    BY <1>1 DEF finalizeTrip, Transition
<1>4. ReadBefore(call[a]) /\ TimesInv
    BY DEF BillInv, CompletionInv, finalizeTrip
<1>5. w \in 0 .. waitingCharge(booking.startedAt - booking.arrivedAt)
    BY <1>2, <1>4, ChargeWithin
<1> HIDE DEF w
<1>6. /\ booking'.waiting = w
      /\ booking'.arrivedAt = booking.arrivedAt /\ booking'.startedAt = booking.startedAt
    BY <1>3, RowFacts DEF RowFine, Row
<1>7. booking'.total = LockedTotal + w
  <2>1. TypeInv'
      BY TypeStep
  <2> QED BY <1>6, <2>1 DEF TypeInv, TotalInv
<1>8. LockedTotal \in Nat /\ w \in Int
    BY <1>5
<1>9. booking'.total - LockedTotal = w
    BY <1>7, <1>8
<1> QED BY <1>5, <1>6, <1>9 DEF waitingCharge

\* Nothing else completes a booking.
LEMMA OnlyCompletions ==
    ASSUME TypeInv, [Next]_vars, NEW a \in Actors,
           call[a].op = "complete", call'[a].op = "none",
           booking.status # "completed", booking'.status = "completed"
    PROVE  finalizeTrip(a)
<1>1. booking \in Row
    BY RowFacts DEF RowFine
<1>2. CASE Tick \/ markEnRoute \/ (\E p \in Fees : FeeConfirmed(p)) \/ \E d \in Drivers : Accept(d)
    BY <1>1, <1>2 DEF Tick, markEnRoute, FeeConfirmed, Accept, Row
<1>3. ASSUME NEW b, BackToSearch(b) \/ Arrived(b) \/ Start(b) \/ CommitCancel(b) PROVE FALSE
    BY <1>1, <1>3 DEF BackToSearch, Arrived, Start, CommitCancel, Transition, Row
<1>4. ASSUME NEW b \in Actors, finalizeTrip(b) PROVE finalizeTrip(a)
  <2>1. \A c \in Actors \ {b} : call'[c] = call[c]
      BY <1>4, EndCalls DEF finalizeTrip
  <2> QED BY <1>4, <2>1
<1> QED BY <1>2, <1>3, <1>4, CallFrame

\* Whoever completes a trip, its driver or an operator, and whatever row he had
\* read, the customer pays the locked total and no more waiting than there was
\* between the arrival and the start, through every hand-back and override
\* (finalizeTrip replaces the waiting inside the total it read).
THEOREM TripIsBilledRight == Spec => BillIsTheTrip
<1>1. Init => BillInv
    BY DEF Init, NoRow, BillInv, CallerInv, TimesInv, CompletionInv, InFlight,
           NoCall, Actors, BeforeStart
<1>2. TypeInv /\ BillInv /\ [Next]_vars => BillInv'
    BY BillStep
<1> DEFINE Billed(a) ==
        /\ call[a].op = "complete" /\ call'[a].op = "none"
        /\ booking.status # "completed" /\ booking'.status = "completed"
        /\ a \in Drivers => booking.driver = a
        => booking'.total - LockedTotal \in
               0 .. waitingCharge(booking'.startedAt - booking'.arrivedAt)
<1>3. TypeInv /\ BillInv /\ [Next]_vars => [\A a \in Actors : Billed(a)]_vars
  <2> SUFFICES ASSUME TypeInv, BillInv, [Next]_vars, NEW a \in Actors,
                      call[a].op = "complete", call'[a].op = "none",
                      booking.status # "completed", booking'.status = "completed",
                      a \in Drivers => booking.driver = a
               PROVE  booking'.total - LockedTotal \in
                          0 .. waitingCharge(booking'.startedAt - booking'.arrivedAt)
      OBVIOUS
  <2>1. finalizeTrip(a)
      BY OnlyCompletions
  <2>2. ~Ousted(a)
      BY DEF Ousted
  <2> QED BY <2>1, <2>2, CompletionBills
<1> QED BY <1>1, <1>2, <1>3, TypeInvariance, PTL DEF Spec, BillIsTheTrip

-----------------------------------------------------------------------------
(* The fee of a cancellation                                               *)

\* The cancelling call does not die between the capture and its commit.
CommitSurvives == "commit" \notin Deaths

\* The vendor says what was paid.
AmountIsSaid == "silent" \notin Faults

\* A step that is neither the customer's cancellation nor about money: calls
\* go on, begin or end, and the row moves to no cancellation.
FeeQuiet ==
    /\ UNCHANGED <<orders, posted>>
    /\ \A b \in Actors : \/ call'[b] = call[b]
                         \/ b # Customer /\ call'[b].op # "compensate"
                         \/ call'[b] = NoCall /\ call[b].op # "commit"
    /\ \/ booking' = booking
       \/ booking.status \notin Ended /\ booking'.status # "cancelled"

LEMMA FeeFrame ==
    ASSUME CommitSurvives, TypeInv, [Next]_vars
    PROVE  \/ OpenFee
           \/ \E p \in Fees : PayFee(p) \/ FeeConfirmed(p)
           \/ CustomerCancels \/ PayCancellation
           \/ \E a \in Actors : CommitCancel(a) \/ Compensate(a)
           \/ FeeQuiet
<1>0. /\ call \in [Actors -> Calls] /\ Operator \in Actors /\ Customer \in Actors
      /\ Drivers \subseteq Actors /\ Customer \notin Drivers /\ Operator # Customer
    BY TypeSplit DEF Actors
<1>1. booking \in Row
    BY RowFacts DEF RowFine
<1>2. CASE UNCHANGED vars
    BY <1>2 DEF vars, FeeQuiet
<1>3. CASE Tick \/ CacheLoses \/ SweepFailsFee
    BY <1>3 DEF Tick, CacheLoses, SweepFailsFee, FeeQuiet, moneyVars
<1>4. ASSUME NEW s, issue(s) \/ renew(s) \/ mint(s) \/ cache(s) PROVE FeeQuiet
    BY <1>4 DEF issue, renew, mint, cache, FeeQuiet, moneyVars
<1>5. ASSUME NEW a \in Actors, Arrived(a) \/ Start(a) \/ finalizeTrip(a) \/ BackToSearch(a)
      PROVE  UNCHANGED <<orders, posted>> /\ End(a)
    BY <1>5 DEF Arrived, Start, finalizeTrip, BackToSearch, moneyVars
<1>6. ASSUME NEW a \in Actors, End(a), call[a].op # "commit", UNCHANGED <<orders, posted>>,
             booking' = booking \/ (booking.status \notin Ended /\ booking'.status # "cancelled")
      PROVE  FeeQuiet
  <2>1. call'[a] = NoCall /\ \A b \in Actors \ {a} : call'[b] = call[b]
      BY <1>6, EndCalls
  <2> QED BY <1>6, <2>1 DEF FeeQuiet
<1>7. ASSUME NEW a \in Actors, Arrived(a) PROVE FeeQuiet
  <2>1. booking' = booking \/ (booking.status \notin Ended /\ booking'.status # "cancelled")
    <3>1. CASE ~IsLegal(booking.status, "arrived")
        BY <1>7, <3>1 DEF Arrived, Transition
    <3>2. CASE IsLegal(booking.status, "arrived")
      <4>1. booking.status \notin Ended
          BY <3>2, LegalFrom DEF Ended
      <4>2. booking'.status = "arrived"
          BY <1>1, <1>7, <3>2 DEF Arrived, Transition, Row
      <4> QED BY <4>1, <4>2
    <3> QED BY <3>1, <3>2
  <2> QED BY <1>5, <1>6, <1>7, <2>1 DEF Arrived
<1>8. ASSUME NEW a \in Actors, Start(a) PROVE FeeQuiet
  <2>1. booking' = booking \/ (booking.status \notin Ended /\ booking'.status # "cancelled")
    <3>1. CASE ~IsLegal(booking.status, "in_progress")
        BY <1>8, <3>1 DEF Start, Transition
    <3>2. CASE IsLegal(booking.status, "in_progress")
      <4>1. booking.status \notin Ended
          BY <3>2, LegalFrom DEF Ended
      <4>2. booking'.status = "in_progress"
          BY <1>1, <1>8, <3>2 DEF Start, Transition, Row
      <4> QED BY <4>1, <4>2
    <3> QED BY <3>1, <3>2
  <2> QED BY <1>5, <1>6, <1>8, <2>1 DEF Start
<1>9. ASSUME NEW a \in Actors, finalizeTrip(a) PROVE FeeQuiet
  <2>1. booking' = booking \/ (booking.status \notin Ended /\ booking'.status # "cancelled")
    <3>1. CASE ~IsLegal(booking.status, "completed")
        BY <1>9, <3>1 DEF finalizeTrip, Transition
    <3>2. CASE IsLegal(booking.status, "completed")
      <4>1. booking.status \notin Ended
          BY <3>2, LegalFrom DEF Ended
      <4>2. booking'.status = "completed"
          BY <1>1, <1>9, <3>2 DEF finalizeTrip, Transition, Row
      <4> QED BY <4>1, <4>2
    <3> QED BY <3>1, <3>2
  <2> QED BY <1>5, <1>6, <1>9, <2>1 DEF finalizeTrip
<1>10. ASSUME NEW a \in Actors, BackToSearch(a), call[a].op # "commit" PROVE FeeQuiet
  <2>1. booking' = booking \/ (booking.status \notin Ended /\ booking'.status # "cancelled")
    <3>1. CASE ~IsLegal(booking.status, "searching")
        BY <1>10, <3>1 DEF BackToSearch
    <3>2. CASE IsLegal(booking.status, "searching")
      <4>1. booking.status \notin Ended
          BY <3>2, LegalFrom DEF Ended
      <4>2. booking'.status = "searching"
          BY <1>1, <1>10, <3>2 DEF BackToSearch, Row
      <4> QED BY <4>1, <4>2
    <3> QED BY <3>1, <3>2
  <2> QED BY <1>5, <1>6, <1>10, <2>1
<1>11. ASSUME NEW a \in Actors, Die(a) PROVE FeeQuiet
  <2>1. End(a) /\ UNCHANGED <<booking, orders, posted>> /\ call[a].op # "commit"
      BY <1>11 DEF Die, CommitSurvives, moneyVars
  <2> QED BY <1>6, <2>1
<1>12. CASE markEnRoute \/ \E d \in Drivers : Accept(d)
    BY <1>1, <1>12 DEF markEnRoute, Accept, FeeQuiet, moneyVars, Row, Ended
<1>13. CASE OperatorCalls
  <2>1. \A b \in Actors \ {Operator} : call'[b] = call[b]
      BY <1>0, <1>13 DEF OperatorCalls, Begin
  <2>2. call'[Operator].op # "compensate"
    <3>1. CASE \E op \in {"arrived", "start", "reassign"} : Begin(Operator, op)
        BY <1>0, <3>1 DEF Begin, NoCall
    <3>2. CASE call' = [call EXCEPT ![Operator] = Completion]
        BY <1>0, <3>2 DEF Completion, NoCall
    <3>3. CASE \E due : call' = [call EXCEPT ![Operator] =
                                     [NoCall EXCEPT !.op = "commit", !.due = due]]
        BY <1>0, <3>3 DEF NoCall
    <3> QED BY <1>13, <3>1, <3>2, <3>3 DEF OperatorCalls, Completion
  <2> QED BY <1>0, <1>13, <2>1, <2>2 DEF OperatorCalls, FeeQuiet, moneyVars
<1>14. ASSUME NEW d \in Drivers, DriverCalls(d) PROVE FeeQuiet
  <2>1. (\A b \in Actors \ {d} : call'[b] = call[b]) /\ call'[d].op # "compensate"
      BY <1>0, <1>14 DEF DriverCalls, Begin, NoCall
  <2> QED BY <1>0, <1>14, <2>1 DEF DriverCalls, FeeQuiet, moneyVars
<1>15. ASSUME NEW d \in Drivers, NEW code, verify(d, code) PROVE FeeQuiet
  <2>1. UNCHANGED <<orders, posted, booking>> /\ (Begin(d, "start") \/ End(d))
      BY <1>15 DEF verify, moneyVars
  <2>2. (\A b \in Actors \ {d} : call'[b] = call[b]) /\ call'[d].op # "compensate"
      BY <1>0, <2>1 DEF Begin, End, NoCall
  <2> QED BY <1>0, <2>1, <2>2 DEF FeeQuiet
<1> QED BY <1>0, <1>2, <1>3, <1>4, <1>7, <1>8, <1>9, <1>10, <1>11, <1>12, <1>13, <1>14, <1>15
        DEF Next, DriverStep, unable, reassign

LEMMA FeeQuietStep ==
    ASSUME TypeInv, FeeInv, FeeQuiet
    PROVE  FeeInv'
<1>0. Customer \in Actors /\ NoCall.op = "none" /\ NoCall.due.comp = 0
    BY DEF Actors, NoCall, NoDue
<1>1. CASE booking' = booking
    BY <1>0, <1>1 DEF FeeInv, FeeQuiet, CancellationIsPaidFor, Ended, Collected, Taken
<1>2. CASE booking.status \notin Ended /\ booking'.status # "cancelled"
    BY <1>0, <1>2 DEF FeeInv, FeeQuiet, CancellationIsPaidFor, Ended, Collected, Taken
<1> QED BY <1>1, <1>2 DEF FeeQuiet

LEMMA NotLegalToCancel ==
    ASSUME TypeInv
    PROVE  IsLegal(booking.status, "cancelled") <=> booking.status \notin Ended
<1>1. booking.status \in BeforeStart \cup {"in_progress"} \cup Ended
    BY RowFacts DEF RowFine
<1> QED BY <1>1 DEF IsLegal, LegalTransitions, BeforeStart, Ended

\* The order of the fee: opened, paid, and confirmed by the vendor.
LEMMA FeeOrderStep ==
    ASSUME TypeInv, FeeInv, OpenFee \/ \E p \in Fees : PayFee(p) \/ FeeConfirmed(p)
    PROVE  FeeInv'
<1>0. booking \in Row /\ Customer \in Actors
      /\ orders \in [Fees -> {"none", "open", "paid", "taken"}]
    BY TypeSplit DEF RowFine, MoneyFine, Actors
<1>1. ASSUME UNCHANGED <<booking, call, posted>>,
             \A p \in Fees : orders'[p] = "taken" <=> orders[p] = "taken"
      PROVE  FeeInv'
  <2>1. Collected' <=> Collected
      BY <1>1 DEF Collected
  <2>2. \A fee : Taken(fee)' <=> Taken(fee)
      BY <1>1 DEF Taken
  <2>3. CancellationIsPaidFor'
      BY <1>1 DEF FeeInv, CancellationIsPaidFor
  <2> QED BY <1>1, <2>1, <2>2, <2>3 DEF FeeInv
<1>2. CASE OpenFee
  <2>1. UNCHANGED <<booking, call, posted>>
      BY <1>2 DEF OpenFee
  <2>2. \A p \in Fees : orders'[p] = "taken" <=> orders[p] = "taken"
      BY <1>0, <1>2 DEF OpenFee
  <2> QED BY <1>1, <2>1, <2>2
<1>3. ASSUME NEW p \in Fees, PayFee(p) PROVE FeeInv'
  <2>1. UNCHANGED <<booking, call, posted>>
      BY <1>3 DEF PayFee
  <2>2. \A q \in Fees : orders'[q] = "taken" <=> orders[q] = "taken"
      BY <1>0, <1>3 DEF PayFee
  <2> QED BY <1>1, <2>1, <2>2
<1>4. ASSUME NEW p \in Fees, FeeConfirmed(p) PROVE FeeInv'
  <2>1. /\ booking.status \in {"completed", "cancelled"} /\ UNCHANGED <<call, posted>>
        /\ \A q \in Fees : orders[q] = "taken" => orders'[q] = "taken"
      BY <1>0, <1>4 DEF FeeConfirmed
  <2>2. CASE booking.status = "cancelled"
    <3>1. booking' = booking
        BY <1>4, <2>2 DEF FeeConfirmed
    <3>2. CancellationIsPaidFor'
        BY <2>1, <3>1 DEF FeeInv, CancellationIsPaidFor
    <3> QED BY <2>1, <2>2, <3>1, <3>2 DEF FeeInv, Ended
  <2>3. CASE booking.status = "completed"
    <3>1. booking'.status = "paid"
        BY <1>0, <1>4, <2>3 DEF FeeConfirmed, Row
    <3> QED BY <2>1, <2>3, <3>1 DEF FeeInv, CancellationIsPaidFor, Ended
  <2> QED BY <2>1, <2>2, <2>3
<1> QED BY <1>2, <1>3, <1>4

\* The customer's cancellation, from its pricing to its capture.
LEMMA FeeCaptureStep ==
    ASSUME AmountIsSaid, TypeInv, FeeInv, CustomerCancels \/ PayCancellation
    PROVE  FeeInv'
<1>0. /\ booking \in Row /\ Customer \in Actors /\ call \in [Actors -> Calls]
      /\ orders \in [Fees -> {"none", "open", "paid", "taken"}]
      /\ NoCall.op = "none" /\ NoCall.due.comp = 0
    BY TypeSplit DEF RowFine, MoneyFine, Actors, NoCall, NoDue
<1>1. CASE CustomerCancels
  <2> DEFINE due == Policy(booking, now)
  <2>1. due.comp \in {0, Share(due.fee)} /\ due.fee \in Nat
      BY <1>0, PolicyType DEF Row, Due
  <2>2. /\ call' = [call EXCEPT ![Customer] =
                       [NoCall EXCEPT !.op = IF due.fee = 0 THEN "commit" ELSE "pay", !.due = due]]
        /\ call[Customer].op = "none" /\ UNCHANGED <<booking, orders, posted>>
        /\ booking.status \notin Ended
      BY <1>1 DEF CustomerCancels, InFlight, MayCall, moneyVars, Ended, ActiveJobStatuses
  <2> HIDE DEF due
  <2>3. /\ call'[Customer].due = due /\ call'[Customer].op \in {"commit", "pay"}
        /\ call'[Customer].op = "commit" => due.fee = 0
        /\ \A b \in Actors \ {Customer} : call'[b] = call[b]
      BY <1>0, <2>2 DEF NoCall
  <2>4. ~Collected' /\ CancellationIsPaidFor'
      BY <2>2 DEF FeeInv, Collected, CancellationIsPaidFor
  <2> QED BY <1>0, <2>1, <2>2, <2>3, <2>4 DEF FeeInv
<1>2. ASSUME NEW p \in Fees, capture(p, call[Customer].due.fee), PayCancellation,
             call' = [call EXCEPT ![Customer].op = "commit"]
      PROVE  FeeInv'
  <2> DEFINE fee == call[Customer].due.fee
  <2>1. call[Customer].op = "pay" /\ UNCHANGED <<booking, posted>>
      BY <1>2 DEF PayCancellation
  <2>2. /\ call'[Customer].op = "commit" /\ call'[Customer].due = call[Customer].due
        /\ \A b \in Actors \ {Customer} : call'[b] = call[b]
      BY <1>0, <1>2 DEF Calls
  <2>3. \A q \in Fees : orders[q] = "taken" => orders'[q] = "taken"
      BY <1>0, <1>2 DEF capture
  <2>4. Taken(fee)' \/ booking.status \in Ended
    <3>1. CASE Collected
        BY <2>1, <3>1 DEF FeeInv
    <3>2. CASE ~Collected
      <4>1. p = fee /\ orders' = [orders EXCEPT ![p] = "taken"]
          BY <1>2, <3>2 DEF capture, FaultUnless, Fault, AmountIsSaid
      <4>2. fee' = fee
          BY <2>2
      <4>3. orders'[fee] = "taken" /\ fee \in Fees
          BY <1>0, <4>1
      <4> QED BY <4>2, <4>3 DEF Taken
    <3> QED BY <3>1, <3>2
  <2>5. CancellationIsPaidFor'
      BY <2>1, <2>3 DEF FeeInv, CancellationIsPaidFor
  <2>6. fee' = fee
      BY <2>2
  <2> QED BY <1>0, <2>1, <2>2, <2>4, <2>5, <2>6 DEF FeeInv
<1>3. CASE PayCancellation /\ End(Customer) /\ UNCHANGED orders
  <2>1. call[Customer].op = "pay" /\ UNCHANGED <<booking, posted, orders>>
      BY <1>3 DEF PayCancellation
  <2>2. call'[Customer] = NoCall /\ \A b \in Actors \ {Customer} : call'[b] = call[b]
      BY <1>0, <1>3 DEF End
  <2>3. CancellationIsPaidFor' /\ (Collected' => booking'.status \in Ended)
      BY <2>1 DEF FeeInv, CancellationIsPaidFor, Collected
  <2> QED BY <1>0, <2>1, <2>2, <2>3 DEF FeeInv
<1> QED BY <1>1, <1>2, <1>3 DEF PayCancellation

\* The commit, by the customer or the operator, and the compensation after it.
LEMMA FeeCommitStep ==
    ASSUME TypeInv, FeeInv, NEW a \in Actors, CommitCancel(a) \/ Compensate(a)
    PROVE  FeeInv'
<1>0. /\ booking \in Row /\ Customer \in Actors /\ call \in [Actors -> Calls]
      /\ NoCall.op = "none" /\ NoCall.due.comp = 0
    BY TypeSplit DEF RowFine, Actors, NoCall, NoDue
<1>1. CASE CommitCancel(a)
  <2>1. /\ call[a].op = "commit" /\ UNCHANGED <<orders, posted>>
        /\ \A b \in Actors \ {a} : call'[b] = call[b]
      BY <1>0, <1>1 DEF CommitCancel, moneyVars, End
  <2>2. CASE booking.status \in Ended
    <3>1. booking' = booking /\ call'[a] = NoCall
        BY <1>0, <1>1, <2>2, NotLegalToCancel DEF CommitCancel, Transition, End
    <3> QED BY <1>0, <2>1, <2>2, <3>1 DEF FeeInv, CancellationIsPaidFor, Collected, Taken
  <2>3. CASE booking.status \notin Ended
    <3>1. IsLegal(booking.status, "cancelled")
        BY <2>3, NotLegalToCancel
    <3>2. /\ booking'.status = "cancelled" /\ booking'.fee = call[a].due.fee
          /\ booking'.comp = call[a].due.comp
          /\ booking'.by = "customer" => a = Customer
        BY <1>0, <1>1, <3>1 DEF CommitCancel, Transition, Row
    <3>3. \/ call'[a] = NoCall
          \/ call'[a].op = "compensate" /\ call'[a].due = call[a].due
        BY <1>0, <1>1, <3>1 DEF CommitCancel, End, Calls
    <3>4. posted.amount = 0 /\ \A b \in Actors : call[b].op # "compensate"
        BY <2>3 DEF FeeInv, Ended
    <3>5. CancellationIsPaidFor'
        BY <2>1, <2>3, <3>2, <3>4 DEF FeeInv, CancellationIsPaidFor, Taken
    <3> QED BY <1>0, <2>1, <3>2, <3>3, <3>4, <3>5 DEF FeeInv, Ended
  <2> QED BY <2>2, <2>3
<1>2. CASE Compensate(a)
  <2>1. /\ call[a].op = "compensate" /\ UNCHANGED <<booking, orders>>
        /\ call'[a] = NoCall /\ \A b \in Actors \ {a} : call'[b] = call[b]
      BY <1>0, <1>2 DEF Compensate, End
  <2>2. booking.status = "cancelled" /\ call[a].due.comp = booking.comp
      BY <2>1 DEF FeeInv
  <2>3. posted'.amount = posted.amount \/ posted'.amount = booking.comp
      BY <1>2, <2>2 DEF Compensate
  <2> QED BY <1>0, <2>1, <2>2, <2>3 DEF FeeInv, CancellationIsPaidFor, Ended, Collected, Taken
<1> QED BY <1>1, <1>2

\* A cancellation the customer was charged for was paid for, to the amount, and
\* the driver got his share of it once, however the driver, the operator and
\* the clock moved between the pricing, the capture and the commit (cancel,
\* CancellationFeeService.capture), with orders of failed rows still payable,
\* as long as the process does not die between the last two and the vendor says
\* what was paid.
THEOREM CancellationsArePaidFor ==
    ASSUME CommitSurvives, AmountIsSaid PROVE Spec => []CancellationIsPaidFor
<1>1. Init => FeeInv
  <2> SUFFICES ASSUME Init PROVE FeeInv
      OBVIOUS
  <2>1. Customer \in Actors /\ NoCall.op = "none" /\ NoCall.due.comp = 0
      BY DEF Actors, NoCall, NoDue
  <2> QED BY <2>1 DEF Init, NoRow, FeeInv, CancellationIsPaidFor, Collected
<1>2. TypeInv /\ FeeInv /\ [Next]_vars => FeeInv'
    BY FeeFrame, FeeQuietStep, FeeOrderStep, FeeCaptureStep, FeeCommitStep
<1>3. FeeInv => CancellationIsPaidFor
    BY DEF FeeInv
<1> QED BY <1>1, <1>2, <1>3, TypeInvariance, PTL DEF Spec

-----------------------------------------------------------------------------
(* The lifecycle                                                           *)

\* Every call, whatever row it had read, moves the booking as the lifecycle
\* allows, under every fault: out of the search to one holder, along the table
\* while he is on it, and off it with nobody on the row.
THEOREM TripsImplementLifecycle == Spec => ImplementsLifecycle
<1>1. Init => Lifecycle!LInit
    BY DEF Init, NoRow, Lifecycle!LInit, ActiveJobStatuses
<1>2. TypeInv /\ [Next]_vars => [Lifecycle!LNext]_(Lifecycle!lvars)
  <2> SUFFICES ASSUME TypeInv, [Next]_vars
               PROVE  Lifecycle!LNext \/ UNCHANGED Lifecycle!lvars
      OBVIOUS
  <2>0. booking \in Row
      BY RowFacts DEF RowFine
  <2>1. ASSUME UNCHANGED booking PROVE UNCHANGED Lifecycle!lvars
      BY <2>1 DEF Lifecycle!lvars
  <2>2. ASSUME NEW d \in Drivers, Accept(d) PROVE Lifecycle!LNext
    <3>1. booking.status = "searching" /\ booking'.status = "assigned" /\ booking'.driver = d
        BY <2>0, <2>2 DEF Accept, Row
    <3>2. Lifecycle!LAssign(Customer, d)
        BY <3>1 DEF Lifecycle!LAssign, ActiveJobStatuses
    <3> QED BY <3>2 DEF Lifecycle!LNext
  <2>3. ASSUME NEW to \in {"en_route", "arrived", "in_progress"}, booking'.status = to,
               IsLegal(booking.status, to), booking.status \in ActiveJobStatuses,
               booking'.driver = booking.driver
        PROVE  Lifecycle!LNext
    <3>1. Lifecycle!LProgress(Customer, to)
        BY <2>3 DEF Lifecycle!LProgress, ActiveJobStatuses, Lifecycle!ActiveJobStatuses,
                    IsLegal, Lifecycle!IsLegal, LegalTransitions, Lifecycle!LegalTransitions
    <3>2. to \in Lifecycle!JobStatus
        BY DEF Lifecycle!JobStatus
    <3> QED BY <3>1, <3>2 DEF Lifecycle!LNext
  <2>4. ASSUME NEW to \in {"searching", "completed", "paid", "cancelled"}, booking'.status = to,
               IsLegal(booking.status, to)
        PROVE  Lifecycle!LNext
    <3>1. Lifecycle!LLeave(Customer, to)
        BY <2>4 DEF Lifecycle!LLeave, ActiveJobStatuses, Lifecycle!ActiveJobStatuses,
                    IsLegal, Lifecycle!IsLegal, LegalTransitions, Lifecycle!LegalTransitions
    <3>2. to \in Lifecycle!JobStatus
        BY DEF Lifecycle!JobStatus
    <3> QED BY <3>1, <3>2 DEF Lifecycle!LNext
  <2>5. CASE Tick
      BY <2>1, <2>5 DEF Tick
  <2>6. CASE markEnRoute
      BY <2>0, <2>3, <2>6 DEF markEnRoute, Row, ActiveJobStatuses, IsLegal, LegalTransitions
  <2>7. ASSUME NEW p, FeeConfirmed(p) PROVE Lifecycle!LNext \/ UNCHANGED Lifecycle!lvars
    <3>1. CASE booking.status = "completed"
        BY <2>0, <2>4, <2>7, <3>1 DEF FeeConfirmed, Row, IsLegal, LegalTransitions
    <3>2. CASE booking.status # "completed"
        BY <2>1, <2>7, <3>2 DEF FeeConfirmed
    <3> QED BY <3>1, <3>2
  <2>8. ASSUME NEW a, BackToSearch(a) PROVE Lifecycle!LNext \/ UNCHANGED Lifecycle!lvars
    <3>1. CASE IsLegal(booking.status, "searching")
      <4>1. booking'.status = "searching"
          BY <2>0, <2>8, <3>1 DEF BackToSearch, Row
      <4> QED BY <2>4, <3>1, <4>1
    <3>2. CASE ~IsLegal(booking.status, "searching")
        BY <2>1, <2>8, <3>2 DEF BackToSearch
    <3> QED BY <3>1, <3>2
  <2>9. ASSUME NEW a, Arrived(a) PROVE Lifecycle!LNext \/ UNCHANGED Lifecycle!lvars
    <3>1. CASE IsLegal(booking.status, "arrived")
      <4>1. booking'.status = "arrived" /\ booking'.driver = booking.driver
          BY <2>0, <2>9, <3>1 DEF Arrived, Transition, Row
      <4>2. booking.status \in ActiveJobStatuses
          BY <3>1, LegalFrom DEF ActiveJobStatuses
      <4> QED BY <2>3, <3>1, <4>1, <4>2
    <3>2. CASE ~IsLegal(booking.status, "arrived")
        BY <2>1, <2>9, <3>2 DEF Arrived, Transition
    <3> QED BY <3>1, <3>2
  <2>10. ASSUME NEW a, Start(a) PROVE Lifecycle!LNext \/ UNCHANGED Lifecycle!lvars
    <3>1. CASE IsLegal(booking.status, "in_progress")
      <4>1. booking'.status = "in_progress" /\ booking'.driver = booking.driver
          BY <2>0, <2>10, <3>1 DEF Start, Transition, Row
      <4>2. booking.status \in ActiveJobStatuses
          BY <3>1, LegalFrom DEF ActiveJobStatuses
      <4> QED BY <2>3, <3>1, <4>1, <4>2
    <3>2. CASE ~IsLegal(booking.status, "in_progress")
        BY <2>1, <2>10, <3>2 DEF Start, Transition
    <3> QED BY <3>1, <3>2
  <2>11. ASSUME NEW a, finalizeTrip(a) PROVE Lifecycle!LNext \/ UNCHANGED Lifecycle!lvars
    <3>1. CASE IsLegal(booking.status, "completed")
      <4>1. booking'.status = "completed"
          BY <2>0, <2>11, <3>1 DEF finalizeTrip, Transition, Row
      <4> QED BY <2>4, <3>1, <4>1
    <3>2. CASE ~IsLegal(booking.status, "completed")
        BY <2>1, <2>11, <3>2 DEF finalizeTrip, Transition
    <3> QED BY <3>1, <3>2
  <2>12. ASSUME NEW a, CommitCancel(a) PROVE Lifecycle!LNext \/ UNCHANGED Lifecycle!lvars
    <3>1. CASE IsLegal(booking.status, "cancelled")
      <4>1. booking'.status = "cancelled"
          BY <2>0, <2>12, <3>1 DEF CommitCancel, Transition, Row
      <4> QED BY <2>4, <3>1, <4>1
    <3>2. CASE ~IsLegal(booking.status, "cancelled")
        BY <2>1, <2>12, <3>2 DEF CommitCancel, Transition
    <3> QED BY <3>1, <3>2
  <2> QED BY <2>1, <2>2, <2>5, <2>6, <2>7, <2>8, <2>9, <2>10, <2>11, <2>12, CallFrame
<1> QED BY <1>1, <1>2, TypeInvariance, PTL DEF Spec, ImplementsLifecycle, Lifecycle!LSpec
=============================================================================
