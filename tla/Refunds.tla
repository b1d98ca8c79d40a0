------------------------------- MODULE Refunds -------------------------------
(***************************************************************************)
(* Refunding one paid booking (RefundsService).                            *)
(*                                                                         *)
(* A refund is a chain of separately committed steps: read what earlier    *)
(* refunds left, insert the refund row under the request's idempotency     *)
(* key, call the vendor, credit the customer's wallet, debit the driver    *)
(* side, move the booking, release the coupon, update the payment.  A      *)
(* request that finds its row already there resumes: it runs the chain     *)
(* again, each step a no-op where it has happened.  The same request may   *)
(* be submitted twice, and the process may die anywhere in the chain.      *)
(*                                                                         *)
(* The booking was settled by Payments: its captured payment has two pools *)
(* (the vendor's and the wallet's, a cash fare counting as wallet money)   *)
(* and its settlement credited the owners in Credits.  Abstracted: amounts *)
(* are small integers; the refund's aftermath (notifications, the stored   *)
(* invoice) and the shape of refunds issued before provider_share existed  *)
(* are left out.                                                           *)
(***************************************************************************)
EXTENDS Integers, Sequences, FiniteSets, FiniteSetsExt, Functions

CONSTANTS
    Workers,      \* requests in flight
    Keys,         \* idempotency keys: the refunds the operators intend
    Intents,      \* what the refund of each key may ask for
    GatewayPool,  \* what the vendor holds of the captured payment
    WalletPool,   \* what the wallet (or cash) paid of it
    Credits,      \* what the settlement credited to each owner, in order
    StrayRow,     \* is the captured payment followed by a later, unpaid row?
    MaxFaults,    \* bound on faults
    Faults        \* the faults that may happen:
                  \*   "die"      the process running a request dies
                  \*   "refuse"   the vendor refuses a refund
                  \*   "timeout"  the vendor moves the money and the answer
                  \*              is lost

\* A full refund returns both remaining pools; a partial one names its
\* amount, who bears it and where the money is sent.  One issued to resolve a
\* dispute lands the booking on cancelled, Finance's own on refunded.
FullIntents == [kind : {"full"}, source : {"finance", "dispute"}, amount : {0},
                bearer : {"reverse"}, delivery : {"original"}]
PartialIntents(amounts) ==
    [kind : {"partial"}, source : {"finance"}, amount : amounts,
     bearer : {"platform", "provider", "shared"}, delivery : {"original", "wallet"}]

TotalOver(f, S) == FoldFunctionOnSet(LAMBDA a, b : a + b, 0, f, S)
SumOver(f) == TotalOver(f, DOMAIN f)

\* A settlement credits the driver and, for a fleet, the fleet, and no more
\* than was paid (Payments!CreditIsCollected).
ASSUME RefundsAssumption ==
    /\ IsFiniteSet(Keys)
    /\ GatewayPool \in Nat /\ WalletPool \in Nat
    /\ Credits \in Seq(Nat) /\ Len(Credits) <= 2
    /\ SumOver(Credits) <= GatewayPool + WalletPool
    /\ DOMAIN Intents = Keys
    /\ \A k \in Keys : Intents[k] \subseteq FullIntents \cup PartialIntents(Nat)
    /\ StrayRow \in BOOLEAN /\ MaxFaults \in Nat

VARIABLES
    booking,   \* bookings.status
    payment,   \* the captured payment's status
    coupon,    \* does the booking still hold its coupon?
    intents,   \* what each key asks for
    rows,      \* the refunds row of each key
    vendor,    \* what the vendor has returned under each key
    credited,  \* the wallet credit posted under each refund's key
    debits,    \* the debits posted under each refund's keys, per owner
    req,       \* the request each worker runs
    faults,
    \* Ghosts: what the code does not prevent, recorded where it happens and
    \* read by no action.
    slips,     \*   "overlap"  a refund was submitted while another was unfinished
               \*   "redebit"  a resume posted a leg the first pass had rounded to 0
    misfiled   \*   the keys whose row was closed as failed although money had
               \*   moved under it, or another request was still at work on it

vars == <<booking, payment, coupon, intents, rows, vendor, credited, debits,
          req, faults, slips, misfiled>>

-----------------------------------------------------------------------------
Owners == DOMAIN Credits
Nobody == [o \in Owners |-> 0]
NoRow == [status |-> "none", gateway |-> 0, wallet |-> 0, share |-> 0, ref |-> FALSE]
NoReq == [pc |-> "idle", key |-> "none", resumed |-> FALSE, to |-> "stay",
          gateway |-> 0, wallet |-> 0, share |-> 0, call |-> FALSE,
          pending |-> FALSE, legs |-> Nobody]

Running(k) == {w \in Workers : req[w].pc # "idle" /\ req[w].key = k}
Live == {k \in Keys : rows[k].status \in {"pending", "processed"}}

\* refundedSplit: what the refunds that did not fail took from each pool.
RefundedGateway == SumOver([k \in Live |-> rows[k].gateway])
RefundedWallet == SumOver([k \in Live |-> rows[k].wallet])
remainingGateway == GatewayPool - RefundedGateway
remainingWallet == WalletPool - RefundedWallet

\* reversedByOwner, and what each owner still holds of the trip's credit.
Reversed(o) == SumOver([k \in Keys |-> debits[k][o]])
Remaining(o) == Max({0, Credits[o] - Reversed(o)})
RemainingCredit == SumOver([o \in Owners |-> Remaining(o)])

\* Math.round of a quotient of naturals.
Round(a, b) == (2 * a + b) \div (2 * b)

providerShareFor(bearer, amount) ==
    CASE bearer = "platform" -> 0
      [] bearer = "provider" -> amount
      [] bearer = "shared"   -> Round(amount * SumOver(Credits), GatewayPool + WalletPool)

\* deliveredSplit: where the money of a row is sent.
ToGateway(k) == IF intents[k].delivery = "wallet" THEN 0 ELSE rows[k].gateway
ToWallet(k) == rows[k].wallet + rows[k].gateway - ToGateway(k)

Fault(kind) == kind \in Faults /\ faults < MaxFaults /\ faults' = faults + 1

-----------------------------------------------------------------------------
\* The money a refund owes once its row exists: the vendor's and the wallet's
\* part returned, the driver side debited.
Converged(k) ==
    /\ vendor[k] = ToGateway(k) /\ credited[k] = ToWallet(k)
    /\ IF intents[k].kind = "full" THEN RemainingCredit = 0
       ELSE SumOver(debits[k]) = rows[k].share

Settled(k) == rows[k].status \in {"none", "failed"} \/ Converged(k)

\* The ghosts.
Overlaps(k) == \E j \in Keys \ {k} : ~Settled(j) \/ Running(j) # {}
Misfiles(w, k) == vendor[k] # 0 \/ credited[k] # 0 \/ Running(k) # {w}
Redebits(k, legs) == debits[k] # Nobody /\ \E o \in Owners : debits[k][o] = 0 /\ legs[o] # 0

Slip(happens, tag) == slips' = IF happens THEN slips \cup {tag} ELSE slips

Init ==
    /\ booking \in {"paid", "disputed"} /\ payment = "captured" /\ coupon = TRUE
    /\ intents \in {f \in [Keys -> UNION {Intents[k] : k \in Keys}] :
                       \A k \in Keys : f[k] \in Intents[k]}
    /\ rows = [k \in Keys |-> NoRow]
    /\ vendor = [k \in Keys |-> 0]
    /\ credited = [k \in Keys |-> 0]
    /\ debits = [k \in Keys |-> Nobody]
    /\ req = [w \in Workers |-> NoReq]
    /\ faults = 0
    /\ slips = {} /\ misfiled = {}

-----------------------------------------------------------------------------
(* The request: refundBooking and refundPartial up to the row.             *)

isLegal(from, to) == <<from, to>> \in {<<"paid", "refunded">>, <<"paid", "disputed">>,
                                       <<"disputed", "paid">>, <<"disputed", "cancelled">>}

\* Where a full refund lands the booking, decided by its caller.
Landing(k) ==
    CASE intents[k].kind = "partial"    -> "stay"
      [] intents[k].source = "dispute"  -> "cancelled"
      [] OTHER -> IF booking = "paid" THEN "refunded" ELSE "stay"

\* Mutant: a resume leaves the vendor to its webhook and never calls it.
ResumeWithoutVendor(k, to) ==
    IF rows[k].status = "failed" THEN NoReq
    ELSE [NoReq EXCEPT !.pc = "gateway", !.key = k, !.resumed = TRUE, !.to = to,
                       !.pending = rows[k].status = "pending"]

\* resumeRefund reads the row: a failed one is left alone, and the vendor is
\* called again only while the row has no vendor reference and the payment
\* the resume finds has one.
ResumeAs(k, to) ==
    IF rows[k].status = "failed" THEN NoReq
    ELSE [NoReq EXCEPT !.pc = "gateway", !.key = k, !.resumed = TRUE, !.to = to,
                       !.call = ~rows[k].ref /\ ~StrayRow,
                       !.pending = rows[k].status = "pending"]

\* A fresh request: the captured payment, the legality of the landing, the
\* remaining balance and, for a partial refund, the driver side's share.  The
\* database refuses a row with a negative part (ck_refunds_split).
FreshAs(k, to) ==
    LET i == intents[k]
        amount == IF i.kind = "full" THEN remainingGateway + remainingWallet ELSE i.amount
        gateway == IF i.kind = "full" THEN remainingGateway ELSE Min({amount, remainingGateway})
        share == IF i.kind = "full" THEN 0 ELSE providerShareFor(i.bearer, amount)
    IN IF \/ payment # "captured"
          \/ to # "stay" /\ ~isLegal(booking, to)
          \/ amount <= 0 \/ amount > remainingGateway + remainingWallet
          \/ share > RemainingCredit
          \/ gateway < 0 \/ amount < gateway
       THEN NoReq
       ELSE [NoReq EXCEPT !.pc = "insert", !.key = k, !.to = to, !.share = share,
                          !.gateway = gateway, !.wallet = amount - gateway]

Submit(w, k) ==
    /\ req[w].pc = "idle"
    /\ Slip(Overlaps(k), "overlap")
    /\ req' = [req EXCEPT ![w] = IF rows[k].status # "none" THEN ResumeAs(k, Landing(k))
                                 ELSE FreshAs(k, Landing(k))]
    /\ UNCHANGED <<booking, payment, coupon, intents, rows, vendor, credited, debits,
                   faults, misfiled>>

\* insert ... on conflict do nothing: the loser of a race resumes the winner's.
InsertRow(w) ==
    /\ req[w].pc = "insert"
    /\ LET k == req[w].key
       IN IF rows[k].status # "none"
              THEN req' = [req EXCEPT ![w] = ResumeAs(k, req[w].to)] /\ UNCHANGED rows
              ELSE /\ rows' = [rows EXCEPT ![k] =
                         [status |-> "pending", gateway |-> req[w].gateway,
                          wallet |-> req[w].wallet, share |-> req[w].share, ref |-> FALSE]]
                   /\ req' = [req EXCEPT ![w].pc = "gateway", ![w].call = TRUE,
                                         ![w].pending = TRUE]
    /\ UNCHANGED <<booking, payment, coupon, intents, vendor, credited, debits, faults,
                   slips, misfiled>>

-----------------------------------------------------------------------------
(* The chain both a fresh and a resumed refund run.                        *)

Goto(w, pc) == req' = [req EXCEPT ![w].pc = pc]

\* The vendor, external: it recognises a key it has served, and returns no
\* more than it holds.  Its answer and the row's update are two steps.
VendorAccepts(k) ==
    IF vendor[k] # 0 \/ SumOver(vendor) + ToGateway(k) > GatewayPool THEN vendor
    ELSE [vendor EXCEPT ![k] = ToGateway(k)]

callGateway(w) ==
    /\ req[w].pc = "gateway"
    /\ LET k == req[w].key
       IN \/ /\ ~req[w].call \/ ToGateway(k) = 0
             /\ Goto(w, "wallet") /\ UNCHANGED <<vendor, faults>>
          \/ /\ req[w].call /\ ToGateway(k) > 0
             /\ vendor' = VendorAccepts(k)
             /\ Goto(w, IF vendor'[k] = 0 THEN "fail" ELSE "record")
             /\ UNCHANGED faults
          \/ /\ req[w].call /\ ToGateway(k) > 0
             /\ \/ Fault("refuse") /\ vendor[k] = 0 /\ UNCHANGED vendor
                \/ Fault("timeout") /\ vendor' = VendorAccepts(k)
             /\ Goto(w, "fail")
    /\ UNCHANGED <<booking, payment, coupon, intents, rows, credited, debits, slips, misfiled>>

\* The vendor answers "processed" at once or leaves it to the webhook.
RecordVendor(w) ==
    /\ req[w].pc = "record"
    /\ \E status \in {"pending", "processed"} :
           rows' = [rows EXCEPT ![req[w].key].status = status,
                                ![req[w].key].ref = TRUE]
    /\ Goto(w, "wallet")
    /\ UNCHANGED <<booking, payment, coupon, intents, vendor, credited, debits, faults,
                   slips, misfiled>>

\* Mutant: a refused vendor call does not stop the chain.
FailureGoesOn(w) ==
    /\ req[w].pc = "fail"
    /\ rows' = [rows EXCEPT ![req[w].key].status = "failed"]
    /\ Goto(w, "wallet")
    /\ UNCHANGED <<booking, payment, coupon, intents, vendor, credited, debits, faults,
                   slips, misfiled>>

\* A failed call marks the row failed, whatever it is by then, and ends.
RecordFailure(w) ==
    /\ req[w].pc = "fail"
    /\ LET k == req[w].key
       IN /\ rows' = [rows EXCEPT ![k].status = "failed"]
          /\ misfiled' = IF Misfiles(w, k) THEN misfiled \cup {k} ELSE misfiled
    /\ req' = [req EXCEPT ![w] = NoReq]
    /\ UNCHANGED <<booking, payment, coupon, intents, vendor, credited, debits, faults, slips>>

\* Mutant: the leg has no key, and every pass posts it.
creditWalletEachTime(w) ==
    /\ req[w].pc = "wallet"
    /\ credited' = [credited EXCEPT ![req[w].key] = @ + ToWallet(req[w].key)]
    /\ Goto(w, "processed")
    /\ UNCHANGED <<booking, payment, coupon, intents, rows, vendor, debits, faults, slips, misfiled>>

\* One wallet leg per refund; a second post is a replay.
creditWallet(w) ==
    /\ req[w].pc = "wallet"
    /\ LET k == req[w].key
       IN credited' = IF credited[k] # 0 THEN credited
                      ELSE [credited EXCEPT ![k] = ToWallet(k)]
    /\ Goto(w, "processed")
    /\ UNCHANGED <<booking, payment, coupon, intents, rows, vendor, debits, faults, slips, misfiled>>

\* A refund with no vendor part is done with its wallet credit.
MarkProcessed(w) ==
    /\ req[w].pc = "processed"
    /\ rows' = IF ToGateway(req[w].key) = 0 /\ req[w].pending
                   THEN [rows EXCEPT ![req[w].key].status = "processed"] ELSE rows
    /\ Goto(w, "read")
    /\ UNCHANGED <<booking, payment, coupon, intents, vendor, credited, debits, faults,
                   slips, misfiled>>

\* reverseLedger takes back all that is left of each credit; clawback takes
\* the stored share in proportion to what each owner still holds, the last
\* one taking the rounding.  The legs are computed here and posted later.
Holders == {o \in Owners : Remaining(o) > 0}

\* Mutant: the weight is not divided by the sum of the weights.
ProportionUnscaled(share, o) == share * Remaining(o)

Proportion(share, o) == Round(share * Remaining(o), RemainingCredit)

Clawback(share) ==
    [o \in Owners |->
        IF o \notin Holders THEN 0
        ELSE IF o # Max(Holders) THEN Proportion(share, o)
        ELSE share - SumOver([p \in Holders \ {o} |-> Proportion(share, p)])]

ReadLegs(w) ==
    /\ req[w].pc = "read"
    /\ LET k == req[w].key
           legs == IF intents[k].kind = "full" THEN [o \in Owners |-> Remaining(o)]
                   ELSE Clawback(rows[k].share)
       IN req' = [req EXCEPT ![w].pc = "post", ![w].legs = legs]
    /\ UNCHANGED <<booking, payment, coupon, intents, rows, vendor, credited, debits, faults,
                   slips, misfiled>>

\* Mutant: the legs are posted again by a resumed request.
PostLegsEachTime(w) ==
    /\ req[w].pc = "post"
    /\ LET k == req[w].key
       IN /\ debits' = [debits EXCEPT ![k] = [o \in Owners |-> @[o] + req[w].legs[o]]]
          /\ Goto(w, IF intents[k].kind = "partial" THEN "apply"
                     ELSE IF req[w].resumed THEN "coupon" ELSE "move")
    /\ UNCHANGED <<booking, payment, coupon, intents, rows, vendor, credited, faults, slips, misfiled>>

\* LedgerService.post: one transaction, a leg per owner, each under a key of
\* the refund and the owner.
PostLegs(w) ==
    /\ req[w].pc = "post"
    /\ LET k == req[w].key
       IN /\ debits' = [debits EXCEPT ![k] =
                 [o \in Owners |-> IF debits[k][o] # 0 THEN debits[k][o] ELSE req[w].legs[o]]]
          /\ Slip(Redebits(k, req[w].legs), "redebit")
          /\ Goto(w, IF intents[k].kind = "partial" THEN "apply"
                     ELSE IF req[w].resumed THEN "coupon" ELSE "move")
    /\ UNCHANGED <<booking, payment, coupon, intents, rows, vendor, credited, faults, misfiled>>

\* The transition.  A fresh refund moves first and releases the coupon after;
\* a resumed one releases first, and skips a move that has already happened.
\* An illegal move is an error and ends the request.
MoveBooking(w) ==
    /\ req[w].pc = "move"
    /\ LET to == req[w].to
           next == IF req[w].resumed THEN "apply" ELSE "coupon"
       IN IF to = "stay" \/ (req[w].resumed /\ booking = to)
              THEN Goto(w, next) /\ UNCHANGED booking
          ELSE IF isLegal(booking, to)
              THEN booking' = to /\ Goto(w, next)
          ELSE req' = [req EXCEPT ![w] = NoReq] /\ UNCHANGED booking
    /\ UNCHANGED <<payment, coupon, intents, rows, vendor, credited, debits, faults,
                   slips, misfiled>>

ReleaseCoupon(w) ==
    /\ req[w].pc = "coupon"
    /\ coupon' = FALSE
    /\ Goto(w, IF req[w].resumed THEN "move" ELSE "apply")
    /\ UNCHANGED <<booking, payment, intents, rows, vendor, credited, debits, faults,
                   slips, misfiled>>

\* applyRefund recomputes from the rows; a resume applies it to the latest
\* payment row, which a stray row is.
applyRefund(w) ==
    /\ req[w].pc = "apply"
    /\ payment' = IF /\ RefundedGateway >= GatewayPool /\ RefundedWallet >= WalletPool
                     /\ ~(req[w].resumed /\ StrayRow)
                  THEN "refunded" ELSE payment
    /\ req' = [req EXCEPT ![w] = NoReq]
    /\ UNCHANGED <<booking, coupon, intents, rows, vendor, credited, debits, faults,
                   slips, misfiled>>

Die(w) ==
    /\ req[w].pc # "idle" /\ Fault("die")
    /\ req' = [req EXCEPT ![w] = NoReq]
    /\ UNCHANGED <<booking, payment, coupon, intents, rows, vendor, credited, debits,
                   slips, misfiled>>

\* markProcessedByGatewayRef: the vendor's webhook confirms.
WebhookConfirms(k) ==
    /\ rows[k].status = "pending" /\ rows[k].ref
    /\ rows' = [rows EXCEPT ![k].status = "processed"]
    /\ UNCHANGED <<booking, payment, coupon, intents, vendor, credited, debits, req, faults,
                   slips, misfiled>>

\* A dispute of the paid trip is opened, or upheld, at any time beside the
\* refunds; the upholding needs the captured payment.
DisputeMoves ==
    /\ \/ booking = "paid" /\ booking' = "disputed"
       \/ booking = "disputed" /\ payment = "captured" /\ booking' = "paid"
    /\ UNCHANGED <<payment, coupon, intents, rows, vendor, credited, debits, req, faults,
                   slips, misfiled>>

-----------------------------------------------------------------------------
Step(w) ==
    \/ InsertRow(w) \/ callGateway(w) \/ RecordVendor(w) \/ RecordFailure(w)
    \/ creditWallet(w) \/ MarkProcessed(w) \/ ReadLegs(w) \/ PostLegs(w)
    \/ MoveBooking(w) \/ ReleaseCoupon(w) \/ applyRefund(w)

Next ==
    \/ \E w \in Workers, k \in Keys : Submit(w, k)
    \/ \E w \in Workers : Step(w) \/ Die(w)
    \/ \E k \in Keys : WebhookConfirms(k)
    \/ DisputeMoves

Spec == Init /\ [][Next]_vars

-----------------------------------------------------------------------------
Statuses == {"none", "pending", "processed", "failed"}
Amount == 0 .. (GatewayPool + WalletPool)
Pcs == {"idle", "insert", "gateway", "record", "fail", "wallet", "processed",
        "read", "post", "move", "coupon", "apply"}

\* Types of the rows, the posted legs and the requests.
TypeOK ==
    /\ booking \in {"paid", "disputed", "refunded", "cancelled"}
    /\ payment \in {"captured", "refunded"} /\ coupon \in BOOLEAN
    /\ \A k \in Keys : intents[k] \in Intents[k]
    /\ rows \in [Keys -> [status : Statuses, gateway : Amount, wallet : Amount,
                          share : Amount, ref : BOOLEAN]]
    /\ vendor \in [Keys -> Amount] /\ credited \in [Keys -> Amount]
    /\ \A k \in Keys : debits[k] \in [Owners -> Amount]
    /\ \A w \in Workers : req[w].pc \in Pcs /\ req[w].legs \in [Owners -> Amount]
    /\ faults \in 0 .. MaxFaults
    /\ slips \subseteq {"overlap", "redebit"} /\ misfiled \subseteq Keys

\* While refunds do not overlap the customer never gets back more than was
\* paid, over all refunds, retries, resumes, deaths and vendor failures
\* together; what a row wrongly closed as failed returned comes on top, for
\* refundedSplit forgets it.
ReturnedWithinPaid ==
    "overlap" \notin slips =>
        SumOver([k \in Keys \ misfiled |-> vendor[k] + credited[k]]) <= GatewayPool + WalletPool

\* No owner gives back more than the trip credited: "the driver side never
\* gives back more than it was credited on this booking, minus what earlier
\* refunds already took" (refundPartial), the reversalDrift check.  It takes
\* an overlap of two refunds, or a leg the first pass rounded to nothing and a
\* resume posted, to break it.
ReversedWithinCredit == slips = {} => \A o \in Owners : Reversed(o) <= Credits[o]

\* A booking that a full refund moved out of paid has had its money returned
\* and its credits taken back: the status is the last of the three.
RefundedMeansReturned ==
    /\ booking \in {"refunded", "cancelled"}
    /\ "overlap" \notin slips /\ misfiled = {} /\ ~StrayRow
    => /\ RemainingCredit = 0
       /\ SumOver(vendor) + SumOver(credited) = GatewayPool + WalletPool

\* A request that reports success has moved all the money its row promises,
\* whether it ran the chain itself or resumed one that died anywhere, beside
\* any other request: "a replay converges the system" (resumeRefund).  The
\* debit of a partial refund needs its order undisturbed.
SuccessMeansMoved ==
    \A w \in Workers : req[w].pc = "apply" =>
        LET k == req[w].key
        IN /\ StrayRow \/ vendor[k] = ToGateway(k)
           /\ credited[k] = ToWallet(k)
           /\ intents[k].kind = "full" => RemainingCredit = 0 /\ ~coupon
           /\ intents[k].kind = "partial" /\ slips = {} => SumOver(debits[k]) = rows[k].share

=============================================================================
