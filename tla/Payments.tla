------------------------------ MODULE Payments ------------------------------
(***************************************************************************)
(* Paying for one completed booking (apps/backend/src/modules/money).      *)
(*                                                                         *)
(* Four channels can report that the money arrived: the customer's own     *)
(* capture call, the gateway's webhook, the five-minute sweep and the      *)
(* operator's recheck; wallet and cash payments are confirmed by the       *)
(* customer and by the driver.  All of them end in the one settlement      *)
(* function, settleCapturedPayment, which is a chain of separately         *)
(* committed statements: read the booking, find or make the captured row,  *)
(* post the wallet, cash and settlement legs, and move the booking to      *)
(* paid.  A settlement is a worker of this module; between two of its      *)
(* statements anything else may run, and the process may die.              *)
(*                                                                         *)
(* Abstracted: amounts are small integers; the tax, the commission split   *)
(* and the fleet share are functions of the total the settlement read, so  *)
(* a posted credit is represented by that total; the cancellation fee's    *)
(* own payments, notifications, invoices and referral rewards change no    *)
(* state of this module.  A row's gateway order is created and its         *)
(* reference stored in one step: until then nobody holds the reference.    *)
(***************************************************************************)
EXTENDS Integers, Sequences, FiniteSets, FiniteSetsExt

CONSTANTS
    Workers,      \* settlements in flight
    Fare,         \* the booking's total without a coupon
    Discount,     \* what a coupon takes off it
    MaxWallet,    \* the largest wallet balance the customer starts with
    MaxRows,      \* bound on the booking's payment rows
    MaxFaults,    \* bound on faults
    Faults        \* the faults that may happen:
                  \*   a step of a settlement, or "intent": the process dies
                  \*   "redis"   the capture lock is unavailable or expires
                  \*   "switch"  the customer goes online while a cash
                  \*             confirmation settles, or the driver confirms
                  \*             the cash while he does
                  \*   "coupon"  the coupon changes while a payment opens or
                  \*             settles, or the wallet is confirmed while it
                  \*             changes
                  \*   "close"   a coupon request dies once its total is
                  \*             committed
                  \*   "remove"  a coupon is removed after an order was made,
                  \*             or that request dies
                  \*   "dispute" a dispute cancels while a payment settles

ASSUME PaymentsAssumption ==
    /\ Fare \in Nat /\ Discount \in Nat /\ Discount < Fare
    /\ MaxWallet \in Nat /\ MaxRows \in Nat /\ MaxFaults \in Nat

VARIABLES
    booking,   \* bookings.status
    total,     \* bookings.total
    rows,      \* the booking's payments rows, oldest first
    orders,    \* the gateway's order for each row
    events,    \* the gateway's "captured" webhook for each order
    balance,   \* the customer's wallet
    ledger,    \* the amounts of the legs posted under the booking's keys
    paidOn,    \* the total that commission_amount and driver_payout were
               \* computed from when the booking became paid
    intent,    \* the customer's createIntent request in flight
    stuck,     \* the row the sweep is about to fail
    closing,   \* a coupon change is committed, and its request has yet to
               \* close the open intent
    lock,      \* the capture lock
    task,      \* the settlement each worker runs
    faults

vars == <<booking, total, rows, orders, events, balance, ledger, paidOn,
          intent, stuck, closing, lock, task, faults>>

-----------------------------------------------------------------------------
Providers == {"gateway", "wallet", "cash"}
None == -1
RowIds == 1 .. MaxRows
NoOrder == [state |-> "none", amount |-> 0]
NoIntent == [pc |-> "idle", row |-> 0, amount |-> 0, wallet |-> 0]
NoTask == [pc |-> "idle", of |-> 0, status |-> "completed", total |-> 0,
           row |-> 0, held |-> FALSE]

Open(r) == rows[r].status = "pending"

\* openIntent: the latest row still pending, 0 when there is none.
openIntent == Max({0} \cup {r \in DOMAIN rows : Open(r)})

\* capturedFor: the captured row, 0 when there is none.
capturedFor == Max({0} \cup {r \in DOMAIN rows : rows[r].status = "captured"})

\* A handle is named by the row whose order, wallet confirmation or cash
\* confirmation it reports.  byGatewayRef finds the row that stored it.
byGatewayRef(h) == Max({0} \cup {r \in DOMAIN rows : rows[r].ref = h})

\* byOrderRef: a cash handle carries no order reference, and a row whose
\* order was never created has none to be found by.
byOrderRef(h) == IF rows[h].provider # "cash" /\ rows[h].order THEN h ELSE 0

NewRow(provider, amount, wallet, key) ==
    [provider |-> provider, status |-> "pending", amount |-> amount,
     wallet |-> wallet, order |-> FALSE, ref |-> 0, key |-> key]

Failed(r) == [rows EXCEPT ![r].status = "failed"]

Settling == {w \in Workers : task[w].pc # "idle"}

\* Something happens at a bad moment.
Fault(kind) == kind \in Faults /\ faults < MaxFaults /\ faults' = faults + 1
FaultUnless(ok, kind) == IF ok THEN UNCHANGED faults ELSE Fault(kind)

-----------------------------------------------------------------------------
Init ==
    /\ booking = "completed" /\ total = Fare
    /\ rows = <<>>
    /\ orders = [r \in RowIds |-> NoOrder]
    /\ events = [r \in RowIds |-> "none"]
    /\ balance \in 0 .. MaxWallet
    /\ ledger = [wallet |-> None, cash |-> None, credit |-> None]
    /\ paidOn = None
    /\ intent = NoIntent /\ stuck = 0 /\ closing = FALSE /\ lock = FALSE
    /\ task = [w \in Workers |-> NoTask]
    /\ faults = 0

-----------------------------------------------------------------------------
(* The customer opens a payment: createIntent.                             *)

walletPartUnclamped == Min({balance, total})
walletPart == Max({0, Min({balance, total})})

\* Read the booking, the wallet and the open intent.  A cash intent is
\* failed; one that already has its order is returned as stored; otherwise
\* the request goes on with the amounts it has just read.
CreateIntentRead ==
    /\ intent.pc = "idle" /\ booking = "completed"
    /\ FaultUnless(\A w \in Settling : rows[task[w].of].provider # "cash",
                   "switch")
    /\ LET open == openIntent
           cash == open # 0 /\ rows[open].provider = "cash"
           kept == IF cash THEN 0 ELSE open
       IN /\ kept # 0 => ~rows[kept].order
          /\ rows' = IF cash THEN Failed(open) ELSE rows
          /\ intent' = [pc |-> IF kept = 0 THEN "insert" ELSE "order",
                        row |-> kept, amount |-> total - walletPart,
                        wallet |-> walletPart]
    /\ UNCHANGED <<booking, total, orders, events, balance, ledger, paidOn,
                   stuck, closing, lock, task>>

CreateIntentInsert ==
    /\ intent.pc = "insert" /\ Len(rows) < MaxRows
    /\ rows' = Append(rows,
                   NewRow(IF intent.wallet > 0 /\ intent.amount = 0
                              THEN "wallet" ELSE "gateway",
                          intent.amount, intent.wallet, 0))
    /\ intent' = [intent EXCEPT !.pc = "order", !.row = Len(rows) + 1]
    /\ UNCHANGED <<booking, total, orders, events, balance, ledger, paidOn,
                   stuck, closing, lock, task, faults>>

\* The client key was used before: the unique key hands back that request's
\* row, here one whose order is still to be created.
CreateIntentReplays ==
    /\ intent.pc = "insert"
    /\ \E r \in DOMAIN rows :
           /\ rows[r].provider # "cash" /\ rows[r].key = 0 /\ ~rows[r].order
           /\ intent' = [intent EXCEPT !.pc = "order", !.row = r]
    /\ UNCHANGED <<booking, total, rows, orders, events, balance, ledger,
                   paidOn, stuck, closing, lock, task, faults>>

\* A bill the wallet covers needs no gateway order; any other opens one for
\* the amount this request computed, which for a reused row is not
\* necessarily the amount the row stores.
CreateIntentOrder ==
    /\ intent.pc = "order"
    /\ rows' = [rows EXCEPT ![intent.row].order = TRUE]
    /\ orders' = IF intent.amount = 0 THEN orders
                 ELSE [orders EXCEPT ![intent.row] =
                          [state |-> "open", amount |-> intent.amount]]
    /\ intent' = NoIntent
    /\ UNCHANGED <<booking, total, events, balance, ledger, paidOn, stuck, closing,
                   lock, task, faults>>

\* The request dies with its process, or no row can be added any more.
CreateIntentEnds ==
    /\ \/ intent.pc # "idle" /\ Fault("intent")
       \/ intent.pc = "insert" /\ Len(rows) = MaxRows /\ UNCHANGED faults
    /\ intent' = NoIntent
    /\ UNCHANGED <<booking, total, rows, orders, events, balance, ledger,
                   paidOn, stuck, closing, lock, task>>

-----------------------------------------------------------------------------
(* The customer chooses cash, changes the coupon, spends the wallet.       *)

chooseCash ==
    /\ booking = "completed" /\ Len(rows) < MaxRows
    /\ openIntent # 0 => rows[openIntent].provider # "cash"
    /\ LET closed == IF openIntent = 0 THEN rows ELSE Failed(openIntent)
       IN rows' = Append(closed, NewRow("cash", total, 0, 0))
    /\ UNCHANGED <<booking, total, orders, events, balance, ledger, paidOn,
                   intent, stuck, closing, lock, task, faults>>

ChangeCouponAfterCapture ==
    /\ booking = "completed" /\ Settling = {} /\ intent = NoIntent /\ ~closing
    /\ total' = IF total = Fare THEN Fare - Discount ELSE Fare
    /\ closing' = TRUE
    /\ UNCHANGED <<booking, rows, orders, events, balance, ledger, paidOn,
                   intent, stuck, lock, task, faults>>

\* PaymentCouponService.apply and remove: the total changes only while no
\* row is captured.  A customer sends one coupon request at a time.
ChangeCoupon ==
    /\ booking = "completed" /\ capturedFor = 0 /\ ~closing
    /\ IF Settling = {} /\ intent = NoIntent
           THEN FaultUnless(total = Fare \/ \A r \in RowIds : orders[r] = NoOrder,
                            "remove")
           ELSE Fault("coupon")
    /\ total' = IF total = Fare THEN Fare - Discount ELSE Fare
    /\ closing' = TRUE
    /\ UNCHANGED <<booking, rows, orders, events, balance, ledger, paidOn,
                   intent, stuck, lock, task>>

\* After the commit the request closes the open intent, unless it is cash;
\* or its process dies first, leaving the intent of the old total open.
closeOpenIntents ==
    /\ closing /\ closing' = FALSE
    /\ \/ /\ rows' = IF openIntent # 0 /\ rows[openIntent].provider # "cash"
                         THEN Failed(openIntent) ELSE rows
          /\ UNCHANGED faults
       \/ /\ Fault(IF total = Fare THEN "remove" ELSE "close")
          /\ UNCHANGED rows
    /\ UNCHANGED <<booking, total, orders, events, balance, ledger, paidOn,
                   intent, stuck, lock, task>>

SpendElsewhere ==
    /\ balance > 0
    /\ balance' = balance - 1
    /\ UNCHANGED <<booking, total, rows, orders, events, ledger, paidOn,
                   intent, stuck, closing, lock, task, faults>>

-----------------------------------------------------------------------------
(* The gateway.                                                            *)

\* The customer pays the sheet of an order.  The gateway knows nothing of
\* our rows: an order is payable after its row was failed, and while another
\* one is open.
PayOrder(r) ==
    /\ orders[r].state = "open"
    /\ orders' = [orders EXCEPT ![r].state = "captured"]
    /\ events' = [events EXCEPT ![r] = "sent"]
    /\ UNCHANGED <<booking, total, rows, balance, ledger, paidOn, intent,
                   stuck, closing, lock, task, faults>>

\* A payment attempt fails, and its webhook (or the sweep's or the recheck's
\* fetch) marks the row; the order stays payable.
AttemptFails(r) ==
    /\ orders[r].state = "open" /\ Open(r)
    /\ rows' = Failed(r)
    /\ UNCHANGED <<booking, total, orders, events, balance, ledger, paidOn,
                   intent, stuck, closing, lock, task, faults>>

\* The webhook never arrives.
WebhookLost(r) ==
    /\ events[r] = "sent"
    /\ events' = [events EXCEPT ![r] = "gone"]
    /\ UNCHANGED <<booking, total, rows, orders, balance, ledger, paidOn,
                   intent, stuck, closing, lock, task, faults>>

-----------------------------------------------------------------------------
(* settleCapturedPayment.                                                  *)

\* withLock, required: false.  A caller that finds the lock taken does
\* nothing; one that cannot reach Redis goes on without it.
Begin(w, h) ==
    /\ task[w].pc = "idle"
    /\ \/ lock /\ UNCHANGED <<lock, task, faults>>
       \/ /\ ~lock /\ lock' = TRUE
          /\ task' = [task EXCEPT ![w] =
                         [NoTask EXCEPT !.pc = "inputs", !.of = h, !.held = TRUE]]
          /\ UNCHANGED faults
       \/ /\ Fault("redis") /\ UNCHANGED lock
          /\ task' = [task EXCEPT ![w] =
                         [NoTask EXCEPT !.pc = "inputs", !.of = h]]

\* Capture lock released in the finally block, whoever holds it by then.
End(w) ==
    /\ task' = [task EXCEPT ![w] = NoTask]
    /\ lock' = (lock /\ ~task[w].held)

Step(w, pc) == task' = [task EXCEPT ![w].pc = pc] /\ UNCHANGED lock

\* POST capture: the customer's app reports the payment.  The amount must be
\* what the row's order was to collect of the current total.
capture(w, h) ==
    /\ booking = "completed" /\ orders[h].state = "captured"
    /\ orders[h].amount = total - (IF byOrderRef(h) = 0 THEN 0 ELSE rows[h].wallet)
    /\ Begin(w, h)
    /\ UNCHANGED <<booking, total, rows, orders, events, balance, ledger,
                   paidOn, intent, stuck, closing>>

\* The webhook, applied once per event whatever comes of it.
applyPayment(w, h) ==
    /\ events[h] = "sent"
    /\ events' = [events EXCEPT ![h] = "gone"]
    /\ Begin(w, h)
    /\ UNCHANGED <<booking, total, rows, orders, balance, ledger, paidOn,
                   intent, stuck, closing>>

\* The sweep (payments.reconcile) takes the open gateway rows of a completed
\* booking, and settles those whose order the gateway reports captured.
SweepFinds(h) ==
    /\ booking = "completed"
    /\ h \in DOMAIN rows /\ Open(h) /\ rows[h].provider = "gateway"

reconcile(w, h) ==
    /\ SweepFinds(h) /\ rows[h].order /\ orders[h].state = "captured"
    /\ Begin(w, h)
    /\ UNCHANGED <<booking, total, rows, orders, events, balance, ledger,
                   paidOn, intent, stuck, closing>>

\* The operator's recheck takes the latest row in any state but captured,
\* whatever the booking's.
recheckBooking(w, h) ==
    /\ h = Len(rows) /\ h # 0 /\ rows[h].status # "captured"
    /\ rows[h].order /\ orders[h].state = "captured"
    /\ Begin(w, h)
    /\ UNCHANGED <<booking, total, rows, orders, events, balance, ledger,
                   paidOn, intent, stuck, closing>>

\* The sweep fetches an order the gateway still calls pending, and fails the
\* row when it is old enough: the fetch and the update are two steps.
SweepFetchesPending(r) ==
    /\ stuck = 0 /\ SweepFinds(r)
    /\ orders[r].state # "captured"
    /\ stuck' = r
    /\ UNCHANGED <<booking, total, rows, orders, events, balance, ledger,
                   paidOn, intent, closing, lock, task, faults>>

SweepFailsStuck ==
    /\ stuck # 0
    /\ rows' = IF Open(stuck) THEN Failed(stuck) ELSE rows
    /\ stuck' = 0
    /\ UNCHANGED <<booking, total, orders, events, balance, ledger, paidOn,
                   intent, closing, lock, task, faults>>

\* The customer confirms that the wallet pays the whole bill.
payWithWallet(w) ==
    /\ booking = "completed" /\ openIntent # 0
    /\ rows[openIntent].provider = "wallet" /\ rows[openIntent].order
    /\ closing => "coupon" \in Faults
    /\ IF balance < rows[openIntent].wallet
           THEN rows' = Failed(openIntent) /\ UNCHANGED <<lock, task, faults>>
           ELSE Begin(w, openIntent) /\ UNCHANGED rows
    /\ UNCHANGED <<booking, total, orders, events, balance, ledger, paidOn,
                   intent, stuck, closing>>

\* The driver confirms that the cash is in hand.
confirmCashCollected(w) ==
    /\ booking = "completed" /\ openIntent # 0
    /\ rows[openIntent].provider = "cash"
    /\ intent # NoIntent => "switch" \in Faults
    /\ Begin(w, openIntent)
    /\ UNCHANGED <<booking, total, rows, orders, events, balance, ledger,
                   paidOn, intent, stuck, closing>>

\* settleInner reads the booking under a lock it gives up at once.  A booking
\* that is neither completed nor cancelled ends the settlement.
settlementInputs(w) ==
    /\ task[w].pc = "inputs"
    /\ IF booking \in {"completed", "cancelled"}
           THEN /\ task' = [task EXCEPT ![w].pc = "lookup",
                                        ![w].status = booking, ![w].total = total]
                /\ UNCHANGED lock
           ELSE End(w)
    /\ UNCHANGED <<booking, total, rows, orders, events, balance, ledger,
                   paidOn, intent, stuck, closing, faults>>

\* ensureCapturedRow: the row that stored this reference, else the order's,
\* else the open intent, else the captured row.
Existing(h) ==
    LET found == <<byGatewayRef(h), byOrderRef(h), openIntent, capturedFor>>
        hits  == {i \in DOMAIN found : found[i] # 0}
    IN IF hits = {} THEN 0 ELSE found[Min(hits)]

\* After the captured row: the legs, or for a cancelled booking nothing.
AfterCapture(w, r) ==
    IF task[w].status = "cancelled" THEN End(w)
    ELSE /\ task' = [task EXCEPT ![w].pc = "wallet", ![w].row = r]
         /\ UNCHANGED lock

ensureCapturedRow(w) ==
    /\ task[w].pc = "lookup"
    /\ LET r == Existing(task[w].of)
       IN IF r = 0 THEN Step(w, "insert")
          ELSE IF rows[r].status = "captured" THEN AfterCapture(w, r)
          ELSE /\ task' = [task EXCEPT ![w].pc = "mark", ![w].row = r]
               /\ UNCHANGED lock
    /\ UNCHANGED <<booking, total, rows, orders, events, balance, ledger,
                   paidOn, intent, stuck, closing, faults>>

ConflictsWithNobody(r, h) == FALSE

\* The two unique indexes: one captured row a booking, one row a reference.
Conflicts(r, h) == \/ capturedFor \notin {0, r}
                   \/ byGatewayRef(h) \notin {0, r}

\* markCaptured on any row that is not captured, a failed one included; a
\* unique violation is an error and ends the settlement.
markCaptured(w) ==
    /\ task[w].pc = "mark"
    /\ LET r == task[w].row
           h == task[w].of
       IN IF rows[r].status = "captured"
              THEN AfterCapture(w, r) /\ UNCHANGED rows
          ELSE IF Conflicts(r, h) THEN End(w) /\ UNCHANGED rows
          ELSE /\ rows' = [rows EXCEPT ![r].status = "captured", ![r].ref = h]
               /\ AfterCapture(w, r)
    /\ UNCHANGED <<booking, total, orders, events, balance, ledger, paidOn,
                   intent, stuck, closing, faults>>

\* No row at all: one is made under a key derived from the reference.  Its
\* provider is the gateway's name, whatever the handle was.
InsertRow(w) ==
    /\ task[w].pc = "insert"
    /\ LET h == task[w].of
       IN IF \E r \in DOMAIN rows : rows[r].key = h
              THEN AfterCapture(w, byGatewayRef(h)) /\ UNCHANGED rows
          ELSE IF Len(rows) = MaxRows THEN End(w) /\ UNCHANGED rows
          ELSE /\ rows' = Append(rows, NewRow("gateway", total, 0, h))
               /\ task' = [task EXCEPT ![w].pc = "claim", ![w].row = Len(rows) + 1]
               /\ UNCHANGED lock
    /\ UNCHANGED <<booking, total, orders, events, balance, ledger, paidOn,
                   intent, stuck, closing, faults>>

\* The made row is captured, unless another settlement did it; a unique
\* violation is caught here, and the settlement goes on with whichever row
\* holds the reference, if any.
CaptureMadeRow(w) ==
    /\ task[w].pc = "claim"
    /\ LET r == task[w].row
           h == task[w].of
       IN IF rows[r].status = "captured"
              THEN AfterCapture(w, r) /\ UNCHANGED rows
          ELSE IF Conflicts(r, h)
              THEN AfterCapture(w, byGatewayRef(h)) /\ UNCHANGED rows
          ELSE /\ rows' = [rows EXCEPT ![r].status = "captured", ![r].ref = h]
               /\ AfterCapture(w, r)
    /\ UNCHANGED <<booking, total, orders, events, balance, ledger, paidOn,
                   intent, stuck, closing, faults>>

WalletAppliedIfAlone(r) ==
    IF r = 0 \/ rows[r].provider # "wallet" THEN 0 ELSE rows[r].wallet

\* paymentLegsFor: what the row says the wallet pays, and who collected.
WalletApplied(r) == IF r = 0 THEN 0 ELSE rows[r].wallet
IsCash(r) == r # 0 /\ rows[r].provider = "cash"

\* LedgerService.post: a leg whose key exists is a replay.
Posted(leg) == ledger[leg] # None

PostWalletDebit(w) ==
    /\ task[w].pc = "wallet"
    /\ LET paise == WalletApplied(task[w].row)
       IN IF paise = 0 \/ Posted("wallet") THEN UNCHANGED <<balance, ledger>>
          ELSE /\ balance' = balance - paise
               /\ ledger' = [ledger EXCEPT !.wallet = paise]
    /\ Step(w, "cash")
    /\ UNCHANGED <<booking, total, rows, orders, events, paidOn, intent,
                   stuck, closing, faults>>

PostCashDebit(w) ==
    /\ task[w].pc = "cash"
    /\ ledger' = IF IsCash(task[w].row) /\ ~Posted("cash")
                     THEN [ledger EXCEPT !.cash = task[w].total] ELSE ledger
    /\ Step(w, "credit")
    /\ UNCHANGED <<booking, total, rows, orders, events, balance, paidOn,
                   intent, stuck, closing, faults>>

creditBookingSettlement(w) ==
    /\ task[w].pc = "credit"
    /\ ledger' = IF Posted("credit") THEN ledger
                 ELSE [ledger EXCEPT !.credit = task[w].total]
    /\ Step(w, "paid")
    /\ UNCHANGED <<booking, total, rows, orders, events, balance, paidOn,
                   intent, stuck, closing, faults>>

\* The state machine's legality check: completed to paid always, disputed to
\* paid only with a captured payment and settlement legs.
MayBePaid == \/ booking = "completed"
             \/ booking = "disputed" /\ capturedFor # 0 /\ Posted("credit")

TransitionToPaid(w) ==
    /\ task[w].pc = "paid"
    /\ IF MayBePaid THEN booking' = "paid" /\ paidOn' = task[w].total
                    ELSE UNCHANGED <<booking, paidOn>>
    /\ End(w)
    /\ UNCHANGED <<total, rows, orders, events, balance, ledger, intent,
                   stuck, closing, faults>>

\* The process running a settlement dies; its lock stays until it expires.
Die(w) ==
    /\ task[w].pc # "idle" /\ Fault(task[w].pc)
    /\ task' = [task EXCEPT ![w] = NoTask]
    /\ UNCHANGED <<booking, total, rows, orders, events, balance, ledger,
                   paidOn, intent, stuck, closing, lock>>

\* The lock's fifteen seconds pass.
LockExpires ==
    /\ lock
    /\ FaultUnless(\A w \in Workers : ~task[w].held, "redis")
    /\ lock' = FALSE
    /\ UNCHANGED <<booking, total, rows, orders, events, balance, ledger,
                   paidOn, intent, stuck, closing, task>>

-----------------------------------------------------------------------------
(* Operators dispute the unpaid trip; cancelling it fails the open rows.   *)

DisputeOpens ==
    /\ booking = "completed"
    /\ booking' = "disputed"
    /\ UNCHANGED <<total, rows, orders, events, balance, ledger, paidOn,
                   intent, stuck, closing, lock, task, faults>>

DisputeCharges ==
    /\ booking = "disputed"
    /\ booking' = "completed"
    /\ UNCHANGED <<total, rows, orders, events, balance, ledger, paidOn,
                   intent, stuck, closing, lock, task, faults>>

DisputeCancels ==
    /\ booking = "disputed"
    /\ FaultUnless(Settling = {}, "dispute")
    /\ booking' = "cancelled"
    /\ rows' = [r \in DOMAIN rows |->
                   IF Open(r) THEN [rows[r] EXCEPT !.status = "failed"] ELSE rows[r]]
    /\ UNCHANGED <<total, orders, events, balance, ledger, paidOn, intent,
                   stuck, closing, lock, task>>

-----------------------------------------------------------------------------
Settle(w) ==
    \/ settlementInputs(w) \/ ensureCapturedRow(w) \/ markCaptured(w)
    \/ InsertRow(w) \/ CaptureMadeRow(w)
    \/ PostWalletDebit(w) \/ PostCashDebit(w) \/ creditBookingSettlement(w)
    \/ TransitionToPaid(w)

Customer ==
    \/ CreateIntentRead \/ CreateIntentInsert \/ CreateIntentReplays
    \/ CreateIntentOrder \/ CreateIntentEnds
    \/ chooseCash \/ ChangeCoupon \/ closeOpenIntents \/ SpendElsewhere
    \/ \E w \in Workers : payWithWallet(w)
    \/ \E w \in Workers, h \in RowIds : capture(w, h)

Gateway == \E r \in RowIds : PayOrder(r) \/ AttemptFails(r) \/ WebhookLost(r)

Next ==
    \/ Customer \/ Gateway
    \/ \E w \in Workers : confirmCashCollected(w) \/ Settle(w) \/ Die(w)
    \/ \E w \in Workers, h \in RowIds : applyPayment(w, h) \/ reconcile(w, h)
                                    \/ recheckBooking(w, h)
    \/ \E r \in RowIds : SweepFetchesPending(r)
    \/ SweepFailsStuck \/ LockExpires
    \/ DisputeOpens \/ DisputeCharges \/ DisputeCancels

Spec == Init /\ [][Next]_vars

\* A statement of a running settlement is executed, the sweep comes back
\* every five minutes to every row it selects, and a lock expires.
Fairness ==
    /\ \A w \in Workers : WF_vars(Settle(w))
    /\ \A h \in RowIds : WF_vars(\E w \in Workers : reconcile(w, h))
    /\ WF_vars(LockExpires)

FairSpec == Spec /\ Fairness

-----------------------------------------------------------------------------
Row == [provider : Providers, status : {"pending", "captured", "failed"},
        amount : 0 .. Fare, wallet : 0 .. Fare, order : BOOLEAN,
        ref : 0 .. MaxRows, key : 0 .. MaxRows]
SettlePcs == {"idle", "inputs", "lookup", "mark", "insert", "claim", "wallet",
              "cash", "credit", "paid"}

\* Types of the rows, the gateway's orders, the ledger and the settlements.
TypeOK ==
    /\ booking \in {"completed", "disputed", "cancelled", "paid"}
    /\ total \in {Fare, Fare - Discount}
    /\ rows \in Seq(Row) /\ Len(rows) <= MaxRows
    /\ orders \in [RowIds -> [state : {"none", "open", "captured"}, amount : 0 .. Fare]]
    /\ events \in [RowIds -> {"none", "sent", "gone"}]
    /\ balance \in (-Fare) .. MaxWallet
    /\ ledger \in [{"wallet", "cash", "credit"} -> {None} \cup 0 .. Fare]
    /\ paidOn \in {None} \cup 0 .. Fare
    /\ intent \in [pc : {"idle", "insert", "order"}, row : 0 .. MaxRows,
                   amount : 0 .. Fare, wallet : 0 .. Fare]
    /\ stuck \in 0 .. MaxRows /\ closing \in BOOLEAN /\ lock \in BOOLEAN
    /\ task \in [Workers -> [pc : SettlePcs, of : 0 .. MaxRows,
                             status : {"completed", "cancelled"},
                             total : 0 .. Fare, row : 0 .. MaxRows,
                             held : BOOLEAN]]
    /\ faults \in 0 .. MaxFaults

-----------------------------------------------------------------------------
Captured == capturedFor

\* Every leg posted for the booking comes from its one captured row, and a
\* paid booking has all the legs that row asks for: the wallet's part debited
\* in full, the driver debited exactly when that row is a cash row, and the
\* settlement credited.  Two settlements of different handles, a switch of
\* channel or a death in between must never mix the legs of two rows.
LegsComeFromTheCapturedRow ==
    /\ (\E leg \in DOMAIN ledger : Posted(leg)) => Captured # 0
    /\ Posted("wallet") => ledger.wallet = rows[Captured].wallet
    /\ Posted("cash") => rows[Captured].provider = "cash"
    /\ booking = "paid" =>
           /\ Posted("credit")
           /\ rows[Captured].wallet > 0 => Posted("wallet")
           /\ rows[Captured].provider = "cash" => Posted("cash")

\* What was collected for the captured row: the order or the cash (the bill
\* the driver collects is the booking's current total) that the
\* row's reference names, and the wallet's part.
Collected ==
    LET h == rows[Captured].ref
        channel == IF rows[h].provider = "cash" THEN total
                   ELSE IF orders[h].state = "captured" THEN orders[h].amount ELSE 0
    IN channel + (IF Posted("wallet") THEN ledger.wallet ELSE 0)

\* The driver's and the fleet's shares are computed on no more than was
\* really collected: whatever order the channels report in, the total the
\* credit was taken from is covered by the gateway's order or the cash, and
\* the wallet.
CreditIsCollected == Posted("credit") => Collected >= ledger.credit

\* A driver who confirmed the cash and was credited for the trip owes the
\* cash.  (payments.service.ts: "CASH: the driver physically holds the whole
\* fare. Debit them the FULL booking total".)
CashIsOwed ==
    Posted("credit") /\ rows[rows[Captured].ref].provider = "cash" => Posted("cash")

\* bookings.commission_amount and driver_payout, written when the booking
\* becomes paid, describe the legs in the ledger and the total the customer
\* sees: the three are written by different statements from values read
\* earlier, and perhaps by different settlements.
NoSettlementDrift ==
    /\ booking = "paid" => paidOn = ledger.credit
    /\ Posted("credit") => ledger.credit = total

RowIs(r, status) == r \in DOMAIN rows /\ rows[r].status = status

\* Money the gateway captured on a row that is still open, or whose row is
\* already captured, reaches the booking: it becomes paid, or leaves
\* completed another way, unless the row is closed as failed meanwhile.
\* (payments.service.ts: "It converges instead of alarming".)
CaptureConverges ==
    \A r \in RowIds :
        orders[r].state = "captured" /\ ~RowIs(r, "failed")
            ~> booking # "completed" \/ RowIs(r, "failed")

=============================================================================
