------------------------------ MODULE Payouts -------------------------------
(***************************************************************************)
(* Payouts: an owner's wallet money on its way to a bank account.          *)
(*                                                                         *)
(* A request inserts the payout row, takes the hold in the ledger, and     *)
(* calls the provider, each in a step of its own; above a threshold        *)
(* Finance decides first.  The provider's answer, its webhooks and a       *)
(* five-minute sweep each try to end the row, and whoever fails it owes    *)
(* the ledger the reversal of the hold.                                    *)
(*                                                                         *)
(* A payout is named by its owner and its client key, which is what        *)
(* payoutRowKey does: a second request with the key finds the row and      *)
(* changes nothing.  Notifications, alerts and the audit rows are left     *)
(* out, as are time and amounts below the minimum or above the maximum.    *)
(***************************************************************************)
EXTENDS Integers

CONSTANTS
    Owners, Keys,      \* wallets and client keys
    Amounts,           \* what may be asked for, within the two limits
    InitialBalance,    \* the wallet before the first request
    AutoApproveMax,    \* charge_config.payoutAutoApproveMaxPaise
    Deaths,            \* the phases in which the running task may be killed
    AnswersGetLost,    \* whether the provider's acceptance may not reach us
    FinanceLooks,      \* whether Finance decides only on requested payouts
    FinanceRaces       \* whether Finance may decide before the request returns

Phases == {"holding", "approved", "calling", "accepted", "rejecting",
           "reversing", "sweeping"}

ASSUME PayoutsAssumption ==
    /\ Amounts \subseteq Nat \ {0}
    /\ InitialBalance \in Nat
    /\ AutoApproveMax \in Nat
    /\ Deaths \subseteq Phases
    /\ AnswersGetLost \in BOOLEAN
    /\ {FinanceLooks, FinanceRaces} \subseteq BOOLEAN

VARIABLES
    row,       \* payouts: status, approval_state, route_ref known, amount
    posted,    \* the payout's keys in wallet_transactions
    balance,   \* wallets.balance
    holding,   \* requests that inserted the row and have not posted the hold
    task,      \* the rest of the request or of Finance's decision
    reversing, \* rows failed whose compensating credit is still to be posted
    verdict,   \* what the sweep has learnt about a payout and not applied yet
    provider,  \* the provider's own record of the payout
    seen       \* payouts whose final webhook is recorded or lost

vars == <<row, posted, balance, holding, task, reversing, verdict, provider,
          seen>>

------------------------------------------------------------------------------
(* Types and helpers *)

Accounts == Owners \X Keys

Open == {"requested", "processing"}

Approval == {"auto_approved", "pending_approval", "approved", "rejected"}

Rows == [status : {"none", "requested", "processing", "paid", "failed"},
         approval : Approval, ref : BOOLEAN, amount : Amounts \cup {0}]

NoRow == [status |-> "none", approval |-> "auto_approved", ref |-> FALSE,
          amount |-> 0]

Debit(p)    == <<"payout_debit", p>>
Reversal(p) == <<"payout_reversal", p>>

Held(p)     == Debit(p) \in posted
Returned(p) == Reversal(p) \in posted
IsOpen(p)   == row[p].status \in Open

\* LedgerService.post with one leg: a key already there is a replay and leaves
\* the balance alone.
Post(key, p, amount) ==
    /\ posted' = posted \cup {key}
    /\ balance' = IF key \in posted THEN balance
                  ELSE [balance EXCEPT ![p[1]] = @ + amount]

\* The terminal update of one row; route_ref is coalesced, so a known reference
\* stays known.
Ended(r, to, ref) == [r EXCEPT !.status = to, !.ref = ref \/ r.ref]

\* Mutant: a terminal update that does not look at the status.
AlwaysTerminal(p, to, ref) ==
    row' = [row EXCEPT ![p] = Ended(@, to, ref)]

\* transitionToTerminal: zero rows unless the payout is still open.
ToTerminal(p, to, ref) ==
    row' = IF IsOpen(p) THEN [row EXCEPT ![p] = Ended(@, to, ref)] ELSE row

\* markPaid: no ledger write.
MarkPaid(p) ==
    /\ ToTerminal(p, "paid", TRUE)
    /\ UNCHANGED reversing

\* markFailed, up to its ledger post: the caller that won the update goes on.
MarkFailed(p) ==
    /\ ToTerminal(p, "failed", FALSE)
    /\ reversing' = IF IsOpen(p) THEN reversing \cup {p} ELSE reversing

Settle(p, outcome) ==
    \/ outcome = "paid"   /\ MarkPaid(p)
    \/ outcome = "failed" /\ MarkFailed(p)

Init ==
    /\ row = [p \in Accounts |-> NoRow]
    /\ posted = {}
    /\ balance = [o \in Owners |-> InitialBalance]
    /\ holding = {}
    /\ task = [p \in Accounts |-> "none"]
    /\ reversing = {}
    /\ verdict = [p \in Accounts |-> "none"]
    /\ provider = [p \in Accounts |-> "none"]
    /\ seen = {}

------------------------------------------------------------------------------
(* The owner's request *)

\* request, up to the insert: the key is new and uq_payouts_one_open_per_owner
\* lets the row in.  Finance's gate is decided by the amount.
Request(p, amount) ==
    /\ row[p] = NoRow
    /\ \A k \in Keys : ~IsOpen(<<p[1], k>>)
    /\ row' = [row EXCEPT ![p] =
                 [status |-> "requested", ref |-> FALSE, amount |-> amount,
                  approval |-> IF amount <= AutoApproveMax
                               THEN "auto_approved" ELSE "pending_approval"]]
    /\ holding' = holding \cup {p}
    /\ UNCHANGED <<posted, balance, task, reversing, verdict, provider, seen>>

\* Mutant: the hold without its precondition.
TakeUncovered(p) ==
    /\ p \in holding
    /\ Post(Debit(p), p, -row[p].amount)
    /\ holding' = holding \ {p}
    /\ task' = IF row[p].approval = "auto_approved"
               THEN [task EXCEPT ![p] = "calling"] ELSE task
    /\ UNCHANGED <<row, reversing, verdict, provider, seen>>

\* createWithHold's ledger post, then request goes on to submit unless Finance
\* has to decide.  (The request compares the gate it computed itself.)
TakeHold(p) ==
    /\ p \in holding
    /\ balance[p[1]] >= row[p].amount
    /\ Post(Debit(p), p, -row[p].amount)
    /\ holding' = holding \ {p}
    /\ task' = IF row[p].approval = "auto_approved"
               THEN [task EXCEPT ![p] = "calling"] ELSE task
    /\ UNCHANGED <<row, reversing, verdict, provider, seen>>

\* Mutant: the refused hold takes the path of every other failure.
HoldRefusedAndReturned(p) ==
    /\ p \in holding
    /\ MarkFailed(p)
    /\ holding' = holding \ {p}
    /\ UNCHANGED <<posted, balance, task, verdict, provider, seen>>

\* The precondition throws, or the transaction fails and rolls back: the row is
\* failed, and nothing is returned.
HoldRefused(p) ==
    /\ p \in holding
    /\ ToTerminal(p, "failed", FALSE)
    /\ holding' = holding \ {p}
    /\ UNCHANGED <<posted, balance, task, reversing, verdict, provider, seen>>

------------------------------------------------------------------------------
(* submit: the provider call and its outcomes *)

\* The provider takes the payout on; its answer is on the way.
ProviderAccepts(p) ==
    /\ task[p] = "calling"
    /\ provider' = [provider EXCEPT ![p] = "accepted"]
    /\ task' = [task EXCEPT ![p] = "accepted"]
    /\ UNCHANGED <<row, posted, balance, holding, reversing, verdict, seen>>

\* An explicit refusal, an open circuit breaker or a call that never arrived:
\* all of them end in markFailed.
ProviderRefuses(p) ==
    /\ task[p] = "calling"
    /\ \E answer \in {"none", "failed"} :
           provider' = [provider EXCEPT ![p] = answer]
    /\ MarkFailed(p)
    /\ task' = [task EXCEPT ![p] = "none"]
    /\ UNCHANGED <<posted, balance, holding, verdict, seen>>

\* The acceptance arrives; the guard keeps a late one off a terminal row.
MarkProcessing(p) ==
    /\ task[p] = "accepted"
    /\ row' = IF row[p].status = "requested"
              THEN [row EXCEPT ![p] = [@ EXCEPT !.status = "processing",
                                                !.ref = TRUE]]
              ELSE row
    /\ task' = [task EXCEPT ![p] = "none"]
    /\ UNCHANGED <<posted, balance, holding, reversing, verdict, provider, seen>>

\* The acceptance does not arrive in time.  The call policy reports that as
\* ExternalCallTimeoutError, a name isTimeout does not know, and a broken
\* connection as a plain error; a failed markProcessing throws into the same
\* catch.  All of them go to markFailed.
AnswerLost(p) ==
    /\ AnswersGetLost
    /\ task[p] = "accepted"
    /\ MarkFailed(p)
    /\ task' = [task EXCEPT ![p] = "none"]
    /\ UNCHANGED <<posted, balance, holding, verdict, provider, seen>>

\* The ledger post that ends markFailed, in whichever task failed the row.
PostReversal(p) ==
    /\ p \in reversing
    /\ Post(Reversal(p), p, row[p].amount)
    /\ reversing' = reversing \ {p}
    /\ UNCHANGED <<row, holding, task, verdict, provider, seen>>

------------------------------------------------------------------------------
(* Finance *)

\* The queue lists rows by approval_state alone, and so does the guard of
\* decideApproval; an operator who looks decides on live requests only, and rarely
\* within the milliseconds between the insert and the hold.
MayDecide(p) ==
    /\ row[p].status # "none"
    /\ row[p].approval = "pending_approval"
    /\ FinanceLooks => row[p].status = "requested"
    /\ p \in holding => FinanceRaces

Decide(p, decision, next) ==
    /\ MayDecide(p)
    /\ row' = [row EXCEPT ![p].approval = decision]
    /\ task' = [task EXCEPT ![p] = next]
    /\ UNCHANGED <<posted, balance, holding, reversing, verdict, provider, seen>>

Approve(p) == Decide(p, "approved", "approved")
Reject(p)  == Decide(p, "rejected", "rejecting")

\* submitApproved finds the destination and calls the provider.
SubmitApproved(p) ==
    /\ task[p] = "approved"
    /\ task' = [task EXCEPT ![p] = "calling"]
    /\ UNCHANGED <<row, posted, balance, holding, reversing, verdict, provider,
                   seen>>

\* The audit row cannot be written or the bank account is gone: the request
\* fails after the decision, and the sweep is left with the row.
ApprovalFails(p) ==
    /\ task[p] = "approved"
    /\ task' = [task EXCEPT ![p] = "none"]
    /\ UNCHANGED <<row, posted, balance, holding, reversing, verdict, provider,
                   seen>>

\* reject goes through markFailed.
FailRejected(p) ==
    /\ task[p] = "rejecting"
    /\ MarkFailed(p)
    /\ task' = [task EXCEPT ![p] = "none"]
    /\ UNCHANGED <<posted, balance, holding, verdict, provider, seen>>

------------------------------------------------------------------------------
(* The provider, its webhooks and the sweep *)

\* External: the bank credits the account or sends the money back.
BankDecides(p) ==
    /\ provider[p] = "accepted"
    /\ \E outcome \in {"paid", "failed"} :
           provider' = [provider EXCEPT ![p] = outcome]
    /\ UNCHANGED <<row, posted, balance, holding, task, reversing, verdict, seen>>

\* The first delivery of a final event; the others meet the unique
\* (provider, event_id) and do nothing.
Webhook(p) ==
    /\ provider[p] \in {"paid", "failed"}
    /\ p \notin seen
    /\ seen' = seen \cup {p}
    /\ Settle(p, provider[p])
    /\ UNCHANGED <<posted, balance, holding, task, verdict, provider>>

\* The event never comes, or its handler dies after recording the event id, so
\* that every later delivery is taken for a duplicate.
WebhookLost(p) ==
    /\ provider[p] \in {"paid", "failed"}
    /\ p \notin seen
    /\ seen' = seen \cup {p}
    /\ UNCHANGED <<row, posted, balance, holding, task, reversing, verdict,
                   provider>>

\* Mutant: a sweep that only knows the payouts that needed no decision.
StaleAutoApproved(p) ==
    /\ IsOpen(p)
    /\ row[p].approval = "auto_approved"
    /\ p \notin holding
    /\ task[p] = "none"

\* Mutant: the query without its approval_state filter.
StaleOrPending(p) ==
    /\ IsOpen(p)
    /\ p \notin holding
    /\ task[p] = "none"

\* staleNonTerminal.  Its updated_at floor of two minutes is longer than any
\* call: no handler is still at work on the payout, it has finished or died.
Stale(p) ==
    /\ IsOpen(p)
    /\ row[p].approval # "pending_approval"
    /\ p \notin holding
    /\ task[p] = "none"

\* reconcile learns what became of the payout: from the provider if there is a
\* reference, otherwise (once PAYOUT_STUCK_MINUTES old) it takes it for failed.
\* An answer 'processing' and a provider that is down leave it for the next tick.
SweepReads(p) ==
    /\ Stale(p)
    /\ verdict[p] = "none"
    /\ \E outcome \in {"paid", "failed"} :
         /\ IF row[p].ref THEN outcome = provider[p] ELSE outcome = "failed"
         /\ verdict' = [verdict EXCEPT ![p] = outcome]
    /\ UNCHANGED <<row, posted, balance, holding, task, reversing, provider, seen>>

SweepApplies(p) ==
    /\ verdict[p] # "none"
    /\ Settle(p, verdict[p])
    /\ verdict' = [verdict EXCEPT ![p] = "none"]
    /\ UNCHANGED <<posted, balance, holding, task, provider, seen>>

------------------------------------------------------------------------------
(* A task is killed: what it still had to do is not done *)

TaskDies(p) ==
    \/ /\ "holding" \in Deaths /\ p \in holding
       /\ holding' = holding \ {p}
       /\ UNCHANGED <<task, reversing, verdict>>
    \/ /\ task[p] \in Deaths
       /\ task' = [task EXCEPT ![p] = "none"]
       /\ UNCHANGED <<holding, reversing, verdict>>
    \/ /\ "reversing" \in Deaths /\ p \in reversing
       /\ reversing' = reversing \ {p}
       /\ UNCHANGED <<holding, task, verdict>>
    \/ /\ "sweeping" \in Deaths /\ verdict[p] # "none"
       /\ verdict' = [verdict EXCEPT ![p] = "none"]
       /\ UNCHANGED <<holding, task, reversing>>

Death(p) == TaskDies(p) /\ UNCHANGED <<row, posted, balance, provider, seen>>

------------------------------------------------------------------------------
RequestStep(p) == \/ TakeHold(p) \/ HoldRefused(p)
SubmitStep(p)  == \/ ProviderAccepts(p) \/ ProviderRefuses(p)
                  \/ MarkProcessing(p) \/ AnswerLost(p)
FinanceStep(p) == \/ SubmitApproved(p) \/ ApprovalFails(p) \/ FailRejected(p)
WebhookStep(p) == \/ Webhook(p) \/ WebhookLost(p)

Step(p) ==
    \/ \E amount \in Amounts : Request(p, amount)
    \/ RequestStep(p)
    \/ SubmitStep(p)
    \/ PostReversal(p)
    \/ Approve(p)
    \/ Reject(p)
    \/ FinanceStep(p)
    \/ BankDecides(p)
    \/ WebhookStep(p)
    \/ SweepReads(p)
    \/ SweepApplies(p)
    \/ Death(p)

Next == \E p \in Accounts : Step(p)

Spec == Init /\ [][Next]_vars

\* A handler that is not killed goes on; the bank decides; the sweep is a cron
\* job, and not every one of its ticks is killed before it has applied what it
\* learnt.  Owners, Finance and webhooks owe nobody anything.
Fairness ==
    \A p \in Accounts :
        /\ WF_vars(RequestStep(p))
        /\ WF_vars(SubmitStep(p))
        /\ WF_vars(PostReversal(p))
        /\ WF_vars(FinanceStep(p))
        /\ WF_vars(BankDecides(p))
        /\ WF_vars(SweepReads(p))
        /\ SF_vars(SweepApplies(p))

FairSpec == Spec /\ Fairness

------------------------------------------------------------------------------
(* Properties *)

\* Every variable keeps its type; that a balance is never negative is what the
\* precondition inside LedgerService.post's row lock is there for.
TypeOK ==
    /\ row \in [Accounts -> Rows]
    /\ posted \subseteq {Debit(p) : p \in Accounts}
                            \cup {Reversal(p) : p \in Accounts}
    /\ balance \in [Owners -> Nat]
    /\ holding \subseteq Accounts
    /\ task \in [Accounts -> {"none", "approved", "calling", "accepted",
                              "rejecting"}]
    /\ reversing \subseteq Accounts
    /\ verdict \in [Accounts -> {"none", "paid", "failed"}]
    /\ provider \in [Accounts -> {"none", "accepted", "paid", "failed"}]
    /\ seen \subseteq Accounts

\* submit, reject, the webhook and the sweep never give a payout an end the
\* bank contradicts: a paid row was paid by the bank, and a failed one was not
\* and will not be, so markFailed may return the money.
VerdictsAgree ==
    \A p \in Accounts :
        /\ row[p].status = "paid" => provider[p] = "paid"
        /\ row[p].status = "failed" => provider[p] \in {"none", "failed"}

\* payouts.service.ts, submit: money is never returned to a wallet the bank has
\* debited, also when the provider's answer is lost.
NeverPaidAndReturned ==
    \A p \in Accounts : provider[p] = "paid" => ~Returned(p)

\* payouts.service.ts, createWithHold: the row and its hold come together, so
\* what markFailed returns is always something that was held.
ReturnedWasHeld ==
    \A p \in Accounts : Returned(p) => Held(p)

\* payouts.service.ts, request: whatever waits for Finance is debited already,
\* so what the provider accepts is always held.
SentWasHeld ==
    \A p \in Accounts : provider[p] \in {"accepted", "paid"} => Held(p)

\* The owner's view of a payout: where its amount is.
PlaceOf(p) == IF Returned(p) THEN "returned"
              ELSE IF provider[p] = "paid" THEN "bank"
              ELSE IF Held(p) THEN "held" ELSE "wallet"
StakeOf(p) == IF Held(p) \/ Returned(p) THEN row[p].amount ELSE 0

E == INSTANCE Escrow WITH place <- [p \in Accounts |-> PlaceOf(p)],
                          stake <- [p \in Accounts |-> StakeOf(p)],
                          available <- balance

\* Rows, ledger, provider and sweep together move an owner's money as the
\* escrow does: out of the wallet once and covered, then to the bank or back.
ImplementsEscrow == E!ESpec

\* A failed payout whose money is on its way back, or back, is not a paid one,
\* whatever tasks die, answers get lost or Finance decides on: one terminal
\* update wins, and only its caller posts the reversal.
OneEnd ==
    \A p \in Accounts :
        p \in reversing \/ Returned(p) => row[p].status = "failed"

\* No payout keeps its owner's only open slot for ever once Finance is out of
\* the way: killed tasks, lost answers and lost webhooks are left to the sweep.
PayoutsEnd ==
    \A p \in Accounts :
        IsOpen(p) /\ row[p].approval # "pending_approval" ~> ~IsOpen(p)

\* Money held for a payout that needs no (further) decision of Finance ends at
\* the bank or back in the wallet, by the answer, the webhook or the sweep.
FundsSettle ==
    \A p \in Accounts :
        Held(p) /\ row[p].approval # "pending_approval"
            ~> (Returned(p) \/ provider[p] = "paid")

------------------------------------------------------------------------------
(* The inductive invariant behind VerdictsAgree and ImplementsEscrow *)

\* What each task in flight may rely on.
RowInv(p) ==
    /\ row[p].status = "none" =>
           /\ p \notin holding /\ task[p] = "none" /\ p \notin reversing
           /\ provider[p] = "none" /\ verdict[p] = "none"
           /\ ~Held(p) /\ ~Returned(p)
    /\ row[p].status # "none" => row[p].amount \in Amounts
    /\ IsOpen(p) /\ p \notin holding => Held(p) /\ ~Returned(p)
    /\ row[p].status = "paid" =>
           provider[p] = "paid" /\ Held(p) /\ ~Returned(p)
    /\ row[p].status = "failed" =>
           /\ provider[p] \in {"none", "failed"}
           /\ task[p] \in {"none", "accepted"}
    /\ Returned(p) => Held(p) /\ row[p].status = "failed"

TaskInv(p) ==
    /\ p \in holding =>
           /\ row[p].status = "requested" /\ ~row[p].ref
           /\ task[p] = "none" /\ provider[p] = "none" /\ verdict[p] = "none"
           /\ ~Held(p)
    /\ task[p] \in {"approved", "calling", "rejecting"} =>
           row[p].status = "requested" /\ provider[p] = "none"
    /\ task[p] = "accepted" => provider[p] # "none"
    /\ task[p] # "none" => verdict[p] = "none"
    /\ p \in reversing =>
           row[p].status = "failed" /\ Held(p) /\ ~Returned(p)

\* What the sweep relies on: an open payout without a reference, on which no
\* task is at work, is one the provider never took on.
KnowledgeInv(p) ==
    /\ row[p].approval = "pending_approval" =>
           task[p] = "none" /\ provider[p] = "none" /\ verdict[p] = "none"
    /\ IsOpen(p) /\ provider[p] # "none" => row[p].ref \/ task[p] = "accepted"
    /\ row[p].ref => provider[p] # "none"
    /\ row[p].status = "processing" => row[p].ref
    /\ verdict[p] = "paid" => provider[p] = "paid"
    /\ verdict[p] = "failed" => provider[p] \in {"none", "failed"}

\* Whatever is in flight, the row, the ledger and the provider's record tell the
\* same story: the strengthening of VerdictsAgree that every step of request,
\* submit, approve, reject, the webhook and the sweep preserves.
PayoutInv == \A p \in Accounts : RowInv(p) /\ TaskInv(p) /\ KnowledgeInv(p)
=============================================================================
