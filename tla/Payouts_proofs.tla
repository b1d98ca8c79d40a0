--------------------------- MODULE Payouts_proofs ---------------------------
(***************************************************************************)
(* What holds of payouts for every set of owners, keys and amounts.        *)
(***************************************************************************)
EXTENDS Payouts, TLAPS

------------------------------------------------------------------------------
(* Helpers: what the terminal update and the ledger post do to the types *)

\* An account is an owner with a key.
LEMMA AccountOwner == ASSUME NEW p \in Accounts PROVE p[1] \in Owners
  BY DEF Accounts

\* transitionToTerminal writes a payout row.
LEMMA ToTerminalType ==
    ASSUME TypeOK, NEW p \in Accounts, NEW to \in {"paid", "failed"},
           NEW ref \in BOOLEAN, ToTerminal(p, to, ref)
    PROVE  row' \in [Accounts -> Rows]
  <1>1. row[p] \in Rows /\ (ref \/ row[p].ref) \in BOOLEAN
    BY DEF TypeOK
  <1>2. Ended(row[p], to, ref) \in Rows
    BY <1>1 DEF Rows, Ended
  <1> QED  BY <1>2 DEF TypeOK, ToTerminal

\* The amount of a payout is a number.
LEMMA AmountType ==
    ASSUME TypeOK, NEW p \in Accounts PROVE row[p].amount \in Nat
  <1>1. Amounts \cup {0} \subseteq Nat
    BY PayoutsAssumption
  <1>2. row[p].amount \in Amounts \cup {0}
    BY DEF TypeOK, Rows
  <1> QED  BY <1>1, <1>2

\* LedgerService.post adds one key and keeps a balance that stays covered.
LEMMA PostType ==
    ASSUME TypeOK, NEW p \in Accounts, NEW key \in {Debit(p), Reversal(p)},
           NEW amount \in Int, balance[p[1]] + amount >= 0,
           Post(key, p, amount)
    PROVE  /\ posted' \subseteq {Debit(q) : q \in Accounts}
                                   \cup {Reversal(q) : q \in Accounts}
           /\ balance' \in [Owners -> Nat]
  <1>1. posted' \subseteq {Debit(q) : q \in Accounts}
                             \cup {Reversal(q) : q \in Accounts}
    BY DEF TypeOK, Post
  <1>2. balance' \in [Owners -> Nat]
    BY AccountOwner DEF TypeOK, Post
  <1> QED  BY <1>1, <1>2

\* markPaid and markFailed keep the types of the rows and of the open reversals.
LEMMA SettleType ==
    ASSUME TypeOK, NEW p \in Accounts, MarkPaid(p) \/ MarkFailed(p)
    PROVE  row' \in [Accounts -> Rows] /\ reversing' \subseteq Accounts
  BY ToTerminalType DEF TypeOK, MarkPaid, MarkFailed

------------------------------------------------------------------------------
(* Type correctness *)

\* Every variable keeps its type and no balance becomes negative, whatever
\* tasks die, answers are lost and Finance decides on: the precondition inside
\* the wallet's row lock is enough.
THEOREM PayoutsTypeCorrect == Spec => []TypeOK
<1>1. Init => TypeOK
  BY PayoutsAssumption DEF Init, TypeOK, Rows, NoRow, Approval
<1>2. TypeOK /\ [Next]_vars => TypeOK'
  <2> SUFFICES ASSUME TypeOK, [Next]_vars PROVE TypeOK'
    OBVIOUS
  <2>1. CASE UNCHANGED vars
    BY <2>1 DEF TypeOK, vars
  <2>2. ASSUME NEW p \in Accounts, Step(p) PROVE TypeOK'
    <3>1. ASSUME NEW amount \in Amounts, Request(p, amount) PROVE TypeOK'
      BY <3>1 DEF TypeOK, Request, Rows, Approval
    <3>2. CASE TakeHold(p)
      <4>1. row[p].amount \in Int /\ balance[p[1]] \in Int
        BY AmountType, AccountOwner DEF TypeOK
      <4>2. balance[p[1]] + (-row[p].amount) >= 0 /\ -row[p].amount \in Int
        BY <3>2, <4>1 DEF TakeHold
      <4>3. /\ posted' \subseteq {Debit(q) : q \in Accounts}
                                    \cup {Reversal(q) : q \in Accounts}
            /\ balance' \in [Owners -> Nat]
        BY <3>2, <4>2, PostType DEF TakeHold
      <4> QED  BY <3>2, <4>3 DEF TypeOK, TakeHold
    <3>3. CASE HoldRefused(p)
      BY <3>3, ToTerminalType DEF TypeOK, HoldRefused
    <3>4. CASE ProviderAccepts(p)
      BY <3>4 DEF TypeOK, ProviderAccepts
    <3>5. CASE ProviderRefuses(p)
      BY <3>5, SettleType DEF TypeOK, ProviderRefuses
    <3>6. CASE MarkProcessing(p)
      <4>1. row' \in [Accounts -> Rows]
        BY <3>6 DEF TypeOK, MarkProcessing, Rows
      <4> QED  BY <3>6, <4>1 DEF TypeOK, MarkProcessing
    <3>7. CASE AnswerLost(p)
      BY <3>7, SettleType DEF TypeOK, AnswerLost
    <3>8. CASE PostReversal(p)
      <4>1. row[p].amount \in Nat /\ balance[p[1]] \in Nat
        BY AmountType, AccountOwner DEF TypeOK
      <4>2. balance[p[1]] + row[p].amount >= 0 /\ row[p].amount \in Int
        BY <4>1
      <4>3. /\ posted' \subseteq {Debit(q) : q \in Accounts}
                                    \cup {Reversal(q) : q \in Accounts}
            /\ balance' \in [Owners -> Nat]
        BY <3>8, <4>2, PostType DEF PostReversal
      <4> QED  BY <3>8, <4>3 DEF TypeOK, PostReversal
    <3>9. CASE Approve(p) \/ Reject(p)
      <4>1. row' \in [Accounts -> Rows]
        BY <3>9 DEF TypeOK, Approve, Reject, Decide, Rows, Approval
      <4> QED  BY <3>9, <4>1 DEF TypeOK, Approve, Reject, Decide
    <3>10. CASE SubmitApproved(p) \/ ApprovalFails(p)
      BY <3>10 DEF TypeOK, SubmitApproved, ApprovalFails
    <3>11. CASE FailRejected(p)
      BY <3>11, SettleType DEF TypeOK, FailRejected
    <3>12. CASE BankDecides(p)
      BY <3>12 DEF TypeOK, BankDecides
    <3>13. CASE Webhook(p)
      BY <3>13, SettleType DEF TypeOK, Webhook, Settle
    <3>14. CASE WebhookLost(p)
      BY <3>14 DEF TypeOK, WebhookLost
    <3>15. CASE SweepReads(p)
      BY <3>15 DEF TypeOK, SweepReads
    <3>16. CASE SweepApplies(p)
      BY <3>16, SettleType DEF TypeOK, SweepApplies, Settle
    <3>17. CASE Death(p)
      BY <3>17 DEF TypeOK, Death, TaskDies
    <3> QED  BY <2>2, <3>1, <3>2, <3>3, <3>4, <3>5, <3>6, <3>7, <3>8, <3>9,
                <3>10, <3>11, <3>12, <3>13, <3>14, <3>15, <3>16, <3>17
             DEF Step, RequestStep, SubmitStep, FinanceStep, WebhookStep
  <2> QED  BY <2>1, <2>2 DEF Next
<1> QED  BY <1>1, <1>2, PTL DEF Spec

------------------------------------------------------------------------------
(* One end per payout *)

\* markPaid and markFailed move an open row and no other, and only a caller that
\* moved it takes on the reversal.
LEMMA SettleEffect ==
    ASSUME TypeOK, NEW p \in Accounts, MarkPaid(p) \/ MarkFailed(p)
    PROVE  /\ \A q \in Accounts : q # p =>
                 row'[q] = row[q] /\ (q \in reversing' <=> q \in reversing)
           /\ ~IsOpen(p) => row'[p] = row[p] /\ reversing' = reversing
           /\ IsOpen(p) /\ MarkPaid(p) =>
                 row'[p] = Ended(row[p], "paid", TRUE) /\ reversing' = reversing
           /\ IsOpen(p) /\ MarkFailed(p) =>
                 /\ row'[p] = Ended(row[p], "failed", FALSE)
                 /\ reversing' = reversing \cup {p}
  BY DEF TypeOK, MarkPaid, MarkFailed, ToTerminal

\* What the terminal update writes.
LEMMA EndedRow ==
    ASSUME NEW r \in Rows, NEW to, NEW ref \in BOOLEAN
    PROVE  /\ Ended(r, to, ref).status = to
           /\ Ended(r, to, ref).amount = r.amount
           /\ Ended(r, to, ref).approval = r.approval
           /\ Ended(r, to, FALSE).ref = r.ref
  BY DEF Ended, Rows

\* What the hold does to the keys of the payouts.
LEMMA HoldKeys ==
    ASSUME NEW p \in Accounts, NEW q \in Accounts, posted' = posted \cup {Debit(p)}
    PROVE  /\ Held(q)' <=> Held(q) \/ q = p
           /\ Returned(q)' <=> Returned(q)
  BY DEF Held, Returned, Debit, Reversal

\* What the reversal does to the keys of the payouts.
LEMMA ReversalKeys ==
    ASSUME NEW p \in Accounts, NEW q \in Accounts,
           posted' = posted \cup {Reversal(p)}
    PROVE  /\ Held(q)' <=> Held(q)
           /\ Returned(q)' <=> Returned(q) \/ q = p
  BY DEF Held, Returned, Debit, Reversal

\* A step about one payout leaves the others alone: their rows, their ledger
\* keys and everything in flight about them.
LEMMA OnlyOnePayoutMoves ==
    ASSUME TypeOK, NEW p \in Accounts, Step(p), NEW q \in Accounts, q # p
    PROVE  /\ row'[q] = row[q] /\ task'[q] = task[q]
           /\ verdict'[q] = verdict[q] /\ provider'[q] = provider[q]
           /\ q \in holding' <=> q \in holding
           /\ q \in reversing' <=> q \in reversing
           /\ Held(q)' <=> Held(q)
           /\ Returned(q)' <=> Returned(q)
<1>1. CASE \E amount \in Amounts : Request(p, amount)
  BY <1>1 DEF TypeOK, Request, Held, Returned
<1>2. CASE TakeHold(p)
  <2>1. posted' = posted \cup {Debit(p)}
    BY <1>2 DEF TakeHold, Post
  <2>2. (Held(q)' <=> Held(q)) /\ (Returned(q)' <=> Returned(q))
    BY <2>1, HoldKeys
  <2> QED  BY <1>2, <2>2 DEF TypeOK, TakeHold
<1>3. CASE HoldRefused(p)
  BY <1>3 DEF TypeOK, HoldRefused, ToTerminal, Held, Returned
<1>4. CASE ProviderAccepts(p) \/ SubmitApproved(p) \/ ApprovalFails(p)
  BY <1>4 DEF TypeOK, ProviderAccepts, SubmitApproved, ApprovalFails, Held,
              Returned
<1>5. CASE ProviderRefuses(p) \/ AnswerLost(p) \/ FailRejected(p)
  <2>1. MarkFailed(p)
    BY <1>5 DEF ProviderRefuses, AnswerLost, FailRejected
  <2>2. row'[q] = row[q] /\ (q \in reversing' <=> q \in reversing)
    BY <2>1, SettleEffect
  <2> QED  BY <1>5, <2>2 DEF TypeOK, ProviderRefuses, AnswerLost, FailRejected,
                             Held, Returned
<1>6. CASE MarkProcessing(p)
  BY <1>6 DEF TypeOK, MarkProcessing, Held, Returned
<1>7. CASE PostReversal(p)
  <2>1. posted' = posted \cup {Reversal(p)}
    BY <1>7 DEF PostReversal, Post
  <2>2. (Held(q)' <=> Held(q)) /\ (Returned(q)' <=> Returned(q))
    BY <2>1, ReversalKeys
  <2> QED  BY <1>7, <2>2 DEF TypeOK, PostReversal
<1>8. CASE Approve(p) \/ Reject(p)
  BY <1>8 DEF TypeOK, Approve, Reject, Decide, Held, Returned
<1>9. CASE BankDecides(p) \/ WebhookLost(p) \/ SweepReads(p)
  BY <1>9 DEF TypeOK, BankDecides, WebhookLost, SweepReads, Held, Returned
<1>10. CASE Webhook(p) \/ SweepApplies(p)
  <2>1. MarkPaid(p) \/ MarkFailed(p)
    BY <1>10 DEF Webhook, SweepApplies, Settle
  <2>2. row'[q] = row[q] /\ (q \in reversing' <=> q \in reversing)
    BY <2>1, SettleEffect
  <2> QED  BY <1>10, <2>2 DEF TypeOK, Webhook, SweepApplies, Held, Returned
<1>11. CASE Death(p)
  BY <1>11 DEF TypeOK, Death, TaskDies, Held, Returned
<1> QED  BY <1>1, <1>2, <1>3, <1>4, <1>5, <1>6, <1>7, <1>8, <1>9, <1>10, <1>11
         DEF Step, RequestStep, SubmitStep, FinanceStep, WebhookStep

\* Whatever goes wrong, a payout whose money is returned or being returned has
\* failed for good: no late webhook or sweep makes it a paid one.
THEOREM PayoutHasOneEnd == Spec => []OneEnd
<1>1. Init => OneEnd
  BY DEF Init, OneEnd, Returned
<1>2. TypeOK /\ OneEnd /\ [Next]_vars => OneEnd'
  <2> SUFFICES ASSUME TypeOK, OneEnd, [Next]_vars PROVE OneEnd'
    OBVIOUS
  <2>1. CASE UNCHANGED vars
    BY <2>1 DEF OneEnd, Returned, vars
  <2>2. ASSUME NEW p \in Accounts, Step(p) PROVE OneEnd'
    <3> DEFINE Ends(q) == q \in reversing \/ Returned(q) => row[q].status = "failed"
    <3>1. ASSUME NEW q \in Accounts, q # p PROVE Ends(q)'
      BY <2>2, <3>1, OnlyOnePayoutMoves DEF OneEnd
    <3>2. Ends(p)'
      <4>1. CASE \E amount \in Amounts : Request(p, amount)
        BY <4>1 DEF OneEnd, Request, NoRow, Returned
      <4>2. CASE TakeHold(p)
        <5>1. posted' = posted \cup {Debit(p)}
          BY <4>2 DEF TakeHold, Post
        <5>2. Returned(p)' <=> Returned(p)
          BY <5>1, HoldKeys
        <5> QED  BY <4>2, <5>2 DEF OneEnd, TakeHold
      <4>3. CASE HoldRefused(p)
        <5>1. Ended(row[p], "failed", FALSE).status = "failed"
          BY EndedRow DEF TypeOK
        <5> QED  BY <4>3, <5>1 DEF TypeOK, OneEnd, HoldRefused, ToTerminal, Returned
      <4>4. CASE MarkProcessing(p)
        BY <4>4 DEF TypeOK, OneEnd, MarkProcessing, Returned
      <4>5. CASE PostReversal(p)
        BY <4>5 DEF OneEnd, PostReversal
      <4>6. CASE Approve(p) \/ Reject(p)
        BY <4>6 DEF TypeOK, Rows, OneEnd, Approve, Reject, Decide, Returned
      <4>7. CASE \/ ProviderRefuses(p) \/ AnswerLost(p) \/ FailRejected(p)
                 \/ Webhook(p) \/ SweepApplies(p)
        <5>1. /\ MarkPaid(p) \/ MarkFailed(p)
              /\ Returned(p)' <=> Returned(p)
          BY <4>7 DEF ProviderRefuses, AnswerLost, FailRejected, Webhook,
                      SweepApplies, Settle, Returned
        <5>2. CASE ~IsOpen(p)
          BY <5>1, <5>2, SettleEffect DEF OneEnd
        <5>3. CASE IsOpen(p) /\ MarkPaid(p)
          <6>1. p \notin reversing /\ ~Returned(p)
            BY <5>3 DEF OneEnd, IsOpen, Open
          <6> QED  BY <5>1, <5>3, <6>1, SettleEffect
        <5>4. CASE IsOpen(p) /\ MarkFailed(p)
          <6>1. row'[p] = Ended(row[p], "failed", FALSE)
            BY <5>4, SettleEffect
          <6>2. Ended(row[p], "failed", FALSE).status = "failed"
            BY EndedRow DEF TypeOK
          <6> QED  BY <6>1, <6>2
        <5> QED  BY <5>1, <5>2, <5>3, <5>4
      <4>8. CASE \/ ProviderAccepts(p) \/ SubmitApproved(p) \/ ApprovalFails(p)
                 \/ BankDecides(p) \/ WebhookLost(p) \/ SweepReads(p) \/ Death(p)
        BY <4>8 DEF OneEnd, ProviderAccepts, SubmitApproved, ApprovalFails,
                    BankDecides, WebhookLost, SweepReads, Death, TaskDies, Returned
      <4> QED  BY <2>2, <4>1, <4>2, <4>3, <4>4, <4>5, <4>6, <4>7, <4>8
               DEF Step, RequestStep, SubmitStep, FinanceStep, WebhookStep
    <3> QED  BY <3>1, <3>2 DEF OneEnd
  <2> QED  BY <2>1, <2>2 DEF Next
<1> QED  BY <1>1, <1>2, PayoutsTypeCorrect, PTL DEF Spec

------------------------------------------------------------------------------
(* Row, ledger and bank agree *)

\* The faults the handlers are built for: any task may die except between the
\* insert and the hold and between the provider's acceptance and the update
\* that records it; the provider's acceptance arrives; Finance decides on
\* payouts that are still requested, once their request has returned.
Benign ==
    /\ Deaths \cap {"holding", "accepted"} = {}
    /\ ~AnswersGetLost
    /\ FinanceLooks
    /\ ~FinanceRaces

PInv(p) == RowInv(p) /\ TaskInv(p) /\ KnowledgeInv(p)

\* The invariant of a payout whose open row is ended by markFailed.
LEMMA FailingKeepsInv ==
    ASSUME TypeOK, NEW p \in Accounts, PInv(p), IsOpen(p), p \notin holding,
           row'[p] = Ended(row[p], "failed", FALSE),
           reversing' = reversing \cup {p}, UNCHANGED <<posted, holding>>,
           task'[p] \in {"none", "accepted"},
           task'[p] = "accepted" => task[p] = "accepted",
           verdict'[p] \in {"none", verdict[p]},
           provider'[p] \in {"none", "failed"},
           provider'[p] = provider[p] \/ task[p] = "calling"
    PROVE  PInv(p)'
<1>1. /\ row'[p].status = "failed" /\ row'[p].amount = row[p].amount
      /\ row'[p].approval = row[p].approval /\ row'[p].ref = row[p].ref
  <2> DEFINE r == Ended(row[p], "failed", FALSE)
  <2>1. row[p] \in Rows
    BY DEF TypeOK
  <2>2. /\ r.status = "failed" /\ r.amount = row[p].amount
        /\ r.approval = row[p].approval /\ r.ref = row[p].ref
    BY <2>1, EndedRow
  <2> HIDE DEF r
  <2> QED  BY <2>2 DEF r
<1>2. Held(p) /\ ~Returned(p) /\ row[p].amount \in Amounts
  BY DEF PInv, RowInv, IsOpen, Open
<1>3. (Held(p)' <=> Held(p)) /\ (Returned(p)' <=> Returned(p))
  BY DEF Held, Returned
<1>4. RowInv(p)'
  BY <1>1, <1>2, <1>3 DEF RowInv, IsOpen, Open
<1>5. TaskInv(p)'
  BY <1>1, <1>2, <1>3 DEF PInv, TaskInv
<1>6. KnowledgeInv(p)'
  BY <1>1 DEF PInv, TaskInv, KnowledgeInv, IsOpen, Open
<1> QED  BY <1>4, <1>5, <1>6 DEF PInv

\* The same when markPaid ends it.
LEMMA PayingKeepsInv ==
    ASSUME TypeOK, NEW p \in Accounts, PInv(p), IsOpen(p), p \notin holding,
           row'[p] = Ended(row[p], "paid", TRUE),
           UNCHANGED <<posted, holding, reversing, task, provider>>,
           verdict'[p] \in {"none", verdict[p]},
           provider[p] = "paid"
    PROVE  PInv(p)'
<1>1. /\ row'[p].status = "paid" /\ row'[p].amount = row[p].amount
      /\ row'[p].approval = row[p].approval
  <2> DEFINE r == Ended(row[p], "paid", TRUE)
  <2>1. row[p] \in Rows
    BY DEF TypeOK
  <2>2. r.status = "paid" /\ r.amount = row[p].amount /\ r.approval = row[p].approval
    BY <2>1, EndedRow
  <2> HIDE DEF r
  <2> QED  BY <2>2 DEF r
<1>2. Held(p) /\ ~Returned(p) /\ row[p].amount \in Amounts /\ p \notin reversing
  BY DEF PInv, RowInv, TaskInv, IsOpen, Open
<1>3. (Held(p)' <=> Held(p)) /\ (Returned(p)' <=> Returned(p))
  BY DEF Held, Returned
<1>4. RowInv(p)'
  BY <1>1, <1>2, <1>3 DEF RowInv, IsOpen, Open
<1>5. TaskInv(p)'
  BY <1>1, <1>2, <1>3 DEF PInv, TaskInv
<1>6. KnowledgeInv(p)'
  BY <1>1 DEF PInv, KnowledgeInv, IsOpen, Open
<1> QED  BY <1>4, <1>5, <1>6 DEF PInv

\* The same when the terminal update finds no open row and changes nothing.
LEMMA LateEndKeepsInv ==
    ASSUME NEW p \in Accounts, PInv(p), ~IsOpen(p), row'[p] = row[p],
           UNCHANGED <<posted, holding, reversing, provider>>,
           task'[p] \in {"none", task[p]}, verdict'[p] \in {"none", verdict[p]}
    PROVE  PInv(p)'
<1>1. (Held(p)' <=> Held(p)) /\ (Returned(p)' <=> Returned(p))
  BY DEF Held, Returned
<1>2. RowInv(p)'
  BY <1>1 DEF PInv, RowInv, IsOpen, Open
<1>3. TaskInv(p)'
  BY <1>1 DEF PInv, TaskInv
<1>4. KnowledgeInv(p)'
  BY DEF PInv, KnowledgeInv, IsOpen
<1> QED  BY <1>2, <1>3, <1>4 DEF PInv

\* A step about a payout preserves its invariant, under the benign faults.
LEMMA StepKeepsInv ==
    ASSUME Benign, TypeOK, NEW p \in Accounts, PInv(p), Step(p)
    PROVE  PInv(p)'
<1> USE DEF PInv
<1>1. ASSUME NEW amount \in Amounts, Request(p, amount) PROVE PInv(p)'
  <2>1. /\ row'[p].status = "requested" /\ row'[p].ref = FALSE
        /\ row'[p].amount \in Amounts
    BY <1>1 DEF TypeOK, Request
  <2>2. /\ task[p] = "none" /\ provider[p] = "none" /\ verdict[p] = "none"
        /\ ~Held(p) /\ ~Returned(p) /\ p \notin reversing
    BY <1>1 DEF Request, NoRow, RowInv
  <2>3. p \in holding' /\ ~Held(p)' /\ ~Returned(p)'
        /\ UNCHANGED <<task, provider, verdict, reversing>>
    BY <1>1, <2>2 DEF Request, Held, Returned
  <2> QED  BY <2>1, <2>2, <2>3 DEF RowInv, TaskInv, KnowledgeInv, IsOpen, Open
<1>2. CASE TakeHold(p)
  <2>1. /\ p \in holding /\ p \notin holding' /\ row' = row
        /\ posted' = posted \cup {Debit(p)}
        /\ UNCHANGED <<provider, verdict, reversing>>
        /\ task'[p] = IF row[p].approval = "auto_approved" THEN "calling" ELSE task[p]
    BY <1>2 DEF TypeOK, TakeHold, Post
  <2>2. Held(p)' /\ (Returned(p)' <=> Returned(p))
    BY <2>1, HoldKeys
  <2> QED  BY <2>1, <2>2 DEF RowInv, TaskInv, KnowledgeInv, IsOpen, Open
<1>3. CASE HoldRefused(p)
  <2>1. /\ p \in holding /\ p \notin holding'
        /\ UNCHANGED <<posted, provider, verdict, reversing, task>>
        /\ row'[p] = Ended(row[p], "failed", FALSE)
    BY <1>3 DEF TypeOK, HoldRefused, ToTerminal, TaskInv, IsOpen, Open
  <2>2. /\ row'[p].status = "failed" /\ row'[p].amount = row[p].amount
        /\ row'[p].approval = row[p].approval /\ row'[p].ref = row[p].ref
    <3>1. row[p] \in Rows
      BY DEF TypeOK
    <3> DEFINE r == Ended(row[p], "failed", FALSE)
    <3>2. /\ r.status = "failed" /\ r.amount = row[p].amount
          /\ r.approval = row[p].approval /\ r.ref = row[p].ref
      BY <3>1, EndedRow
    <3> HIDE DEF r
    <3> QED  BY <2>1, <3>2 DEF r
  <2>3. (Held(p)' <=> Held(p)) /\ (Returned(p)' <=> Returned(p))
    BY <2>1 DEF Held, Returned
  <2> QED  BY <2>1, <2>2, <2>3 DEF RowInv, TaskInv, KnowledgeInv, IsOpen, Open
<1>4. CASE ProviderAccepts(p)
  <2>1. /\ task[p] = "calling" /\ task'[p] = "accepted"
        /\ provider'[p] = "accepted"
        /\ UNCHANGED <<row, posted, holding, verdict, reversing>>
    BY <1>4 DEF TypeOK, ProviderAccepts
  <2>2. (Held(p)' <=> Held(p)) /\ (Returned(p)' <=> Returned(p))
    BY <2>1 DEF Held, Returned
  <2> QED  BY <2>1, <2>2 DEF RowInv, TaskInv, KnowledgeInv, IsOpen, Open
<1>5. CASE ProviderRefuses(p)
  <2>1. /\ task[p] = "calling" /\ task'[p] = "none"
        /\ provider'[p] \in {"none", "failed"} /\ MarkFailed(p)
        /\ UNCHANGED <<posted, holding, verdict>>
    BY <1>5 DEF TypeOK, ProviderRefuses
  <2>2. IsOpen(p) /\ p \notin holding
    BY <2>1 DEF TaskInv, IsOpen, Open
  <2> QED  BY <2>1, <2>2, SettleEffect, FailingKeepsInv
<1>6. CASE MarkProcessing(p)
  <2>1. /\ task[p] = "accepted" /\ task'[p] = "none"
        /\ UNCHANGED <<posted, holding, reversing, verdict, provider>>
        /\ row[p].status = "requested" =>
               /\ row'[p].status = "processing" /\ row'[p].ref = TRUE
               /\ row'[p].amount = row[p].amount
               /\ row'[p].approval = row[p].approval
        /\ row[p].status # "requested" => row'[p] = row[p]
    BY <1>6 DEF TypeOK, Rows, MarkProcessing
  <2>2. (Held(p)' <=> Held(p)) /\ (Returned(p)' <=> Returned(p))
    BY <2>1 DEF Held, Returned
  <2>3. row[p].status = "processing" => row[p].ref
    BY DEF KnowledgeInv
  <2> QED  BY <2>1, <2>2, <2>3 DEF RowInv, TaskInv, KnowledgeInv, IsOpen, Open
<1>7. CASE PostReversal(p)
  <2>1. /\ p \in reversing /\ p \notin reversing'
        /\ posted' = posted \cup {Reversal(p)}
        /\ UNCHANGED <<row, holding, task, verdict, provider>>
    BY <1>7 DEF PostReversal, Post
  <2>2. (Held(p)' <=> Held(p)) /\ Returned(p)'
    BY <2>1, ReversalKeys
  <2> QED  BY <2>1, <2>2 DEF RowInv, TaskInv, KnowledgeInv, IsOpen, Open
<1>8. CASE Approve(p) \/ Reject(p)
  <2>1. /\ row[p].status = "requested" /\ p \notin holding
        /\ row[p].approval = "pending_approval"
    BY <1>8 DEF Benign, Approve, Reject, Decide, MayDecide
  <2>2. /\ row'[p].status = row[p].status /\ row'[p].ref = row[p].ref
        /\ row'[p].amount = row[p].amount
        /\ row'[p].approval \in {"approved", "rejected"}
        /\ task'[p] \in {"approved", "rejecting"}
        /\ UNCHANGED <<posted, holding, reversing, verdict, provider>>
    BY <1>8 DEF TypeOK, Rows, Approve, Reject, Decide
  <2>3. (Held(p)' <=> Held(p)) /\ (Returned(p)' <=> Returned(p))
    BY <2>2 DEF Held, Returned
  <2> QED  BY <2>1, <2>2, <2>3 DEF RowInv, TaskInv, KnowledgeInv, IsOpen, Open
<1>9. CASE SubmitApproved(p) \/ ApprovalFails(p)
  <2>1. /\ task[p] = "approved" /\ task'[p] \in {"calling", "none"}
        /\ UNCHANGED <<row, posted, holding, reversing, verdict, provider>>
    BY <1>9 DEF TypeOK, SubmitApproved, ApprovalFails
  <2>2. (Held(p)' <=> Held(p)) /\ (Returned(p)' <=> Returned(p))
    BY <2>1 DEF Held, Returned
  <2> QED  BY <2>1, <2>2 DEF RowInv, TaskInv, KnowledgeInv, IsOpen, Open
<1>10. CASE FailRejected(p)
  <2>1. /\ task[p] = "rejecting" /\ task'[p] = "none" /\ MarkFailed(p)
        /\ UNCHANGED <<posted, holding, verdict, provider>>
    BY <1>10 DEF TypeOK, FailRejected
  <2>2. IsOpen(p) /\ p \notin holding /\ provider[p] = "none"
    BY <2>1 DEF TaskInv, IsOpen, Open
  <2> QED  BY <2>1, <2>2, SettleEffect, FailingKeepsInv
<1>11. CASE BankDecides(p)
  <2>1. /\ provider[p] = "accepted" /\ provider'[p] \in {"paid", "failed"}
        /\ UNCHANGED <<row, posted, holding, task, reversing, verdict>>
    BY <1>11 DEF TypeOK, BankDecides
  <2>2. (Held(p)' <=> Held(p)) /\ (Returned(p)' <=> Returned(p))
    BY <2>1 DEF Held, Returned
  <2> QED  BY <2>1, <2>2 DEF RowInv, TaskInv, KnowledgeInv, IsOpen, Open
<1>12. CASE Webhook(p) \/ SweepApplies(p)
  <2>1. PICK outcome \in {"paid", "failed"} :
           /\ outcome = "paid" => provider[p] = "paid" /\ MarkPaid(p)
           /\ outcome = "failed" => provider[p] \in {"none", "failed"} /\ MarkFailed(p)
           /\ outcome = verdict[p] \/ provider[p] # "none"
    <3>1. CASE Webhook(p)
      BY <3>1 DEF Webhook, Settle
    <3>2. CASE SweepApplies(p)
      BY <3>2 DEF SweepApplies, Settle, TypeOK, KnowledgeInv
    <3> QED  BY <1>12, <3>1, <3>2
  <2>2. /\ UNCHANGED <<posted, holding, task, provider>>
        /\ verdict'[p] \in {"none", verdict[p]}
    BY <1>12 DEF TypeOK, Webhook, SweepApplies
  <2>3. CASE ~IsOpen(p)
    BY <2>1, <2>2, <2>3, SettleEffect, LateEndKeepsInv
  <2>4. CASE IsOpen(p) /\ outcome = "paid"
    <3>1. p \notin holding
      BY <2>1, <2>4 DEF TaskInv
    <3> QED  BY <2>1, <2>2, <2>4, <3>1, SettleEffect, PayingKeepsInv
                DEF MarkPaid
  <2>5. CASE IsOpen(p) /\ outcome = "failed"
    <3>1. p \notin holding /\ task[p] \in {"none", "accepted"}
      BY <2>1, <2>5 DEF TypeOK, TaskInv
    <3> QED  BY <2>1, <2>2, <2>5, <3>1, SettleEffect, FailingKeepsInv
  <2> QED  BY <2>1, <2>3, <2>4, <2>5
<1>13. CASE WebhookLost(p)
  <2>1. UNCHANGED <<row, posted, holding, task, reversing, verdict, provider>>
    BY <1>13 DEF WebhookLost
  <2> QED  BY <2>1 DEF RowInv, TaskInv, KnowledgeInv, IsOpen, Held, Returned
<1>14. CASE SweepReads(p)
  <2>1. /\ Stale(p) /\ verdict'[p] \in {"paid", "failed"}
        /\ row[p].ref => verdict'[p] = provider[p]
        /\ ~row[p].ref => verdict'[p] = "failed"
        /\ UNCHANGED <<row, posted, holding, task, reversing, provider>>
    BY <1>14 DEF TypeOK, SweepReads
  <2>2. ~row[p].ref => provider[p] = "none"
    BY <2>1 DEF Stale, KnowledgeInv
  <2>3. (Held(p)' <=> Held(p)) /\ (Returned(p)' <=> Returned(p))
    BY <2>1 DEF Held, Returned
  <2> QED  BY <2>1, <2>2, <2>3 DEF Stale, RowInv, TaskInv, KnowledgeInv, IsOpen, Open
<1>15. CASE Death(p)
  <2>1. /\ UNCHANGED <<row, posted, provider, holding>>
        /\ p \in reversing' => p \in reversing
        /\ task'[p] = task[p] \/ (task'[p] = "none" /\ task[p] # "accepted")
        /\ verdict'[p] \in {"none", verdict[p]}
    BY <1>15 DEF Benign, TypeOK, Death, TaskDies
  <2>2. (Held(p)' <=> Held(p)) /\ (Returned(p)' <=> Returned(p))
    BY <2>1 DEF Held, Returned
  <2> QED  BY <2>1, <2>2 DEF RowInv, TaskInv, KnowledgeInv, IsOpen, Open
<1>16. ~AnswerLost(p)
  BY DEF Benign, AnswerLost
<1> QED  BY <1>1, <1>2, <1>3, <1>4, <1>5, <1>6, <1>7, <1>8, <1>9, <1>10, <1>11,
            <1>12, <1>13, <1>14, <1>15, <1>16
         DEF Step, RequestStep, SubmitStep, FinanceStep, WebhookStep

\* Under the benign faults the row, the ledger and the provider's record of
\* every payout tell the same story, and what a handler in flight or the sweep
\* relies on holds, however webhooks, Finance and killed tasks interleave.
THEOREM RecordsAgree ==
    ASSUME Benign PROVE Spec => []PayoutInv
<1>1. Init => PayoutInv
  BY DEF Init, PayoutInv, RowInv, TaskInv, KnowledgeInv, NoRow, IsOpen, Open,
         Held, Returned
<1>2. TypeOK /\ PayoutInv /\ [Next]_vars => PayoutInv'
  <2> SUFFICES ASSUME TypeOK, PayoutInv, [Next]_vars PROVE PayoutInv'
    OBVIOUS
  <2>1. CASE UNCHANGED vars
    BY <2>1 DEF PayoutInv, RowInv, TaskInv, KnowledgeInv, IsOpen, Held, Returned,
                vars
  <2>2. ASSUME NEW p \in Accounts, Step(p) PROVE PayoutInv'
    <3>1. PInv(p)'
      BY <2>2, StepKeepsInv DEF PayoutInv, PInv
    <3>2. ASSUME NEW q \in Accounts, q # p PROVE PInv(q)'
      <4>1. PInv(q)
        BY DEF PayoutInv, PInv
      <4>2. /\ row'[q] = row[q] /\ task'[q] = task[q]
            /\ verdict'[q] = verdict[q] /\ provider'[q] = provider[q]
            /\ q \in holding' <=> q \in holding
            /\ q \in reversing' <=> q \in reversing
            /\ Held(q)' <=> Held(q)
            /\ Returned(q)' <=> Returned(q)
        BY <2>2, <3>2, OnlyOnePayoutMoves
      <4> QED  BY <4>1, <4>2 DEF PInv, RowInv, TaskInv, KnowledgeInv, IsOpen
    <3> QED  BY <3>1, <3>2 DEF PayoutInv, PInv
  <2> QED  BY <2>1, <2>2 DEF Next
<1> QED  BY <1>1, <1>2, PayoutsTypeCorrect, PTL DEF Spec

\* So the status of a row is what the bank did: a paid payout was paid, and a
\* failed one was not and never will be.
THEOREM RowsAgreeWithBank ==
    ASSUME Benign PROVE Spec => []VerdictsAgree
<1>1. PayoutInv => VerdictsAgree
  BY DEF PayoutInv, VerdictsAgree, RowInv
<1> QED  BY <1>1, RecordsAgree, PTL

------------------------------------------------------------------------------
(* Payouts implement the escrow *)

\* A step that moves no payout's place and no balance is a stutter.
LEMMA EscrowStutters ==
    ASSUME \A q \in Accounts : PlaceOf(q)' = PlaceOf(q) /\ StakeOf(q)' = StakeOf(q),
           balance' = balance
    PROVE  UNCHANGED E!evars
  BY DEF E!evars

\* A payout on which nothing but the handlers' own bookkeeping changes keeps its
\* place.
LEMMA SamePlace ==
    ASSUME NEW q \in Accounts, UNCHANGED posted,
           provider'[q] = "paid" <=> provider[q] = "paid",
           Held(q) \/ Returned(q) => row'[q].amount = row[q].amount
    PROVE  PlaceOf(q)' = PlaceOf(q) /\ StakeOf(q)' = StakeOf(q)
  BY DEF PlaceOf, StakeOf, Held, Returned

\* Taking the hold is the escrow's ETake.
LEMMA HoldIsTake ==
    ASSUME TypeOK, PayoutInv, NEW p \in Accounts, TakeHold(p),
           \A q \in Accounts : q # p => /\ PlaceOf(q)' = PlaceOf(q)
                                       /\ StakeOf(q)' = StakeOf(q)
    PROVE  E!ENext
<1> DEFINE a == row[p].amount
<1>1. /\ p \in holding /\ a <= balance[p[1]] /\ posted' = posted \cup {Debit(p)}
      /\ row' = row /\ provider' = provider
  <2>1. a \in Nat /\ balance[p[1]] \in Nat
    BY AmountType, AccountOwner DEF TypeOK
  <2> QED  BY <2>1 DEF TakeHold, Post
<1>2. /\ ~Held(p) /\ ~Returned(p) /\ provider[p] = "none" /\ a \in Amounts
  BY <1>1 DEF PayoutInv, TaskInv, RowInv
<1>3. Held(p)' /\ ~Returned(p)'
  BY <1>1, <1>2, HoldKeys
<1>4. PlaceOf(p) = "wallet" /\ PlaceOf(p)' = "held" /\ StakeOf(p)' = a
  BY <1>1, <1>2, <1>3 DEF PlaceOf, StakeOf
<1>5. balance' = [balance EXCEPT ![p[1]] = @ - a]
  <2>1. balance' = [balance EXCEPT ![p[1]] = @ + (-a)]
    BY <1>2 DEF TakeHold, Post, Held
  <2>2. balance[p[1]] + (-a) = balance[p[1]] - a
    BY AmountType, AccountOwner DEF TypeOK
  <2> QED  BY <2>1, <2>2
<1> HIDE DEF a
<1>6. E!ETake(p, a)
  BY <1>1, <1>4, <1>5 DEF E!ETake, Accounts
<1> QED  BY <1>2, <1>6 DEF E!ENext, E!Accounts, Accounts

\* A payment by the bank is the escrow's EPay.
LEMMA BankPaysIsPay ==
    ASSUME TypeOK, PayoutInv, NEW p \in Accounts, provider[p] = "accepted",
           provider'[p] = "paid", UNCHANGED <<row, posted, balance>>,
           \A q \in Accounts : q # p => /\ PlaceOf(q)' = PlaceOf(q)
                                       /\ StakeOf(q)' = StakeOf(q)
    PROVE  E!ENext
<1>1. Held(p) /\ ~Returned(p)
  <2>1. p \notin holding /\ row[p].status \notin {"none", "paid", "failed"}
    BY DEF PayoutInv, RowInv, TaskInv
  <2>2. IsOpen(p)
    BY <2>1 DEF TypeOK, Rows, IsOpen, Open
  <2> QED  BY <2>1, <2>2 DEF PayoutInv, RowInv
<1>2. Held(p)' /\ ~Returned(p)'
  BY <1>1 DEF Held, Returned
<1>3. PlaceOf(p) = "held" /\ PlaceOf(p)' = "bank" /\ StakeOf(p)' = StakeOf(p)
  BY <1>1, <1>2 DEF PlaceOf, StakeOf
<1>4. E!EPay(p)
  BY <1>3 DEF E!EPay, Accounts
<1> QED  BY <1>4 DEF E!ENext, E!Accounts, Accounts

\* Posting the reversal is the escrow's EReturn.
LEMMA ReversalIsReturn ==
    ASSUME TypeOK, PayoutInv, NEW p \in Accounts, PostReversal(p),
           \A q \in Accounts : q # p => /\ PlaceOf(q)' = PlaceOf(q)
                                       /\ StakeOf(q)' = StakeOf(q)
    PROVE  E!ENext
<1>1. /\ p \in reversing /\ posted' = posted \cup {Reversal(p)}
      /\ row' = row /\ provider' = provider
  BY DEF PostReversal, Post
<1>2. Held(p) /\ ~Returned(p) /\ provider[p] # "paid"
  BY <1>1 DEF PayoutInv, TaskInv, RowInv
<1>3. Held(p)' /\ Returned(p)'
  BY <1>1, <1>2, ReversalKeys
<1>4. /\ PlaceOf(p) = "held" /\ PlaceOf(p)' = "returned"
      /\ StakeOf(p) = row[p].amount /\ StakeOf(p)' = StakeOf(p)
  BY <1>1, <1>2, <1>3 DEF PlaceOf, StakeOf
<1>5. balance' = [balance EXCEPT ![p[1]] = @ + StakeOf(p)]
  BY <1>2, <1>4 DEF PostReversal, Post, Returned
<1>6. E!EReturn(p)
  BY <1>4, <1>5 DEF E!EReturn, Accounts
<1> QED  BY <1>6 DEF E!ENext, E!Accounts, Accounts

\* Every step of a payout moves its money as the escrow allows, or not at all.
LEMMA StepIsEscrowStep ==
    ASSUME Benign, TypeOK, PayoutInv, NEW p \in Accounts, Step(p)
    PROVE  E!ENext \/ UNCHANGED E!evars
<1>1. \A q \in Accounts : q # p => /\ PlaceOf(q)' = PlaceOf(q)
                                  /\ StakeOf(q)' = StakeOf(q)
  <2> SUFFICES ASSUME NEW q \in Accounts, q # p
               PROVE  PlaceOf(q)' = PlaceOf(q) /\ StakeOf(q)' = StakeOf(q)
    OBVIOUS
  <2>1. /\ row'[q] = row[q] /\ provider'[q] = provider[q]
        /\ Held(q)' <=> Held(q)
        /\ Returned(q)' <=> Returned(q)
    BY OnlyOnePayoutMoves
  <2> QED  BY <2>1 DEF PlaceOf, StakeOf
<1>2. CASE TakeHold(p)
  BY <1>1, <1>2, HoldIsTake
<1>3. CASE PostReversal(p)
  BY <1>1, <1>3, ReversalIsReturn
<1>4. CASE BankDecides(p)
  <2>1. /\ provider[p] = "accepted" /\ provider'[p] \in {"paid", "failed"}
        /\ UNCHANGED <<row, posted, balance>>
    BY <1>4 DEF TypeOK, BankDecides
  <2>2. CASE provider'[p] = "paid"
    BY <1>1, <2>1, <2>2, BankPaysIsPay
  <2>3. CASE provider'[p] = "failed"
    BY <1>1, <2>1, <2>3, SamePlace, EscrowStutters
  <2> QED  BY <2>1, <2>2, <2>3
<1>5. CASE \E amount \in Amounts : Request(p, amount)
  <2>1. ~Held(p) /\ ~Returned(p)
    BY <1>5 DEF Request, NoRow, PayoutInv, RowInv
  <2>2. UNCHANGED <<posted, balance, provider>>
    BY <1>5 DEF Request
  <2> QED  BY <1>1, <2>1, <2>2, SamePlace, EscrowStutters
<1>6. CASE \/ HoldRefused(p) \/ ProviderRefuses(p) \/ FailRejected(p)
           \/ Webhook(p) \/ SweepApplies(p)
  <2>1. /\ UNCHANGED <<posted, balance>>
        /\ row'[p] = row[p] \/ \E to \in {"paid", "failed"}, ref \in BOOLEAN :
                                  row'[p] = Ended(row[p], to, ref)
    BY <1>6 DEF TypeOK, HoldRefused, ProviderRefuses, FailRejected, Webhook,
                SweepApplies, Settle, MarkPaid, MarkFailed, ToTerminal
  <2>2. row'[p].amount = row[p].amount
    <3>1. row[p] \in Rows
      BY DEF TypeOK
    <3>2. \A to \in {"paid", "failed"}, ref \in BOOLEAN :
              Ended(row[p], to, ref).amount = row[p].amount
      BY <3>1, EndedRow
    <3> QED  BY <2>1, <3>2
  <2>3. provider'[p] = "paid" <=> provider[p] = "paid"
    <3>1. CASE ProviderRefuses(p)
      <4>1. task[p] = "calling" /\ provider'[p] \in {"none", "failed"}
        BY <3>1 DEF TypeOK, ProviderRefuses
      <4> QED  BY <4>1 DEF PayoutInv, TaskInv
    <3>2. CASE ~ProviderRefuses(p)
      BY <1>6, <3>2 DEF HoldRefused, FailRejected, Webhook, SweepApplies
    <3> QED  BY <3>1, <3>2
  <2> QED  BY <1>1, <2>1, <2>2, <2>3, SamePlace, EscrowStutters
<1>7. CASE MarkProcessing(p) \/ Approve(p) \/ Reject(p)
  <2>1. UNCHANGED <<posted, balance, provider>>
    BY <1>7 DEF MarkProcessing, Approve, Reject, Decide
  <2>2. row'[p].amount = row[p].amount
    <3>1. CASE MarkProcessing(p)
      BY <3>1 DEF TypeOK, Rows, MarkProcessing
    <3>2. CASE Approve(p) \/ Reject(p)
      BY <3>2 DEF TypeOK, Rows, Approve, Reject, Decide
    <3> QED  BY <1>7, <3>1, <3>2
  <2> QED  BY <1>1, <2>1, <2>2, SamePlace, EscrowStutters
<1>8. CASE ProviderAccepts(p)
  <2>1. /\ UNCHANGED <<posted, balance, row>> /\ provider'[p] = "accepted"
        /\ task[p] = "calling"
    BY <1>8 DEF TypeOK, ProviderAccepts
  <2>2. provider[p] = "none"
    BY <2>1 DEF PayoutInv, TaskInv
  <2> QED  BY <1>1, <2>1, <2>2, SamePlace, EscrowStutters
<1>9. CASE \/ SubmitApproved(p) \/ ApprovalFails(p) \/ WebhookLost(p)
           \/ SweepReads(p) \/ Death(p)
  <2>1. UNCHANGED <<posted, balance, row, provider>>
    BY <1>9 DEF SubmitApproved, ApprovalFails, WebhookLost, SweepReads, Death
  <2> QED  BY <1>1, <2>1, SamePlace, EscrowStutters
<1>10. ~AnswerLost(p)
  BY DEF Benign, AnswerLost
<1> QED  BY <1>2, <1>3, <1>4, <1>5, <1>6, <1>7, <1>8, <1>9, <1>10
         DEF Step, RequestStep, SubmitStep, FinanceStep, WebhookStep

\* Under the benign faults payouts implement the escrow, for any owners, keys,
\* amounts and threshold: the money leaves a wallet once and covered, and ends
\* at the bank or back in the wallet, never both.
THEOREM PayoutsImplementEscrow ==
    ASSUME Benign PROVE Spec => ImplementsEscrow
<1>1. Init => E!EInit
  BY DEF Init, E!EInit, PlaceOf, StakeOf, Held, Returned, Accounts, E!Accounts
<1>2. TypeOK /\ PayoutInv /\ [Next]_vars => [E!ENext]_(E!evars)
  <2> SUFFICES ASSUME TypeOK, PayoutInv, [Next]_vars
               PROVE  E!ENext \/ UNCHANGED E!evars
    OBVIOUS
  <2>1. CASE UNCHANGED vars
    BY <2>1, EscrowStutters DEF vars, PlaceOf, StakeOf, Held, Returned
  <2>2. CASE Next
    BY <2>2, StepIsEscrowStep DEF Next
  <2> QED  BY <2>1, <2>2
<1> QED  BY <1>1, <1>2, PayoutsTypeCorrect, RecordsAgree, PTL
         DEF Spec, ImplementsEscrow, E!ESpec
=============================================================================
