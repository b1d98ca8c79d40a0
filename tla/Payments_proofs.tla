--------------------------- MODULE Payments_proofs ---------------------------
(***************************************************************************)
(* Proofs about Payments, for any number of settlements in flight, any     *)
(* fare, coupon and wallet, and any number of rows and faults: types, the  *)
(* legs in the ledger, the total they were computed from, and that what    *)
(* was credited was collected.                                             *)
(***************************************************************************)
EXTENDS Payments, SequenceTheorems, WellFoundedInduction, TLAPS

USE PaymentsAssumption

-----------------------------------------------------------------------------
(* Latest rows, first hits, and the wallet's part                          *)

\* A set of naturals has a least element.
LEMMA HasMin ==
    ASSUME NEW T \in SUBSET Nat, T # {}
    PROVE  Min(T) \in T /\ \A y \in T : Min(T) <= y
<1> DEFINE R == OpToRel(<, Nat)
<1>1. IsWellFoundedOn(R, Nat)
  BY NatLessThanWellFounded
<1> HIDE DEF R
<1>2. PICK x \in T : \A y \in T : ~(<<y, x>> \in R)
  BY <1>1, WFMin
<1>3. \A y \in T : ~(y < x)
  BY <1>2 DEF R, OpToRel
<1>4. \A y \in T : x <= y
  BY <1>3
<1> QED BY <1>4 DEF Min

\* The latest of some rows, 0 when there are none.
LEMMA HasLatest ==
    ASSUME NEW n \in Nat, NEW T \in SUBSET (1 .. n)
    PROVE  \/ Max({0} \cup T) = 0 /\ T = {}
           \/ Max({0} \cup T) \in T /\ \A y \in T : y <= Max({0} \cup T)
<1> DEFINE U == {n - y : y \in {0} \cup T}
<1>1. \A y \in {0} \cup T : n - y \in Nat
  OBVIOUS
<1>2. U \in SUBSET Nat /\ n - 0 \in U
  BY <1>1
<1>3. PICK u \in U : \A v \in U : u <= v
  BY <1>2, HasMin
<1>4. PICK x \in {0} \cup T : u = n - x
  OBVIOUS
<1>5. \A y \in {0} \cup T : x >= y
  <2> SUFFICES ASSUME NEW y \in {0} \cup T PROVE x >= y
    OBVIOUS
  <2>1. n - x <= n - y
    BY <1>3, <1>4
  <2> QED BY <2>1
<1> HIDE DEF U
<1>6. /\ Max({0} \cup T) \in {0} \cup T
      /\ \A y \in {0} \cup T : Max({0} \cup T) >= y
  BY <1>5 DEF Max
<1>7. CASE Max({0} \cup T) = 0
  <2>1. \A y \in T : FALSE
    BY <1>6, <1>7
  <2> QED BY <1>7, <2>1
<1>8. CASE Max({0} \cup T) # 0
  BY <1>6, <1>8
<1> QED BY <1>7, <1>8

\* What openIntent finds.
LEMMA OpenFacts ==
    ASSUME rows \in Seq(Row)
    PROVE  \/ openIntent = 0 /\ \A r \in DOMAIN rows : ~Open(r)
           \/ /\ openIntent \in DOMAIN rows /\ openIntent # 0 /\ Open(openIntent)
              /\ \A r \in DOMAIN rows : Open(r) => r <= openIntent
<1> DEFINE T == {r \in DOMAIN rows : Open(r)}
<1>1. T \in SUBSET (1 .. Len(rows)) /\ Len(rows) \in Nat
  BY LenProperties
<1>2. openIntent = Max({0} \cup T)
  BY DEF openIntent
<1>3. \/ Max({0} \cup T) = 0 /\ T = {}
      \/ Max({0} \cup T) \in T /\ \A y \in T : y <= Max({0} \cup T)
  BY <1>1, HasLatest
<1>4. openIntent # 0 => openIntent \in 1 .. Len(rows)
  BY <1>1, <1>2, <1>3
<1> QED BY <1>2, <1>3, <1>4

\* What capturedFor finds.
LEMMA CapturedFacts ==
    ASSUME rows \in Seq(Row)
    PROVE  \/ capturedFor = 0 /\ \A r \in DOMAIN rows : rows[r].status # "captured"
           \/ /\ capturedFor \in DOMAIN rows /\ capturedFor # 0
              /\ rows[capturedFor].status = "captured"
<1> DEFINE T == {r \in DOMAIN rows : rows[r].status = "captured"}
<1>1. T \in SUBSET (1 .. Len(rows)) /\ Len(rows) \in Nat
  BY LenProperties
<1>2. capturedFor = Max({0} \cup T)
  BY DEF capturedFor
<1>3. \/ Max({0} \cup T) = 0 /\ T = {}
      \/ Max({0} \cup T) \in T /\ \A y \in T : y <= Max({0} \cup T)
  BY <1>1, HasLatest
<1>4. capturedFor # 0 => capturedFor \in 1 .. Len(rows)
  BY <1>1, <1>2, <1>3
<1> QED BY <1>2, <1>3, <1>4

\* What byGatewayRef finds.
LEMMA RefFacts ==
    ASSUME rows \in Seq(Row), NEW h
    PROVE  \/ byGatewayRef(h) = 0 /\ \A r \in DOMAIN rows : rows[r].ref # h
           \/ /\ byGatewayRef(h) \in DOMAIN rows /\ byGatewayRef(h) # 0
              /\ rows[byGatewayRef(h)].ref = h
<1> DEFINE T == {r \in DOMAIN rows : rows[r].ref = h}
<1>1. T \in SUBSET (1 .. Len(rows)) /\ Len(rows) \in Nat
  BY LenProperties
<1>2. byGatewayRef(h) = Max({0} \cup T)
  BY DEF byGatewayRef
<1>3. \/ Max({0} \cup T) = 0 /\ T = {}
      \/ Max({0} \cup T) \in T /\ \A y \in T : y <= Max({0} \cup T)
  BY <1>1, HasLatest
<1>4. byGatewayRef(h) # 0 => byGatewayRef(h) \in 1 .. Len(rows)
  BY <1>1, <1>2, <1>3
<1> QED BY <1>2, <1>3, <1>4

\* ensureCapturedRow takes the first of its four look-ups that finds a row.
LEMMA ExistingFacts ==
    ASSUME NEW h
    PROVE  Existing(h) = IF byGatewayRef(h) # 0 THEN byGatewayRef(h)
                         ELSE IF byOrderRef(h) # 0 THEN byOrderRef(h)
                         ELSE IF openIntent # 0 THEN openIntent ELSE capturedFor
<1> DEFINE found == <<byGatewayRef(h), byOrderRef(h), openIntent, capturedFor>>
           hits  == {i \in DOMAIN found : found[i] # 0}
<1>1. DOMAIN found = 1 .. 4
  OBVIOUS
<1>2. hits \in SUBSET Nat
  BY <1>1
<1>3. Existing(h) = IF hits = {} THEN 0 ELSE found[Min(hits)]
  BY DEF Existing
<1>4. \A i \in 1 .. 4 : i \in hits <=> found[i] # 0
  BY <1>1
<1>5. hits # {} => Min(hits) \in hits /\ \A i \in hits : Min(hits) <= i
  BY <1>2, HasMin
<1>6. \A i \in hits : i \in 1 .. 4
  BY <1>1
<1> HIDE DEF hits
<1>7. CASE hits = {}
  BY <1>3, <1>4, <1>7
<1>8. CASE hits # {}
  <2> DEFINE m == Min(hits)
  <2>1. m \in 1 .. 4 /\ found[m] # 0 /\ \A i \in 1 .. 4 : found[i] # 0 => m <= i
    BY <1>4, <1>5, <1>6, <1>8
  <2>2. Existing(h) = found[m]
    BY <1>3, <1>8
  <2> HIDE DEF m
  <2>3. m = 1 \/ m = 2 \/ m = 3 \/ m = 4
    BY <2>1
  <2> QED BY <2>1, <2>2, <2>3
<1> QED BY <1>7, <1>8

\* The wallet pays what it has, up to the bill, and nothing when overdrawn.
LEMMA WalletPartFacts ==
    ASSUME balance \in Int, total \in Nat
    PROVE  walletPart = IF balance < 0 THEN 0
                        ELSE IF balance <= total THEN balance ELSE total
<1>1. \A a, b \in Int : Min({a, b}) = IF a <= b THEN a ELSE b
  BY DEF Min
<1>2. \A a, b \in Int : Max({a, b}) = IF a >= b THEN a ELSE b
  BY DEF Max
<1>3. Min({balance, total}) = IF balance <= total THEN balance ELSE total
  BY <1>1
<1>4. walletPart = IF 0 >= Min({balance, total}) THEN 0 ELSE Min({balance, total})
  BY <1>2, <1>3 DEF walletPart
<1> QED BY <1>3, <1>4

-----------------------------------------------------------------------------
(* The invariant that holds whatever fails                                 *)

Idle(w) == task[w].pc = "idle"
IsCaptured(r) == r \in DOMAIN rows /\ rows[r].status = "captured"
IntentRec == [pc : {"idle", "insert", "order"}, row : 0 .. MaxRows,
              amount : 0 .. Fare, wallet : 0 .. Fare]
TaskRec == [pc : SettlePcs, of : 0 .. MaxRows, status : {"completed", "cancelled"},
            total : 0 .. Fare, row : 0 .. MaxRows, held : BOOLEAN]

\* The two unique indexes: a reference is stored with the capture, and one row
\* of the booking is captured.
RowsOK ==
    /\ \A r \in DOMAIN rows :
        /\ rows[r].status = "captured" => rows[r].ref \in DOMAIN rows
        /\ rows[r].ref # 0 => rows[r].status = "captured"
    /\ \A r, s \in DOMAIN rows : IsCaptured(r) /\ IsCaptured(s) => r = s

\* An order belongs to a row that stored it, an event to a captured order.
OrdersOK ==
    \A r \in RowIds :
        /\ orders[r].state # "none" =>
               r \in DOMAIN rows /\ rows[r].provider # "cash" /\ rows[r].order
        /\ events[r] = "sent" => orders[r].state = "captured"

\* A settlement reports an existing row, and works on an existing row.
TaskOK(w) ==
    ~Idle(w) =>
        /\ task[w].of \in DOMAIN rows
        /\ rows[task[w].of].provider # "cash" => rows[task[w].of].order
        /\ task[w].row \in {0} \cup DOMAIN rows
        /\ task[w].pc \in {"mark", "claim"} => task[w].row # 0

\* The rows the other handlers hold, and a wallet overdrawn at most once.
HandlersOK ==
    /\ intent.pc = "order" => /\ intent.row \in DOMAIN rows
                              /\ rows[intent.row].provider # "cash"
                              /\ ~rows[intent.row].order
    /\ stuck # 0 => stuck \in DOMAIN rows /\ rows[stuck].provider = "gateway"
    /\ ~Posted("wallet") => balance >= 0

BaseInv == /\ TypeOK /\ RowsOK /\ OrdersOK /\ HandlersOK
           /\ \A w \in Workers : TaskOK(w)

LEMMA RowTyped == ASSUME TypeOK PROVE /\ \A r \in DOMAIN rows : rows[r] \in Row
                                      /\ DOMAIN rows = 1 .. Len(rows) /\ Len(rows) \in Nat
BY LenProperties, ElementOfSeq DEF TypeOK

LEMMA RowNumbers == ASSUME TypeOK PROVE DOMAIN rows \subseteq 1 .. MaxRows
<1>1. DOMAIN rows = 1 .. Len(rows) /\ Len(rows) \in Nat
  BY RowTyped
<1>2. Len(rows) <= MaxRows
  BY DEF TypeOK
<1> QED BY <1>1, <1>2

-----------------------------------------------------------------------------
(* What a step may do to the rows                                          *)

\* A row keeps who collects, the wallet's part, its key and its order; it is
\* never reopened, and a captured one stays captured.
Kept(q) ==
    /\ rows'[q].provider = rows[q].provider /\ rows'[q].wallet = rows[q].wallet
    /\ rows'[q].key = rows[q].key /\ rows'[q].order = rows[q].order
    /\ rows'[q].status = "pending" => rows[q].status = "pending"
    /\ rows[q].status = "captured" =>
           rows'[q].status = "captured" /\ rows'[q].ref = rows[q].ref

Evolve == /\ rows' \in Seq(Row) /\ Len(rows') <= MaxRows
          /\ DOMAIN rows \subseteq DOMAIN rows'
          /\ \A q \in DOMAIN rows : Kept(q)

\* A row stays, or fails if it was pending.
Stays(q) == \/ rows'[q] = rows[q]
            \/ rows[q].status = "pending" /\ rows'[q] = [rows[q] EXCEPT !.status = "failed"]

Fails == /\ rows' \in Seq(Row) /\ Len(rows') = Len(rows) /\ DOMAIN rows' = DOMAIN rows
         /\ \A q \in DOMAIN rows : Stays(q)

Adds(v) == /\ rows' \in Seq(Row) /\ Len(rows') = Len(rows) + 1 /\ Len(rows') <= MaxRows
           /\ DOMAIN rows' = DOMAIN rows \cup {Len(rows) + 1}
           /\ rows'[Len(rows) + 1] = v
           /\ \A q \in DOMAIN rows : Stays(q)

Captures(r, h) ==
    /\ rows' \in Seq(Row) /\ Len(rows') = Len(rows) /\ DOMAIN rows' = DOMAIN rows
    /\ rows'[r] = [rows[r] EXCEPT !.status = "captured", !.ref = h]
    /\ \A q \in DOMAIN rows \ {r} : rows'[q] = rows[q]

LEMMA SetOne ==
    ASSUME TypeOK, NEW r \in DOMAIN rows, NEW v \in Row, NEW t, t = [rows EXCEPT ![r] = v]
    PROVE  /\ t \in Seq(Row) /\ Len(t) = Len(rows) /\ DOMAIN t = DOMAIN rows
           /\ t[r] = v /\ \A q \in DOMAIN rows \ {r} : t[q] = rows[q]
<1>1. rows \in Seq(Row) /\ r \in 1 .. Len(rows)
  BY RowTyped DEF TypeOK
<1>2. t \in Seq(Row) /\ Len(t) = Len(rows)
  BY <1>1, ExceptSeq
<1> QED BY <1>2

LEMMA FailOne ==
    ASSUME TypeOK, NEW r \in DOMAIN rows, Open(r), rows' = Failed(r)
    PROVE  Fails
<1>1. rows \in Seq(Row) /\ r \in 1 .. Len(rows) /\ rows[r] \in Row
  BY RowTyped DEF TypeOK
<1> DEFINE v == [rows[r] EXCEPT !.status = "failed"]
<1>2. v \in Row
  BY <1>1 DEF Row
<1>3. rows' = [rows EXCEPT ![r] = v]
  BY <1>1 DEF Failed
<1> HIDE DEF v
<1>4. /\ rows' \in Seq(Row) /\ Len(rows') = Len(rows) /\ DOMAIN rows' = DOMAIN rows
      /\ rows'[r] = v /\ \A q \in DOMAIN rows \ {r} : rows'[q] = rows[q]
  BY <1>2, <1>3, SetOne
<1> QED BY <1>4 DEF Fails, Stays, Open, v

LEMMA FailNone == ASSUME TypeOK, UNCHANGED rows PROVE Fails
BY DEF Fails, Stays, TypeOK

\* DisputeCancels fails every open row at once.
LEMMA FailOpen ==
    ASSUME TypeOK,
           rows' = [r \in DOMAIN rows |->
                       IF Open(r) THEN [rows[r] EXCEPT !.status = "failed"] ELSE rows[r]]
    PROVE  Fails
<1>1. /\ \A r \in DOMAIN rows : rows[r] \in Row
      /\ DOMAIN rows = 1 .. Len(rows) /\ Len(rows) \in Nat
  BY RowTyped
<1>2. \A r \in DOMAIN rows : [rows[r] EXCEPT !.status = "failed"] \in Row
  BY <1>1 DEF Row
<1>3. rows' \in [1 .. Len(rows) -> Row]
  BY <1>1, <1>2
<1>4. rows' \in Seq(Row)
  BY <1>1, <1>3, SeqDef
<1>5. DOMAIN rows' = DOMAIN rows
  OBVIOUS
<1>6. Len(rows') = Len(rows)
  BY <1>1, <1>4, <1>5, LenProperties
<1> QED BY <1>4, <1>5, <1>6 DEF Fails, Stays, Open

LEMMA NewRowTyped ==
    ASSUME NEW p \in Providers, NEW a \in 0 .. Fare, NEW x \in 0 .. Fare, NEW k \in 0 .. MaxRows
    PROVE  NewRow(p, a, x, k) \in Row
BY DEF NewRow, Row, Providers

\* A row is appended, the open ones perhaps failed before.
LEMMA AddOne ==
    ASSUME TypeOK, Len(rows) < MaxRows, NEW v \in Row, NEW closed, rows' = Append(closed, v),
           closed = rows \/ (\E r \in DOMAIN rows : Open(r) /\ closed = Failed(r))
    PROVE  Adds(v)
<1>1. /\ closed \in Seq(Row) /\ Len(closed) = Len(rows) /\ DOMAIN closed = DOMAIN rows
      /\ \A q \in DOMAIN rows :
            \/ closed[q] = rows[q]
            \/ rows[q].status = "pending" /\ closed[q] = [rows[q] EXCEPT !.status = "failed"]
  <2>1. CASE closed = rows
    BY <2>1 DEF TypeOK
  <2>2. CASE \E r \in DOMAIN rows : Open(r) /\ closed = Failed(r)
    <3>1. PICK r \in DOMAIN rows : Open(r) /\ closed = Failed(r)
      BY <2>2
    <3>2. rows \in Seq(Row) /\ r \in 1 .. Len(rows) /\ rows[r] \in Row
      BY RowTyped DEF TypeOK
    <3> DEFINE v0 == [rows[r] EXCEPT !.status = "failed"]
    <3>3. v0 \in Row
      BY <3>2 DEF Row
    <3>4. closed = [rows EXCEPT ![r] = v0]
      BY <3>1, <3>2 DEF Failed
    <3> HIDE DEF v0
    <3>5. /\ closed \in Seq(Row) /\ Len(closed) = Len(rows) /\ DOMAIN closed = DOMAIN rows
          /\ closed[r] = v0
          /\ \A q \in DOMAIN rows \ {r} : closed[q] = rows[q]
      BY <3>3, <3>4, SetOne
    <3> QED BY <3>1, <3>5 DEF Open, v0
  <2> QED BY <2>1, <2>2
<1>2. /\ rows' \in Seq(Row) /\ Len(rows') = Len(closed) + 1
      /\ \A q \in 1 .. Len(closed) : rows'[q] = closed[q]
      /\ rows'[Len(closed) + 1] = v
  BY <1>1, AppendProperties
<1>3. /\ DOMAIN rows = 1 .. Len(rows) /\ Len(rows) \in Nat
      /\ DOMAIN rows' = 1 .. Len(rows')
  BY <1>2, RowTyped, LenProperties
<1>4. DOMAIN rows' = DOMAIN rows \cup {Len(rows) + 1} /\ Len(rows') <= MaxRows
  BY <1>1, <1>2, <1>3, SMTT(40) DEF TypeOK
<1>5. \A q \in DOMAIN rows : Stays(q)
  BY <1>1, <1>2, <1>3 DEF Stays
<1> QED BY <1>1, <1>2, <1>4, <1>5 DEF Adds

LEMMA CaptureOne ==
    ASSUME TypeOK, NEW r \in DOMAIN rows, NEW h \in 0 .. MaxRows,
           rows' = [rows EXCEPT ![r].status = "captured", ![r].ref = h]
    PROVE  Captures(r, h)
<1>1. rows \in Seq(Row) /\ r \in 1 .. Len(rows) /\ rows[r] \in Row
  BY RowTyped DEF TypeOK
<1> DEFINE v == [rows[r] EXCEPT !.status = "captured", !.ref = h]
<1>2. v \in Row
  BY <1>1 DEF Row
<1>3. rows' = [rows EXCEPT ![r] = v]
  BY <1>1
<1> QED BY <1>2, <1>3, SetOne DEF Captures

LEMMA StaysKept ==
    ASSUME NEW q, rows[q] \in Row, Stays(q)
    PROVE  /\ Kept(q) /\ rows'[q].ref = rows[q].ref
           /\ rows'[q].status = "captured" => rows[q].status = "captured"
<1>1. CASE rows'[q] = rows[q]
  BY <1>1 DEF Kept
<1>2. CASE rows[q].status = "pending" /\ rows'[q] = [rows[q] EXCEPT !.status = "failed"]
  BY <1>2 DEF Kept, Row
<1> QED BY <1>1, <1>2 DEF Stays

\* All three are ways to evolve, and keep the unique indexes.
LEMMA FailsEvolve ==
    ASSUME BaseInv, Fails PROVE Evolve /\ RowsOK'
<1>1. \A q \in DOMAIN rows : rows[q] \in Row
  BY RowTyped DEF BaseInv
<1>2. \A q \in DOMAIN rows : /\ Kept(q) /\ rows'[q].ref = rows[q].ref
                             /\ rows'[q].status = "captured" => rows[q].status = "captured"
  BY <1>1, StaysKept DEF Fails
<1>3. Evolve
  BY <1>2 DEF BaseInv, TypeOK, Fails, Evolve
<1>4. DOMAIN rows' = DOMAIN rows /\ RowsOK
  BY DEF Fails, BaseInv
<1>5. RowsOK'
  BY <1>2, <1>4 DEF RowsOK, IsCaptured, Kept
<1> QED BY <1>3, <1>5

LEMMA AddsEvolve ==
    ASSUME BaseInv, NEW v, Adds(v), v.status = "pending", v.ref = 0
    PROVE  Evolve /\ RowsOK'
<1>1. \A q \in DOMAIN rows : rows[q] \in Row
  BY RowTyped DEF BaseInv
<1>2. \A q \in DOMAIN rows : /\ Kept(q) /\ rows'[q].ref = rows[q].ref
                             /\ rows'[q].status = "captured" => rows[q].status = "captured"
  BY <1>1, StaysKept DEF Adds
<1>3. Evolve
  BY <1>2 DEF Adds, Evolve
<1>4. /\ DOMAIN rows' = DOMAIN rows \cup {Len(rows) + 1} /\ RowsOK
      /\ rows'[Len(rows) + 1].status = "pending" /\ rows'[Len(rows) + 1].ref = 0
  BY DEF Adds, BaseInv
<1>5. \A q \in DOMAIN rows' : rows'[q].status = "captured" => q \in DOMAIN rows /\ rows[q].status = "captured"
  BY <1>2, <1>4
<1>6. RowsOK'
  BY <1>2, <1>4, <1>5 DEF RowsOK, IsCaptured, Kept
<1> QED BY <1>3, <1>6

LEMMA CapturesEvolve ==
    ASSUME BaseInv, NEW r \in DOMAIN rows, NEW h \in DOMAIN rows, Captures(r, h),
           \A q \in DOMAIN rows \ {r} : rows[q].status # "captured",
           rows[r].status # "captured" \/ rows[r].ref = h
    PROVE  Evolve /\ RowsOK'
<1>1. \A q \in DOMAIN rows : rows[q] \in Row
  BY RowTyped DEF BaseInv
<1>2. Kept(r) /\ rows'[r].status = "captured" /\ rows'[r].ref = h
  BY <1>1 DEF Captures, Kept, Row
<1>3. \A q \in DOMAIN rows \ {r} : Kept(q)
  BY DEF Captures, Kept
<1>4. Evolve
  BY <1>2, <1>3 DEF Captures, Evolve, BaseInv, TypeOK
<1>5. RowsOK'
  BY <1>2 DEF BaseInv, Captures, RowsOK, IsCaptured
<1> QED BY <1>4, <1>5

-----------------------------------------------------------------------------
(* The base invariant is kept                                              *)

LEMMA FaultType ==
    ASSUME TypeOK, NEW ok, NEW kind, FaultUnless(ok, kind)
    PROVE  faults' \in 0 .. MaxFaults /\ (ok \/ kind \in Faults)
BY DEF TypeOK, FaultUnless, Fault

LEMMA OrdersKept ==
    ASSUME OrdersOK, Evolve, UNCHANGED <<orders, events>> PROVE OrdersOK'
BY DEF OrdersOK, Evolve, Kept

LEMMA TaskKept ==
    ASSUME NEW w \in Workers, TaskOK(w), Evolve, task'[w] = task[w] PROVE TaskOK(w)'
BY DEF TaskOK, Evolve, Kept, Idle

LEMMA HandlersKept ==
    ASSUME HandlersOK, Evolve, UNCHANGED <<intent, stuck, balance, ledger>> PROVE HandlersOK'
BY DEF HandlersOK, Evolve, Kept, Posted

\* A step that only moves rows, for a settlement, an intent or the sweep.
LEMMA RowsMove ==
    ASSUME BaseInv, Evolve, RowsOK', UNCHANGED <<orders, events>>,
           TypeOK', HandlersOK', \A w \in Workers : TaskOK(w)'
    PROVE  BaseInv'
BY OrdersKept DEF BaseInv

\* withLock: the settlement starts, or the caller gives up.
LEMMA BeginTask ==
    ASSUME TypeOK, NEW w \in Workers, NEW h \in RowIds, Begin(w, h)
    PROVE  /\ task' \in [Workers -> TaskRec] /\ lock' \in BOOLEAN /\ faults' \in 0 .. MaxFaults
           /\ \A v \in Workers \ {w} : task'[v] = task[v]
           /\ task[w].pc = "idle"
           /\ \/ task'[w] = task[w]
              \/ /\ task'[w].pc = "inputs" /\ task'[w].of = h /\ task'[w].row = 0
                 /\ "redis" \in Faults \/ (~lock /\ lock' /\ task'[w].held)
           /\ \/ UNCHANGED lock
              \/ lock' = TRUE
<1>1. task \in [Workers -> TaskRec] /\ lock \in BOOLEAN /\ faults \in 0 .. MaxFaults
  BY DEF TypeOK, TaskRec
<1>2. NoTask \in TaskRec /\ h \in 0 .. MaxRows
  BY DEF NoTask, TaskRec, SettlePcs, RowIds
<1>3. CASE lock /\ UNCHANGED <<lock, task, faults>>
  BY <1>1, <1>3 DEF Begin
<1>4. CASE /\ ~lock /\ lock' = TRUE /\ UNCHANGED faults
           /\ task' = [task EXCEPT ![w] =
                          [NoTask EXCEPT !.pc = "inputs", !.of = h, !.held = TRUE]]
  <2> DEFINE t == [NoTask EXCEPT !.pc = "inputs", !.of = h, !.held = TRUE]
  <2>1. t \in TaskRec /\ t.pc = "inputs" /\ t.of = h /\ t.row = 0 /\ t.held = TRUE
    BY <1>2 DEF NoTask, TaskRec, SettlePcs
  <2> HIDE DEF t
  <2>2. task' = [task EXCEPT ![w] = t]
    BY <1>4 DEF t
  <2> QED BY <1>1, <1>4, <2>1, <2>2 DEF Begin
<1>5. CASE /\ Fault("redis") /\ UNCHANGED lock
           /\ task' = [task EXCEPT ![w] = [NoTask EXCEPT !.pc = "inputs", !.of = h]]
  <2> DEFINE t == [NoTask EXCEPT !.pc = "inputs", !.of = h]
  <2>1. t \in TaskRec /\ t.pc = "inputs" /\ t.of = h /\ t.row = 0
    BY <1>2 DEF NoTask, TaskRec, SettlePcs
  <2> HIDE DEF t
  <2>2. task' = [task EXCEPT ![w] = t]
    BY <1>5 DEF t
  <2>3. faults' \in 0 .. MaxFaults /\ "redis" \in Faults
    BY <1>1, <1>5 DEF Fault
  <2>4. /\ task' \in [Workers -> TaskRec] /\ task'[w] = t
        /\ \A v \in Workers \ {w} : task'[v] = task[v]
    BY <1>1, <2>1, <2>2
  <2>5. task[w].pc = "idle"
    BY DEF Begin
  <2> QED BY <1>1, <1>5, <2>1, <2>3, <2>4, <2>5
<1> QED BY <1>3, <1>4, <1>5 DEF Begin

\* Whoever starts a settlement names a row that can be found again.
LEMMA BeginBase ==
    ASSUME BaseInv, NEW w \in Workers, NEW h \in DOMAIN rows, Begin(w, h),
           rows[h].provider # "cash" => rows[h].order,
           UNCHANGED <<booking, total, rows, orders, balance, ledger, paidOn, intent, stuck, closing>>,
           events' \in [RowIds -> {"none", "sent", "gone"}],
           \A r \in RowIds : events'[r] = "sent" => events[r] = "sent"
    PROVE  BaseInv'
<1>1. TypeOK /\ RowsOK /\ OrdersOK /\ HandlersOK /\ \A v \in Workers : TaskOK(v)
  BY DEF BaseInv
<1>2. h \in RowIds
  BY <1>1, RowNumbers DEF RowIds
<1>3. /\ task' \in [Workers -> TaskRec] /\ lock' \in BOOLEAN /\ faults' \in 0 .. MaxFaults
      /\ \A v \in Workers \ {w} : task'[v] = task[v]
      /\ \/ task'[w] = task[w]
         \/ task'[w].pc = "inputs" /\ task'[w].of = h /\ task'[w].row = 0
  BY <1>1, <1>2, BeginTask
<1>4. TypeOK'
  BY <1>1, <1>3 DEF TypeOK, TaskRec
<1>5. \A v \in Workers : TaskOK(v)'
  BY <1>1, <1>3 DEF TaskOK, Idle
<1>6. RowsOK' /\ OrdersOK' /\ HandlersOK'
  BY <1>1 DEF RowsOK, OrdersOK, HandlersOK, IsCaptured, Posted
<1> QED BY <1>4, <1>5, <1>6 DEF BaseInv

\* The intent takes a row to its order.
LEMMA IntentTakes ==
    ASSUME TypeOK, NEW r \in 1 .. MaxRows, intent' = [intent EXCEPT !.pc = "order", !.row = r]
    PROVE  /\ intent' \in IntentRec /\ intent'.pc = "order" /\ intent'.row = r
           /\ intent'.amount = intent.amount /\ intent'.wallet = intent.wallet
<1>1. intent \in IntentRec
  BY DEF TypeOK, IntentRec
<1>2. intent' = [pc |-> "order", row |-> r, amount |-> intent.amount, wallet |-> intent.wallet]
  BY <1>1 DEF IntentRec
<1>3. r \in 0 .. MaxRows /\ intent.amount \in 0 .. Fare /\ intent.wallet \in 0 .. Fare
  BY <1>1 DEF IntentRec
<1> QED BY <1>2, <1>3 DEF IntentRec

\* A customer's request: the intent, the cash choice, the coupon, the wallet.
LEMMA CustomerBase ==
    ASSUME BaseInv, Customer PROVE BaseInv'
<1>0. /\ TypeOK /\ RowsOK /\ OrdersOK /\ HandlersOK /\ \A v \in Workers : TaskOK(v)
      /\ total \in Nat /\ total <= Fare /\ balance \in Int
  BY DEF BaseInv, TypeOK
<1>1. /\ walletPart \in 0 .. Fare /\ total - walletPart \in 0 .. Fare
      /\ total \in 0 .. Fare
  BY <1>0, WalletPartFacts
<1>2. CASE CreateIntentRead
  <2> DEFINE cash == openIntent # 0 /\ rows[openIntent].provider = "cash"
             kept == IF cash THEN 0 ELSE openIntent
  <2>1. /\ kept # 0 => ~rows[kept].order
        /\ rows' = IF cash THEN Failed(openIntent) ELSE rows
        /\ intent' = [pc |-> IF kept = 0 THEN "insert" ELSE "order",
                      row |-> kept, amount |-> total - walletPart, wallet |-> walletPart]
    BY <1>2 DEF CreateIntentRead
  <2>2. /\ faults' \in 0 .. MaxFaults
        /\ UNCHANGED <<booking, total, orders, events, balance, ledger, paidOn, stuck, closing, lock, task>>
    BY <1>0, <1>2, FaultType DEF CreateIntentRead
  <2>3. Fails
    BY <1>0, <2>1, FailOne, FailNone, OpenFacts DEF TypeOK
  <2>4. Evolve /\ RowsOK'
    BY <2>3, FailsEvolve
  <2>5. openIntent \in {0} \cup DOMAIN rows
    BY <1>0, OpenFacts DEF TypeOK
  <2>6. /\ intent'.pc \in {"insert", "order"} /\ intent'.row = kept
        /\ intent'.pc = "order" => kept # 0
        /\ intent' \in IntentRec
    BY <1>0, <1>1, <2>1, <2>5, RowNumbers DEF IntentRec
  <2>7. TypeOK'
    BY <1>0, <2>2, <2>4, <2>6 DEF TypeOK, Evolve, IntentRec
  <2>8. kept # 0 => kept \in DOMAIN rows /\ rows[kept].provider # "cash"
    BY <2>5
  <2>9. HandlersOK'
    BY <1>0, <2>1, <2>2, <2>4, <2>6, <2>8 DEF HandlersOK, Evolve, Kept, Posted
  <2> QED BY <1>0, <2>2, <2>4, <2>7, <2>9, TaskKept, RowsMove
<1>3. CASE CreateIntentInsert
  <2> DEFINE v == NewRow(IF intent.wallet > 0 /\ intent.amount = 0 THEN "wallet" ELSE "gateway",
                         intent.amount, intent.wallet, 0)
  <2>1. v \in Row /\ v.status = "pending" /\ v.ref = 0 /\ v.order = FALSE /\ v.provider # "cash"
    <3>1. intent.amount \in 0 .. Fare /\ intent.wallet \in 0 .. Fare
      BY <1>0 DEF TypeOK
    <3> QED BY <3>1, NewRowTyped DEF NewRow, Providers
  <2> HIDE DEF v
  <2>2. Adds(v)
    BY <1>0, <1>3, <2>1, AddOne DEF CreateIntentInsert, v
  <2>3. Evolve /\ RowsOK'
    BY <2>1, <2>2, AddsEvolve
  <2>4. /\ intent' = [intent EXCEPT !.pc = "order", !.row = Len(rows) + 1]
        /\ UNCHANGED <<booking, total, orders, events, balance, ledger, paidOn,
                       stuck, closing, lock, task, faults>>
        /\ Len(rows) < MaxRows
    BY <1>3 DEF CreateIntentInsert
  <2>5. /\ intent'.row = Len(rows) + 1
        /\ intent' \in IntentRec
    <3>1. Len(rows) + 1 \in 1 .. MaxRows
      BY <1>0, <2>4, RowTyped
    <3> QED BY <1>0, <2>4, <3>1, IntentTakes
  <2>6. TypeOK'
    BY <1>0, <2>3, <2>4, <2>5 DEF TypeOK, Evolve, IntentRec
  <2>7. HandlersOK'
    BY <1>0, <2>1, <2>2, <2>3, <2>4, <2>5 DEF HandlersOK, Evolve, Kept, Posted, Adds
  <2> QED BY <1>0, <2>3, <2>4, <2>6, <2>7, TaskKept, RowsMove
<1>4. CASE CreateIntentReplays
  <2>1. PICK r \in DOMAIN rows : /\ rows[r].provider # "cash" /\ ~rows[r].order
                                 /\ intent' = [intent EXCEPT !.pc = "order", !.row = r]
    BY <1>4 DEF CreateIntentReplays
  <2>2. /\ intent'.row = r
        /\ intent' \in IntentRec
    <3>1. r \in 1 .. MaxRows
      BY <1>0, RowNumbers
    <3> QED BY <1>0, <2>1, <3>1, IntentTakes
  <2>3. TypeOK'
    BY <1>0, <1>4, <2>2 DEF TypeOK, CreateIntentReplays, IntentRec
  <2>4. HandlersOK'
    BY <1>0, <1>4, <2>1, <2>2 DEF HandlersOK, CreateIntentReplays, Posted
  <2> QED BY <1>0, <1>4, <2>3, <2>4
          DEF BaseInv, CreateIntentReplays, RowsOK, OrdersOK, TaskOK, Idle, IsCaptured
<1>5. CASE CreateIntentOrder
  <2> DEFINE r == intent.row
             v == [rows[r] EXCEPT !.order = TRUE]
  <2>1. r \in DOMAIN rows /\ rows[r] \in Row /\ rows[r].provider # "cash"
    BY <1>0, <1>5, RowTyped DEF HandlersOK, CreateIntentOrder
  <2>2. v \in Row /\ rows' = [rows EXCEPT ![r] = v]
    BY <1>5, <2>1 DEF Row, CreateIntentOrder
  <2>3. /\ v.provider = rows[r].provider /\ v.status = rows[r].status
        /\ v.ref = rows[r].ref /\ v.order = TRUE
    BY <2>1 DEF Row
  <2> HIDE DEF r, v
  <2>4. /\ rows' \in Seq(Row) /\ Len(rows') = Len(rows) /\ DOMAIN rows' = DOMAIN rows
        /\ rows'[r] = v /\ \A q \in DOMAIN rows \ {r} : rows'[q] = rows[q]
    <3>1. TypeOK
      BY <1>0
    <3> QED BY <2>1, <2>2, <3>1, SetOne, ZenonT(60)
  <2>5. \/ orders' = orders
        \/ orders' = [orders EXCEPT ![r] = [state |-> "open", amount |-> intent.amount]]
    BY <1>5 DEF CreateIntentOrder, r
  <2>6. /\ orders' \in [RowIds -> [state : {"none", "open", "captured"}, amount : 0 .. Fare]]
        /\ \A q \in RowIds \ {r} : orders'[q] = orders[q]
    <3>1. [state |-> "open", amount |-> intent.amount]
              \in [state : {"none", "open", "captured"}, amount : 0 .. Fare]
      BY <1>0 DEF TypeOK
    <3>2. orders \in [RowIds -> [state : {"none", "open", "captured"}, amount : 0 .. Fare]]
      BY <1>0 DEF TypeOK
    <3> QED BY <2>5, <3>1, <3>2
  <2>7. /\ UNCHANGED <<booking, total, events, balance, ledger, paidOn, stuck, closing, lock, task, faults>>
        /\ intent' = NoIntent
    BY <1>5 DEF CreateIntentOrder
  <2>8. NoIntent \in IntentRec /\ NoIntent.pc = "idle"
    BY DEF NoIntent, IntentRec
  <2>9. TypeOK'
    BY <1>0, <2>4, <2>6, <2>7, <2>8 DEF TypeOK, IntentRec
  <2>10. RowsOK'
    BY <1>0, <2>1, <2>3, <2>4 DEF RowsOK, IsCaptured
  <2>11. orders[r].state = "none" /\ events[r] # "sent"
    BY <1>0, <1>5, <2>1, RowNumbers DEF OrdersOK, HandlersOK, CreateIntentOrder, RowIds, r
  <2>12. OrdersOK'
    BY <1>0, <2>1, <2>3, <2>4, <2>6, <2>7, <2>11 DEF OrdersOK
  <2>13. HandlersOK'
    BY <1>0, <2>1, <2>3, <2>4, <2>7, <2>8 DEF HandlersOK, Posted
  <2>14. \A w \in Workers : TaskOK(w)'
    BY <1>0, <2>1, <2>3, <2>4, <2>7 DEF TaskOK, Idle
  <2> QED BY <2>9, <2>10, <2>12, <2>13, <2>14 DEF BaseInv
<1>6. CASE CreateIntentEnds
  <2>1. faults' \in 0 .. MaxFaults
    BY <1>0, <1>6 DEF TypeOK, CreateIntentEnds, Fault
  <2>2. NoIntent \in IntentRec /\ NoIntent.pc = "idle"
    BY DEF NoIntent, IntentRec
  <2>3. TypeOK'
    BY <1>0, <1>6, <2>1, <2>2 DEF TypeOK, CreateIntentEnds, IntentRec
  <2> QED BY <1>0, <1>6, <2>2, <2>3
          DEF BaseInv, CreateIntentEnds, RowsOK, OrdersOK, HandlersOK, TaskOK, Idle,
              IsCaptured, Posted
<1>7. CASE chooseCash
  <2> DEFINE v == NewRow("cash", total, 0, 0)
             closed == IF openIntent = 0 THEN rows ELSE Failed(openIntent)
  <2>1. v \in Row /\ v.status = "pending" /\ v.ref = 0
    BY <1>1, NewRowTyped DEF NewRow, Providers
  <2>2. closed = rows \/ (\E r \in DOMAIN rows : Open(r) /\ closed = Failed(r))
    BY <1>0, OpenFacts DEF TypeOK
  <2>3. rows' = Append(closed, v) /\ Len(rows) < MaxRows
    BY <1>7 DEF chooseCash
  <2> HIDE DEF v, closed
  <2>4. Adds(v)
    BY <1>0, <2>1, <2>2, <2>3, AddOne
  <2>5. Evolve /\ RowsOK'
    BY <2>1, <2>4, AddsEvolve
  <2>6. UNCHANGED <<booking, total, orders, events, balance, ledger, paidOn,
                    intent, stuck, closing, lock, task, faults>>
    BY <1>7 DEF chooseCash
  <2>7. TypeOK'
    BY <1>0, <2>5, <2>6 DEF TypeOK, Evolve, IntentRec
  <2> QED BY <1>0, <2>5, <2>6, <2>7, TaskKept, HandlersKept, RowsMove
<1>8. CASE ChangeCoupon
  <2>1. total' \in {Fare, Fare - Discount}
    BY <1>8 DEF ChangeCoupon
  <2>2. faults' \in 0 .. MaxFaults
    BY <1>0, <1>8, FaultType, SMTT(40) DEF ChangeCoupon, TypeOK, Fault
  <2>3. /\ UNCHANGED <<booking, orders, events, balance, ledger, paidOn, intent, stuck, lock, task>>
        /\ closing' = TRUE
    BY <1>8 DEF ChangeCoupon
  <2>4. Fails
    BY <1>0, <1>8, FailNone DEF ChangeCoupon
  <2>5. Evolve /\ RowsOK'
    BY <2>4, FailsEvolve
  <2>6. TypeOK'
    BY <1>0, <2>1, <2>2, <2>3, <2>5 DEF TypeOK, Evolve, IntentRec
  <2> QED BY <1>0, <2>3, <2>5, <2>6, TaskKept, HandlersKept, RowsMove
<1>9. CASE SpendElsewhere
  <2>1. balance' \in (-Fare) .. MaxWallet /\ balance' >= 0
    BY <1>0, <1>9 DEF SpendElsewhere, TypeOK
  <2>2. TypeOK'
    BY <1>0, <1>9, <2>1 DEF TypeOK, SpendElsewhere
  <2> QED BY <1>0, <1>9, <2>1, <2>2
          DEF BaseInv, SpendElsewhere, RowsOK, OrdersOK, HandlersOK, TaskOK, Idle,
              IsCaptured, Posted
<1>10. ASSUME NEW w \in Workers, payWithWallet(w) PROVE BaseInv'
  <2>1. openIntent \in DOMAIN rows /\ Open(openIntent)
    BY <1>0, <1>10, OpenFacts DEF TypeOK, payWithWallet
  <2>2. CASE balance < rows[openIntent].wallet
    <3>1. /\ Fails
          /\ UNCHANGED <<booking, total, orders, events, balance, ledger, paidOn,
                         intent, stuck, closing, lock, task, faults>>
      BY <1>0, <1>10, <2>1, <2>2, FailOne DEF payWithWallet
    <3>2. Evolve /\ RowsOK'
      BY <3>1, FailsEvolve
    <3>3. TypeOK'
      BY <1>0, <3>1, <3>2 DEF TypeOK, Evolve
    <3> QED BY <1>0, <3>1, <3>2, <3>3, TaskKept, HandlersKept, RowsMove
  <2>3. CASE ~(balance < rows[openIntent].wallet)
    <3>1. /\ Begin(w, openIntent) /\ rows[openIntent].order
          /\ UNCHANGED <<booking, total, rows, orders, events, balance, ledger, paidOn,
                         intent, stuck, closing>>
      BY <1>10, <2>3 DEF payWithWallet
    <3>2. events' \in [RowIds -> {"none", "sent", "gone"}]
      BY <1>0, <3>1 DEF TypeOK
    <3> QED BY <2>1, <3>1, <3>2, BeginBase
  <2> QED BY <2>2, <2>3
<1>11. ASSUME NEW w \in Workers, NEW h \in RowIds, capture(w, h) PROVE BaseInv'
  <2>1. h \in DOMAIN rows /\ rows[h].order
    BY <1>0, <1>11 DEF OrdersOK, capture
  <2>2. events' \in [RowIds -> {"none", "sent", "gone"}]
    BY <1>0, <1>11 DEF TypeOK, capture
  <2> QED BY <1>11, <2>1, <2>2, BeginBase DEF capture
<1>12. CASE closeOpenIntents
  <2>1. /\ UNCHANGED <<booking, total, orders, events, balance, ledger, paidOn, intent, stuck,
                       lock, task>>
        /\ closing' = FALSE
    BY <1>12 DEF closeOpenIntents
  <2>2. faults' \in 0 .. MaxFaults
    BY <1>0, <1>12, FaultType, SMTT(40) DEF closeOpenIntents, TypeOK, Fault
  <2>3. Fails
    BY <1>0, <1>12, FailOne, FailNone, OpenFacts DEF closeOpenIntents, TypeOK
  <2>4. Evolve /\ RowsOK'
    BY <2>3, FailsEvolve
  <2>5. TypeOK'
    BY <1>0, <2>1, <2>2, <2>4 DEF TypeOK, Evolve, IntentRec
  <2> QED BY <1>0, <2>1, <2>4, <2>5, TaskKept, HandlersKept, RowsMove
<1> QED BY <1>2, <1>3, <1>4, <1>5, <1>6, <1>7, <1>8, <1>9, <1>10, <1>11, <1>12 DEF Customer

\* The gateway, the sweep, the lock's expiry, the operators and the webhook.
LEMMA OutsideBase ==
    ASSUME BaseInv,
           \/ Gateway
           \/ \E w \in Workers : confirmCashCollected(w) \/ Die(w)
           \/ \E w \in Workers, h \in RowIds :
                 applyPayment(w, h) \/ reconcile(w, h) \/ recheckBooking(w, h)
           \/ \E r \in RowIds : SweepFetchesPending(r)
           \/ SweepFailsStuck \/ LockExpires
           \/ DisputeOpens \/ DisputeCharges \/ DisputeCancels
    PROVE  BaseInv'
<1>0. /\ TypeOK /\ RowsOK /\ OrdersOK /\ HandlersOK /\ \A v \in Workers : TaskOK(v)
      /\ orders \in [RowIds -> [state : {"none", "open", "captured"}, amount : 0 .. Fare]]
      /\ events \in [RowIds -> {"none", "sent", "gone"}]
      /\ task \in [Workers -> TaskRec]
  BY DEF BaseInv, TypeOK, TaskRec
<1>1. ASSUME Fails, stuck' \in {0, stuck}, faults' \in 0 .. MaxFaults, booking' \in {booking, "cancelled"},
             UNCHANGED <<total, orders, events, balance, ledger, paidOn, intent, lock, task>>,
             closing' \in BOOLEAN
      PROVE  BaseInv'
  <2>1. Evolve /\ RowsOK'
    BY <1>1, FailsEvolve
  <2>2. TypeOK'
    BY <1>0, <1>1, <2>1, SMTT(40) DEF TypeOK, Evolve
  <2>3. HandlersOK'
    BY <1>0, <1>1, <2>1 DEF HandlersOK, Evolve, Kept, Posted
  <2> QED BY <1>0, <1>1, <2>1, <2>2, <2>3, TaskKept, RowsMove
<1>2. ASSUME NEW r \in RowIds, PayOrder(r) PROVE BaseInv'
  <2>1. /\ orders'[r].state = "captured" /\ orders[r].state = "open"
        /\ \A q \in RowIds \ {r} : orders'[q] = orders[q] /\ events'[q] = events[q]
        /\ orders' \in [RowIds -> [state : {"none", "open", "captured"}, amount : 0 .. Fare]]
        /\ events' \in [RowIds -> {"none", "sent", "gone"}]
    BY <1>0, <1>2 DEF PayOrder
  <2>2. OrdersOK'
    BY <1>0, <1>2, <2>1 DEF OrdersOK, PayOrder
  <2>3. TypeOK'
    BY <1>0, <1>2, <2>1 DEF TypeOK, PayOrder
  <2> QED BY <1>0, <1>2, <2>2, <2>3
          DEF BaseInv, PayOrder, RowsOK, HandlersOK, TaskOK, Idle, IsCaptured, Posted
<1>3. ASSUME NEW r \in RowIds, AttemptFails(r) PROVE BaseInv'
  <2>1. r \in DOMAIN rows
    BY <1>0, <1>3 DEF OrdersOK, AttemptFails
  <2>2. Fails
    BY <1>0, <1>3, <2>1, FailOne DEF AttemptFails
  <2>3. faults \in 0 .. MaxFaults /\ closing \in BOOLEAN
    BY <1>0 DEF TypeOK
  <2> QED BY <1>1, <1>3, <2>2, <2>3 DEF AttemptFails
<1>4. ASSUME NEW r \in RowIds, WebhookLost(r) PROVE BaseInv'
  <2>1. /\ events' \in [RowIds -> {"none", "sent", "gone"}]
        /\ \A q \in RowIds : events'[q] = "sent" => events[q] = "sent"
    BY <1>0, <1>4 DEF WebhookLost
  <2>2. TypeOK' /\ OrdersOK'
    BY <1>0, <1>4, <2>1 DEF TypeOK, OrdersOK, WebhookLost
  <2> QED BY <1>0, <1>4, <2>2
          DEF BaseInv, WebhookLost, RowsOK, HandlersOK, TaskOK, Idle, IsCaptured, Posted
<1>5. ASSUME NEW w \in Workers, confirmCashCollected(w) PROVE BaseInv'
  <2>1. openIntent \in DOMAIN rows /\ rows[openIntent].provider = "cash"
    BY <1>0, <1>5, OpenFacts DEF TypeOK, confirmCashCollected
  <2>2. events' = events
    BY <1>5 DEF confirmCashCollected
  <2> QED BY <1>0, <1>5, <2>1, <2>2, BeginBase DEF confirmCashCollected
<1>6. ASSUME NEW w \in Workers, Die(w) PROVE BaseInv'
  <2>1. NoTask \in TaskRec /\ NoTask.pc = "idle"
    BY DEF NoTask, TaskRec, SettlePcs
  <2>2. /\ task' \in [Workers -> TaskRec] /\ task'[w].pc = "idle"
        /\ \A v \in Workers \ {w} : task'[v] = task[v]
    BY <1>0, <1>6, <2>1 DEF Die
  <2>3. faults' \in 0 .. MaxFaults
    BY <1>0, <1>6 DEF Die, Fault, TypeOK
  <2>4. TypeOK'
    BY <1>0, <1>6, <2>2, <2>3 DEF TypeOK, Die, TaskRec
  <2>5. \A v \in Workers : TaskOK(v)'
    BY <1>0, <1>6, <2>2 DEF TaskOK, Idle, Die
  <2> QED BY <1>0, <1>6, <2>4, <2>5
          DEF BaseInv, Die, RowsOK, OrdersOK, HandlersOK, IsCaptured, Posted
<1>7. ASSUME NEW w \in Workers, NEW h \in RowIds, applyPayment(w, h) PROVE BaseInv'
  <2>1. h \in DOMAIN rows /\ rows[h].order
    BY <1>0, <1>7 DEF OrdersOK, applyPayment
  <2>2. /\ events' \in [RowIds -> {"none", "sent", "gone"}]
        /\ \A q \in RowIds : events'[q] = "sent" => events[q] = "sent"
    BY <1>0, <1>7 DEF applyPayment
  <2> QED BY <1>7, <2>1, <2>2, BeginBase DEF applyPayment
<1>8. ASSUME NEW w \in Workers, NEW h \in RowIds, reconcile(w, h) PROVE BaseInv'
  <2>1. h \in DOMAIN rows /\ rows[h].order
    BY <1>0, <1>8 DEF OrdersOK, reconcile
  <2> QED BY <1>0, <1>8, <2>1, BeginBase DEF reconcile
<1>9. ASSUME NEW w \in Workers, NEW h \in RowIds, recheckBooking(w, h) PROVE BaseInv'
  <2>1. h \in DOMAIN rows /\ rows[h].order
    BY <1>0, <1>9 DEF OrdersOK, recheckBooking
  <2> QED BY <1>0, <1>9, <2>1, BeginBase DEF recheckBooking
<1>10. ASSUME NEW r \in RowIds, SweepFetchesPending(r) PROVE BaseInv'
  <2>1. stuck' = r /\ r \in DOMAIN rows /\ rows[r].provider = "gateway"
    BY <1>10 DEF SweepFetchesPending, SweepFinds
  <2>2. TypeOK'
    BY <1>0, <1>10, <2>1, SMTT(40) DEF TypeOK, SweepFetchesPending, RowIds
  <2> QED BY <1>0, <1>10, <2>1, <2>2
          DEF BaseInv, SweepFetchesPending, RowsOK, OrdersOK, HandlersOK, TaskOK, Idle,
              IsCaptured, Posted
<1>11. CASE SweepFailsStuck
  <2>1. stuck \in DOMAIN rows
    BY <1>0, <1>11 DEF HandlersOK, SweepFailsStuck
  <2>2. Fails
    BY <1>0, <1>11, <2>1, FailOne, FailNone DEF SweepFailsStuck
  <2>3. faults \in 0 .. MaxFaults /\ closing \in BOOLEAN
    BY <1>0 DEF TypeOK
  <2> QED BY <1>1, <1>11, <2>2, <2>3 DEF SweepFailsStuck
<1>12. CASE LockExpires
  <2>1. faults' \in 0 .. MaxFaults
    BY <1>0, <1>12, FaultType DEF LockExpires
  <2>2. TypeOK'
    BY <1>0, <1>12, <2>1 DEF TypeOK, LockExpires
  <2> QED BY <1>0, <1>12, <2>2
          DEF BaseInv, LockExpires, RowsOK, OrdersOK, HandlersOK, TaskOK, Idle,
              IsCaptured, Posted
<1>13. CASE DisputeOpens \/ DisputeCharges
  <2>1. TypeOK'
    BY <1>0, <1>13 DEF TypeOK, DisputeOpens, DisputeCharges
  <2> QED BY <1>0, <1>13, <2>1
          DEF BaseInv, DisputeOpens, DisputeCharges, RowsOK, OrdersOK, HandlersOK, TaskOK,
              Idle, IsCaptured, Posted
<1>14. CASE DisputeCancels
  <2>1. Fails
    BY <1>0, <1>14, FailOpen DEF DisputeCancels
  <2>2. faults' \in 0 .. MaxFaults /\ closing' \in BOOLEAN
    BY <1>0, <1>14, FaultType DEF DisputeCancels, TypeOK
  <2> QED BY <1>1, <1>14, <2>1, <2>2 DEF DisputeCancels
<1> QED BY <1>2, <1>3, <1>4, <1>5, <1>6, <1>7, <1>8, <1>9, <1>10, <1>11, <1>12, <1>13, <1>14
        DEF Gateway

-----------------------------------------------------------------------------
(* The statements of a settlement                                          *)

Others(w) == \A v \in Workers \ {w} : task'[v] = task[v]

LEMMA EndTask ==
    ASSUME TypeOK, NEW w \in Workers, End(w)
    PROVE  /\ task' \in [Workers -> TaskRec] /\ lock' \in BOOLEAN /\ Others(w)
           /\ task'[w].pc = "idle" /\ (lock' => ~task[w].held)
<1>1. task \in [Workers -> TaskRec] /\ NoTask \in TaskRec /\ NoTask.pc = "idle"
  BY DEF TypeOK, NoTask, TaskRec, SettlePcs
<1>2. lock' \in BOOLEAN /\ (lock' => ~task[w].held)
  BY DEF End
<1> QED BY <1>1, <1>2 DEF End, Others

LEMMA StepTask ==
    ASSUME TypeOK, NEW w \in Workers, NEW pc \in SettlePcs, Step(w, pc)
    PROVE  /\ task' \in [Workers -> TaskRec] /\ lock' = lock /\ Others(w)
           /\ task'[w] = [task[w] EXCEPT !.pc = pc] /\ task[w] \in TaskRec
<1>1. task \in [Workers -> TaskRec]
  BY DEF TypeOK, TaskRec
<1>2. [task[w] EXCEPT !.pc = pc] \in TaskRec
  BY <1>1 DEF TaskRec
<1>3. task' = [task EXCEPT ![w] = [task[w] EXCEPT !.pc = pc]] /\ lock' = lock
  BY DEF Step
<1> QED BY <1>1, <1>2, <1>3 DEF Others

LEMMA RowTask ==
    ASSUME TypeOK, NEW w \in Workers, NEW pc \in SettlePcs, NEW r \in 0 .. MaxRows,
           task' = [task EXCEPT ![w].pc = pc, ![w].row = r]
    PROVE  /\ task' \in [Workers -> TaskRec] /\ Others(w)
           /\ task'[w] = [task[w] EXCEPT !.pc = pc, !.row = r] /\ task[w] \in TaskRec
<1>1. task \in [Workers -> TaskRec]
  BY DEF TypeOK, TaskRec
<1> DEFINE t == [task[w] EXCEPT !.pc = pc, !.row = r]
<1>2. t \in TaskRec
  BY <1>1 DEF TaskRec
<1>3. task' = [task EXCEPT ![w] = t]
  BY <1>1 DEF TaskRec
<1> HIDE DEF t
<1>4. task' \in [Workers -> TaskRec] /\ Others(w) /\ task'[w] = t
  BY <1>1, <1>2, <1>3 DEF Others
<1> QED BY <1>1, <1>4 DEF t

\* After the captured row, the settlement ends or goes on to the legs.
LEMMA AfterCaptureTask ==
    ASSUME TypeOK, NEW w \in Workers, NEW r \in 0 .. MaxRows, AfterCapture(w, r)
    PROVE  /\ task' \in [Workers -> TaskRec] /\ lock' \in BOOLEAN /\ Others(w)
           /\ \/ task'[w].pc = "idle" /\ (lock' => ~task[w].held)
              \/ /\ task'[w].pc = "wallet" /\ task'[w].row = r /\ task'[w].of = task[w].of
                 /\ task'[w].total = task[w].total /\ task'[w].held = task[w].held
                 /\ lock' = lock
<1>1. CASE task[w].status = "cancelled"
  BY <1>1, EndTask DEF AfterCapture
<1>2. CASE task[w].status # "cancelled"
  <2>1. task' = [task EXCEPT ![w].pc = "wallet", ![w].row = r] /\ lock' = lock
    BY <1>2 DEF AfterCapture
  <2>2. "wallet" \in SettlePcs
    BY DEF SettlePcs
  <2>3. /\ task' \in [Workers -> TaskRec] /\ Others(w) /\ task[w] \in TaskRec
        /\ task'[w] = [task[w] EXCEPT !.pc = "wallet", !.row = r]
    BY <2>1, <2>2, RowTask
  <2>4. lock' \in BOOLEAN
    BY <2>1 DEF TypeOK
  <2> QED BY <2>1, <2>3, <2>4 DEF TaskRec
<1> QED BY <1>1, <1>2

\* What the four look-ups of ensureCapturedRow may come back with.
LEMMA ExistingRow ==
    ASSUME TypeOK, NEW h \in DOMAIN rows
    PROVE  /\ Existing(h) \in {0} \cup DOMAIN rows
           /\ Existing(h) = 0 =>
                /\ rows[h].provider = "cash" \/ ~rows[h].order
                /\ \A r \in DOMAIN rows : /\ rows[r].status \notin {"pending", "captured"}
                                          /\ rows[r].ref # h
<1>1. rows \in Seq(Row)
  BY DEF TypeOK
<1>2. h # 0
  BY RowTyped
<1>3. byOrderRef(h) \in {0, h} /\ (byOrderRef(h) = 0 => rows[h].provider = "cash" \/ ~rows[h].order)
  BY <1>2 DEF byOrderRef
<1>4. /\ byGatewayRef(h) \in {0} \cup DOMAIN rows
      /\ byGatewayRef(h) = 0 => \A r \in DOMAIN rows : rows[r].ref # h
  BY <1>1, <1>2, RefFacts, RowTyped
<1>5. /\ openIntent \in {0} \cup DOMAIN rows
      /\ openIntent = 0 => \A r \in DOMAIN rows : rows[r].status # "pending"
  BY <1>1, OpenFacts DEF Open
<1>6. /\ capturedFor \in {0} \cup DOMAIN rows
      /\ capturedFor = 0 => \A r \in DOMAIN rows : rows[r].status # "captured"
  BY <1>1, CapturedFacts
<1> QED BY <1>3, <1>4, <1>5, <1>6, ExistingFacts

\* A capture that meets no conflict is the only one.
LEMMA NoConflict ==
    ASSUME TypeOK, RowsOK, NEW r \in DOMAIN rows, NEW h, ~Conflicts(r, h)
    PROVE  \A q \in DOMAIN rows \ {r} : rows[q].status # "captured"
<1>1. rows \in Seq(Row)
  BY DEF TypeOK
<1>2. capturedFor \in {0, r}
  BY DEF Conflicts
<1>3. CASE capturedFor = 0
  BY <1>1, <1>3, CapturedFacts
<1>4. CASE capturedFor = r /\ capturedFor # 0
  BY <1>1, <1>4, CapturedFacts DEF RowsOK, IsCaptured
<1> QED BY <1>2, <1>3, <1>4

\* A settlement's statement keeps the base invariant.
LEMMA SettleBase ==
    ASSUME BaseInv, NEW w \in Workers, Settle(w) PROVE BaseInv'
<1>0. /\ TypeOK /\ RowsOK /\ OrdersOK /\ HandlersOK /\ \A v \in Workers : TaskOK(v)
      /\ task \in [Workers -> TaskRec] /\ task[w] \in TaskRec
      /\ total \in 0 .. Fare
  BY SMTT(40) DEF BaseInv, TypeOK, TaskRec
<1>1. ASSUME task' \in [Workers -> TaskRec], lock' \in BOOLEAN, Others(w), TaskOK(w)',
             Evolve, RowsOK',
             UNCHANGED <<booking, total, orders, events, balance, ledger, paidOn,
                         intent, stuck, closing, faults>>
      PROVE  BaseInv'
  <2>1. TypeOK'
    BY <1>0, <1>1 DEF TypeOK, TaskRec, Evolve
  <2>2. \A v \in Workers : TaskOK(v)'
    BY <1>0, <1>1, TaskKept DEF Others
  <2> QED BY <1>0, <1>1, <2>1, <2>2, HandlersKept, RowsMove
<1>2. UNCHANGED rows => Evolve /\ RowsOK'
  BY <1>0, FailNone, FailsEvolve
<1>3. CASE settlementInputs(w)
  <2>1. CASE booking \in {"completed", "cancelled"}
    <3> DEFINE t == [task[w] EXCEPT !.pc = "lookup", !.status = booking, !.total = total]
    <3>1. /\ t \in TaskRec /\ t.pc = "lookup" /\ t.of = task[w].of /\ t.row = task[w].row
      BY <1>0, <2>1 DEF TaskRec, SettlePcs
    <3>2. task' = [task EXCEPT ![w] = t] /\ lock' = lock
      BY <1>0, <1>3, <2>1 DEF settlementInputs, TaskRec
    <3> HIDE DEF t
    <3>3. task' \in [Workers -> TaskRec] /\ Others(w) /\ task'[w] = t /\ lock' \in BOOLEAN
      BY <1>0, <3>1, <3>2 DEF Others, TypeOK
    <3>4. TaskOK(w)'
      BY <1>0, <1>3, <3>1, <3>3 DEF TaskOK, Idle, settlementInputs
    <3> QED BY <1>1, <1>2, <1>3, <3>3, <3>4 DEF settlementInputs
  <2>2. CASE booking \notin {"completed", "cancelled"}
    <3>1. End(w)
      BY <1>3, <2>2 DEF settlementInputs
    <3>2. TaskOK(w)'
      BY <1>0, <3>1, EndTask DEF TaskOK, Idle
    <3> QED BY <1>0, <1>1, <1>2, <1>3, <3>1, <3>2, EndTask DEF settlementInputs
  <2> QED BY <2>1, <2>2
<1>4. ASSUME NEW r \in {0} \cup DOMAIN rows, AfterCapture(w, r), ~Idle(w), Evolve, RowsOK',
             UNCHANGED <<booking, total, orders, events, balance, ledger, paidOn,
                         intent, stuck, closing, faults>>
      PROVE  BaseInv'
  <2>1. r \in 0 .. MaxRows
    BY <1>0, RowNumbers
  <2>2. /\ task' \in [Workers -> TaskRec] /\ lock' \in BOOLEAN /\ Others(w)
        /\ \/ task'[w].pc = "idle"
           \/ task'[w].pc = "wallet" /\ task'[w].row = r /\ task'[w].of = task[w].of
    BY <1>0, <1>4, <2>1, AfterCaptureTask
  <2>3. TaskOK(w)'
    BY <1>0, <1>4, <2>2 DEF TaskOK, Idle, Evolve, Kept
  <2> QED BY <1>1, <1>4, <2>2, <2>3
<1>5. CASE ensureCapturedRow(w)
  <2> DEFINE r == Existing(task[w].of)
  <2>1. task[w].of \in DOMAIN rows /\ ~Idle(w)
    BY <1>0, <1>5 DEF TaskOK, Idle, ensureCapturedRow
  <2>2. r \in {0} \cup DOMAIN rows
    BY <1>0, <2>1, ExistingRow
  <2>3. UNCHANGED <<booking, total, rows, orders, events, balance, ledger,
                    paidOn, intent, stuck, closing, faults>>
    BY <1>5 DEF ensureCapturedRow
  <2>4. CASE r = 0
    <3>1. Step(w, "insert") /\ "insert" \in SettlePcs
      BY <1>5, <2>4 DEF ensureCapturedRow, SettlePcs
    <3>2. TaskOK(w)'
      <4>1. task'[w] = [task[w] EXCEPT !.pc = "insert"]
        BY <1>0, <3>1, StepTask
      <4>2. task'[w].of = task[w].of /\ task'[w].row = task[w].row /\ task'[w].pc = "insert"
        BY <1>0, <4>1 DEF TaskRec
      <4> QED BY <1>0, <2>1, <2>3, <4>2 DEF TaskOK, Idle
    <3>3. lock' \in BOOLEAN
      BY <1>0, <3>1 DEF Step, TypeOK
    <3> QED BY <1>0, <1>1, <1>2, <2>3, <3>1, <3>2, <3>3, StepTask
  <2>5. CASE r # 0 /\ rows[r].status = "captured"
    BY <1>2, <1>4, <1>5, <2>1, <2>2, <2>3, <2>5 DEF ensureCapturedRow
  <2>6. CASE r # 0 /\ rows[r].status # "captured"
    <3>1. task' = [task EXCEPT ![w].pc = "mark", ![w].row = r] /\ lock' = lock
      BY <1>5, <2>6 DEF ensureCapturedRow
    <3>2. "mark" \in SettlePcs /\ r \in 0 .. MaxRows
      BY <1>0, <2>2, RowNumbers DEF SettlePcs
    <3> HIDE DEF r
    <3>3. /\ task' \in [Workers -> TaskRec] /\ Others(w)
          /\ task'[w] = [task[w] EXCEPT !.pc = "mark", !.row = r]
      BY <1>0, <3>1, <3>2, RowTask
    <3>4. TaskOK(w)'
      BY <1>0, <2>1, <2>2, <2>3, <2>6, <3>3 DEF TaskOK, Idle, TaskRec
    <3>5. lock' \in BOOLEAN
      BY <1>0, <3>1 DEF TypeOK
    <3> QED BY <1>1, <1>2, <2>3, <3>3, <3>4, <3>5
  <2> QED BY <2>4, <2>5, <2>6
<1>6. ASSUME End(w), UNCHANGED <<booking, total, rows, orders, events, balance, ledger,
                                 paidOn, intent, stuck, closing, faults>>
      PROVE  BaseInv'
  <2>1. TaskOK(w)'
    BY <1>0, <1>6, EndTask DEF TaskOK, Idle
  <2> QED BY <1>0, <1>1, <1>2, <1>6, <2>1, EndTask
<1>7. ASSUME NEW r \in DOMAIN rows, ~Idle(w),
             rows' = [rows EXCEPT ![r].status = "captured", ![r].ref = task[w].of],
             \A q \in DOMAIN rows \ {r} : rows[q].status # "captured",
             rows[r].status # "captured" \/ rows[r].ref = task[w].of
      PROVE  Captures(r, task[w].of) /\ Evolve /\ RowsOK'
  <2>1. task[w].of \in DOMAIN rows /\ task[w].of \in 0 .. MaxRows
    BY <1>0, <1>7, RowNumbers DEF TaskOK
  <2> QED BY <1>0, <1>7, <2>1, CaptureOne, CapturesEvolve
<1>8. CASE markCaptured(w)
  <2> DEFINE r == task[w].row
             h == task[w].of
  <2>1. r \in DOMAIN rows /\ ~Idle(w)
    BY <1>0, <1>8 DEF TaskOK, Idle, markCaptured
  <2>2. UNCHANGED <<booking, total, orders, events, balance, ledger, paidOn,
                    intent, stuck, closing, faults>>
    BY <1>8 DEF markCaptured
  <2>3. CASE rows[r].status = "captured"
    BY <1>2, <1>4, <1>8, <2>1, <2>2, <2>3 DEF markCaptured
  <2>4. CASE rows[r].status # "captured" /\ Conflicts(r, h)
    BY <1>6, <1>8, <2>2, <2>4 DEF markCaptured
  <2>5. CASE rows[r].status # "captured" /\ ~Conflicts(r, h)
    <3>1. /\ rows' = [rows EXCEPT ![r].status = "captured", ![r].ref = h]
          /\ AfterCapture(w, r)
      BY <1>8, <2>5 DEF markCaptured
    <3>2. Evolve /\ RowsOK'
      BY <1>0, <1>7, <2>1, <2>5, <3>1, NoConflict
    <3> QED BY <1>4, <2>1, <2>2, <3>1, <3>2
  <2> QED BY <2>3, <2>4, <2>5
<1>9. byGatewayRef(task[w].of) \in {0} \cup DOMAIN rows
  BY <1>0, RefFacts DEF TypeOK
<1>10. CASE InsertRow(w)
  <2> DEFINE h == task[w].of
             v == NewRow("gateway", total, 0, h)
  <2>1. h \in DOMAIN rows /\ h \in 0 .. MaxRows /\ ~Idle(w)
    BY <1>0, <1>10, RowNumbers DEF TaskOK, Idle, InsertRow
  <2>2. UNCHANGED <<booking, total, orders, events, balance, ledger, paidOn,
                    intent, stuck, closing, faults>>
    BY <1>10 DEF InsertRow
  <2>3. CASE \E q \in DOMAIN rows : rows[q].key = h
    BY <1>2, <1>4, <1>9, <1>10, <2>1, <2>2, <2>3 DEF InsertRow
  <2>4. CASE ~(\E q \in DOMAIN rows : rows[q].key = h) /\ Len(rows) = MaxRows
    BY <1>6, <1>10, <2>2, <2>4 DEF InsertRow
  <2>5. CASE ~(\E q \in DOMAIN rows : rows[q].key = h) /\ Len(rows) # MaxRows
    <3>1. /\ rows' = Append(rows, v) /\ lock' = lock
          /\ task' = [task EXCEPT ![w].pc = "claim", ![w].row = Len(rows) + 1]
      BY <1>10, <2>5 DEF InsertRow
    <3>2. v \in Row /\ v.status = "pending" /\ v.ref = 0
      BY <1>0, <2>1, NewRowTyped DEF NewRow, Providers
    <3>3. Len(rows) < MaxRows /\ Len(rows) \in Nat
      BY <1>0, <2>5, RowTyped DEF TypeOK
    <3> HIDE DEF v
    <3>4. Adds(v)
      BY <1>0, <3>1, <3>2, <3>3, AddOne
    <3>5. Evolve /\ RowsOK'
      BY <3>2, <3>4, AddsEvolve
    <3>6. "claim" \in SettlePcs /\ Len(rows) + 1 \in 0 .. MaxRows
      BY <3>3 DEF SettlePcs
    <3>7. /\ task' \in [Workers -> TaskRec] /\ Others(w)
          /\ task'[w] = [task[w] EXCEPT !.pc = "claim", !.row = Len(rows) + 1]
      BY <1>0, <3>1, <3>6, RowTask
    <3>8. /\ task'[w].of = h /\ task'[w].row = Len(rows) + 1 /\ task'[w].row # 0
      BY <1>0, <3>3, <3>7 DEF TaskRec
    <3>9. Len(rows) + 1 \in DOMAIN rows'
      BY <3>4 DEF Adds
    <3>10. TaskOK(w)'
      BY <1>0, <2>1, <3>5, <3>8, <3>9 DEF TaskOK, Idle, Evolve, Kept
    <3>11. lock' \in BOOLEAN
      BY <1>0, <3>1 DEF TypeOK
    <3> QED BY <1>1, <2>2, <3>5, <3>7, <3>10, <3>11
  <2> QED BY <2>3, <2>4, <2>5
<1>11. CASE CaptureMadeRow(w)
  <2> DEFINE r == task[w].row
             h == task[w].of
  <2>1. r \in DOMAIN rows /\ ~Idle(w)
    BY <1>0, <1>11 DEF TaskOK, Idle, CaptureMadeRow
  <2>2. UNCHANGED <<booking, total, orders, events, balance, ledger, paidOn,
                    intent, stuck, closing, faults>>
    BY <1>11 DEF CaptureMadeRow
  <2>3. CASE rows[r].status = "captured"
    BY <1>2, <1>4, <1>11, <2>1, <2>2, <2>3 DEF CaptureMadeRow
  <2>4. CASE rows[r].status # "captured" /\ Conflicts(r, h)
    BY <1>2, <1>4, <1>9, <1>11, <2>1, <2>2, <2>4 DEF CaptureMadeRow
  <2>5. CASE rows[r].status # "captured" /\ ~Conflicts(r, h)
    <3>1. /\ rows' = [rows EXCEPT ![r].status = "captured", ![r].ref = h]
          /\ AfterCapture(w, r)
      BY <1>11, <2>5 DEF CaptureMadeRow
    <3>2. Evolve /\ RowsOK'
      BY <1>0, <1>7, <2>1, <2>5, <3>1, NoConflict
    <3> QED BY <1>4, <2>1, <2>2, <3>1, <3>2
  <2> QED BY <2>3, <2>4, <2>5
<1>12. ASSUME NEW pc \in SettlePcs \ {"mark", "claim"}, Step(w, pc), ~Idle(w), UNCHANGED rows
       PROVE  /\ task' \in [Workers -> TaskRec] /\ lock' \in BOOLEAN
              /\ \A v \in Workers : TaskOK(v)'
  <2>1. /\ task' \in [Workers -> TaskRec] /\ lock' = lock /\ Others(w)
        /\ task'[w] = [task[w] EXCEPT !.pc = pc]
    BY <1>0, <1>12, StepTask
  <2>2. task'[w].of = task[w].of /\ task'[w].row = task[w].row /\ task'[w].pc = pc
    BY <1>0, <2>1 DEF TaskRec
  <2>3. \A v \in Workers : TaskOK(v)'
    BY <1>0, <1>12, <2>1, <2>2, ZenonT(60) DEF TaskOK, Idle, Others
  <2>4. lock' \in BOOLEAN
    BY <1>0, <2>1 DEF TypeOK
  <2> QED BY <2>1, <2>3, <2>4
<1>13. ledger \in [{"wallet", "cash", "credit"} -> {None} \cup 0 .. Fare] /\ task[w].total \in 0 .. Fare
  BY <1>0 DEF TypeOK, TaskRec
<1>14. CASE PostWalletDebit(w)
  <2> DEFINE paise == WalletApplied(task[w].row)
  <2>1. ~Idle(w) /\ "cash" \in SettlePcs \ {"mark", "claim"} /\ Step(w, "cash")
    BY <1>14 DEF PostWalletDebit, Idle, SettlePcs
  <2>2. UNCHANGED <<booking, total, rows, orders, events, paidOn, intent, stuck, closing, faults>>
    BY <1>14 DEF PostWalletDebit
  <2>3. paise \in 0 .. Fare
    BY <1>0, <2>1, RowTyped DEF WalletApplied, TaskOK, Row
  <2>4. /\ balance' \in (-Fare) .. MaxWallet
        /\ ledger' \in [{"wallet", "cash", "credit"} -> {None} \cup 0 .. Fare]
        /\ ~Posted("wallet")' => balance' >= 0
    <3>1. CASE paise = 0 \/ Posted("wallet")
      BY <1>0, <1>14, <3>1 DEF PostWalletDebit, TypeOK, HandlersOK, Posted
    <3>2. CASE ~(paise = 0 \/ Posted("wallet"))
      <4>1. balance' = balance - paise /\ ledger' = [ledger EXCEPT !.wallet = paise]
        BY <1>14, <3>2 DEF PostWalletDebit
      <4>2. balance >= 0 /\ balance \in (-Fare) .. MaxWallet
        BY <1>0, <3>2 DEF HandlersOK, TypeOK
      <4> HIDE DEF paise
      <4>3. balance' \in (-Fare) .. MaxWallet
        BY <2>3, <4>1, <4>2
      <4>4. ledger'.wallet = paise /\ paise # None
        BY <1>13, <2>3, <4>1 DEF None
      <4>5. ledger' \in [{"wallet", "cash", "credit"} -> {None} \cup 0 .. Fare]
        BY <1>13, <2>3, <4>1
      <4> QED BY <4>3, <4>4, <4>5 DEF Posted
    <3> QED BY <3>1, <3>2
  <2>5. /\ task' \in [Workers -> TaskRec] /\ lock' \in BOOLEAN
        /\ \A v \in Workers : TaskOK(v)'
    BY <1>12, <2>1, <2>2
  <2>6. TypeOK'
    BY <1>0, <2>2, <2>4, <2>5 DEF TypeOK, TaskRec
  <2>7. HandlersOK'
    BY <1>0, <2>2, <2>4 DEF HandlersOK
  <2> QED BY <1>0, <1>2, <2>2, <2>5, <2>6, <2>7, RowsMove
<1>15. ASSUME NEW pc \in SettlePcs \ {"mark", "claim"}, Step(w, pc), ~Idle(w),
              NEW leg \in {"cash", "credit"},
              ledger' = ledger \/ ledger' = [ledger EXCEPT ![leg] = task[w].total],
              UNCHANGED <<booking, total, rows, orders, events, balance, paidOn,
                          intent, stuck, closing, faults>>
       PROVE  BaseInv'
  <2>1. ledger' \in [{"wallet", "cash", "credit"} -> {None} \cup 0 .. Fare]
        /\ ledger'["wallet"] = ledger["wallet"]
    BY <1>13, <1>15
  <2>2. /\ task' \in [Workers -> TaskRec] /\ lock' \in BOOLEAN
        /\ \A v \in Workers : TaskOK(v)'
    BY <1>12, <1>15
  <2>3. TypeOK'
    BY <1>0, <1>15, <2>1, <2>2 DEF TypeOK, TaskRec
  <2>4. HandlersOK'
    BY <1>0, <1>15, <2>1 DEF HandlersOK, Posted
  <2> QED BY <1>0, <1>2, <1>15, <2>2, <2>3, <2>4, RowsMove
<1>16. CASE PostCashDebit(w)
  <2>1. /\ "credit" \in SettlePcs \ {"mark", "claim"} /\ ~Idle(w)
        /\ ledger' = ledger \/ ledger' = [ledger EXCEPT !["cash"] = task[w].total]
    BY <1>16 DEF SettlePcs, PostCashDebit, Idle
  <2> QED BY <1>15, <1>16, <2>1 DEF PostCashDebit
<1>17. CASE creditBookingSettlement(w)
  <2>1. /\ "paid" \in SettlePcs \ {"mark", "claim"} /\ ~Idle(w)
        /\ ledger' = ledger \/ ledger' = [ledger EXCEPT !["credit"] = task[w].total]
    BY <1>17 DEF SettlePcs, creditBookingSettlement, Idle
  <2> QED BY <1>15, <1>17, <2>1 DEF creditBookingSettlement
<1>18. CASE TransitionToPaid(w)
  <2>1. /\ booking' \in {booking, "paid"} /\ paidOn' \in {paidOn, task[w].total} /\ End(w)
        /\ UNCHANGED <<total, rows, orders, events, balance, ledger, intent, stuck, closing, faults>>
    BY <1>18 DEF TransitionToPaid
  <2>2. TypeOK'
    BY <1>0, <1>13, <2>1, EndTask DEF TypeOK, TaskRec
  <2>3. \A v \in Workers : TaskOK(v)'
    BY <1>0, <2>1, EndTask DEF TaskOK, Idle, Others
  <2>4. HandlersOK'
    BY <1>0, <2>1 DEF HandlersOK, Posted
  <2> QED BY <1>0, <1>2, <2>1, <2>2, <2>3, <2>4, RowsMove
<1> QED BY <1>3, <1>5, <1>8, <1>10, <1>11, <1>14, <1>16, <1>17, <1>18 DEF Settle

LEMMA BaseInit == Init => BaseInv
<1> SUFFICES ASSUME Init PROVE BaseInv
  OBVIOUS
<1>1. /\ NoOrder \in [state : {"none", "open", "captured"}, amount : 0 .. Fare]
      /\ NoOrder.state = "none" /\ NoIntent \in IntentRec /\ NoIntent.pc = "idle"
      /\ NoTask \in TaskRec /\ NoTask.pc = "idle"
  BY DEF NoOrder, NoIntent, IntentRec, NoTask, TaskRec, SettlePcs
<1>2. rows \in Seq(Row) /\ Len(rows) = 0 /\ DOMAIN rows = {}
  BY DEF Init
<1>3. TypeOK
  <2>1. ledger \in [{"wallet", "cash", "credit"} -> {None} \cup 0 .. Fare]
    BY DEF Init
  <2>2. balance \in (-Fare) .. MaxWallet /\ paidOn \in {None} \cup 0 .. Fare
    BY DEF Init
  <2>3. task \in [Workers -> TaskRec] /\ intent \in IntentRec
    BY <1>1 DEF Init
  <2>4. orders \in [RowIds -> [state : {"none", "open", "captured"}, amount : 0 .. Fare]]
    BY <1>1 DEF Init
  <2>5. events \in [RowIds -> {"none", "sent", "gone"}] /\ lock \in BOOLEAN /\ closing \in BOOLEAN
    BY DEF Init
  <2>6. /\ stuck \in 0 .. MaxRows /\ faults \in 0 .. MaxFaults
        /\ booking \in {"completed", "disputed", "cancelled", "paid"}
        /\ total \in {Fare, Fare - Discount} /\ Len(rows) <= MaxRows
    BY <1>2 DEF Init
  <2> QED BY <1>2, <2>1, <2>2, <2>3, <2>4, <2>5, <2>6 DEF TypeOK, IntentRec, TaskRec
<1>4. RowsOK /\ OrdersOK /\ HandlersOK /\ \A w \in Workers : TaskOK(w)
  BY <1>1, <1>2 DEF Init, RowsOK, OrdersOK, HandlersOK, TaskOK, Idle
<1> QED BY <1>3, <1>4 DEF BaseInv

LEMMA BaseStep == BaseInv /\ [Next]_vars => BaseInv'
<1> SUFFICES ASSUME BaseInv, [Next]_vars PROVE BaseInv'
  OBVIOUS
<1>1. CASE UNCHANGED vars
  BY <1>1 DEF vars, BaseInv, TypeOK, RowsOK, OrdersOK, HandlersOK, TaskOK, Idle, IsCaptured, Posted
<1> QED BY <1>1, CustomerBase, OutsideBase, SettleBase DEF Next

\* Rows, orders, the ledger and every settlement stay within their types, and
\* the wallet is overdrawn by at most one bill, whatever fails and however many
\* settlements run.
THEOREM PaymentsTypeCorrect == Spec => []TypeOK
<1>1. BaseInv => TypeOK
  BY DEF BaseInv
<1> QED BY <1>1, BaseInit, BaseStep, PTL DEF Spec

-----------------------------------------------------------------------------
(* One settlement at a time, or none that loses its cash row               *)

Serial == "redis" \notin Faults
Steady == "switch" \notin Faults /\ "dispute" \notin Faults
Alone(w) == \A v \in Workers \ {w} : Idle(v)

\* A row made for a reference: only a cash confirmation whose row was closed
\* under it gets that far, alone, and nobody has made that row before.
MadeOK(w) ==
    /\ task[w].pc = "insert" => /\ rows[task[w].of].provider = "cash"
                                /\ rows[task[w].of].status # "pending"
    /\ task[w].pc \in {"inputs", "lookup", "insert"} =>
           \A r \in DOMAIN rows : rows[r].key # task[w].of
    /\ task[w].pc \in {"insert", "claim"} =>
           Alone(w) /\ \A r \in DOMAIN rows : rows[r].status # "captured"
    /\ Serial /\ ~Idle(w) => task[w].held /\ lock /\ Alone(w)
    /\ Steady /\ ~Idle(w) => /\ rows[task[w].of].provider = "cash" =>
                                    rows[task[w].of].status # "failed"
                             /\ task[w].pc \notin {"insert", "claim"}

KeysOK ==
    \A r \in DOMAIN rows : rows[r].key # 0 =>
        /\ rows[r].key \in DOMAIN rows /\ rows[rows[r].key].provider = "cash"
        /\ rows[rows[r].key].status # "pending" /\ ~Steady

MadeInv == KeysOK /\ \A w \in Workers : MadeOK(w)

\* What every step leaves of a row, its order aside.
Moved(q) ==
    /\ rows'[q].provider = rows[q].provider /\ rows'[q].wallet = rows[q].wallet
    /\ rows'[q].key = rows[q].key
    /\ rows'[q].status = "pending" => rows[q].status = "pending"
    /\ rows[q].status = "captured" =>
           rows'[q].status = "captured" /\ rows'[q].ref = rows[q].ref

Moves == DOMAIN rows \subseteq DOMAIN rows' /\ \A q \in DOMAIN rows : Moved(q)

\* Nothing is captured, and a new row has the customer's key.
NoNew == \A r \in DOMAIN rows' :
            /\ rows'[r].status = "captured" => r \in DOMAIN rows /\ rows[r].status = "captured"
            /\ r \notin DOMAIN rows => rows'[r].key = 0

\* No cash row is closed while its confirmation settles.
CashStays ==
    Steady => \A w \in Workers :
        ~Idle(w) /\ rows[task[w].of].provider = "cash" => rows'[task[w].of].status # "failed"

\* A step that no settlement takes part in, and what it may do to the total.
Quiet ==
    /\ Moves /\ NoNew /\ CashStays
    /\ UNCHANGED <<ledger, paidOn, task, lock>>
    /\ booking' = "paid" => booking = "paid"
    /\ \/ total' = total
       \/ /\ \A r \in DOMAIN rows : rows[r].status # "captured"
          /\ "coupon" \in Faults \/ \A w \in Workers : Idle(w)

LEMMA FailsQuiet ==
    ASSUME BaseInv, MadeInv, Fails,
           \A w \in Workers : ~Idle(w) /\ Steady /\ rows[task[w].of].provider = "cash" =>
                                  rows'[task[w].of] = rows[task[w].of]
    PROVE  Moves /\ NoNew /\ CashStays
<1>1. \A q \in DOMAIN rows : rows[q] \in Row
  BY RowTyped DEF BaseInv
<1>2. \A q \in DOMAIN rows : /\ Kept(q)
                             /\ rows'[q].status = "captured" => rows[q].status = "captured"
  BY <1>1, StaysKept DEF Fails
<1>3. Moves /\ NoNew
  BY <1>2 DEF Fails, Moves, Moved, Kept, NoNew
<1>4. CashStays
  BY DEF CashStays, MadeInv, MadeOK
<1> QED BY <1>3, <1>4

LEMMA AddsQuiet ==
    ASSUME BaseInv, MadeInv, NEW v, Adds(v), v.status = "pending", v.key = 0,
           \A w \in Workers : ~Idle(w) /\ Steady /\ rows[task[w].of].provider = "cash" =>
                                  rows'[task[w].of] = rows[task[w].of]
    PROVE  Moves /\ NoNew /\ CashStays
<1>1. \A q \in DOMAIN rows : rows[q] \in Row
  BY RowTyped DEF BaseInv
<1>2. \A q \in DOMAIN rows : /\ Kept(q)
                             /\ rows'[q].status = "captured" => rows[q].status = "captured"
  BY <1>1, StaysKept DEF Adds
<1>3. Moves
  BY <1>2 DEF Adds, Moves, Moved, Kept
<1>4. NoNew
  BY <1>2 DEF Adds, NoNew
<1>5. CashStays
  BY DEF CashStays, MadeInv, MadeOK
<1> QED BY <1>3, <1>4, <1>5

LEMMA SameQuiet ==
    ASSUME BaseInv, MadeInv, UNCHANGED rows PROVE Moves /\ NoNew /\ CashStays
BY FailNone, FailsQuiet DEF BaseInv

\* The row a fail step closes, and who could be settling it.
LEMMA FailedOther ==
    ASSUME BaseInv, NEW r \in DOMAIN rows, rows[r].provider # "cash", rows' = Failed(r),
           NEW w \in Workers, ~Idle(w), rows[task[w].of].provider = "cash"
    PROVE  rows'[task[w].of] = rows[task[w].of]
<1>1. task[w].of \in DOMAIN rows /\ task[w].of # r
  BY DEF BaseInv, TaskOK
<1> QED BY <1>1 DEF Failed

\* The handles settlements are started with.
Handle(h) == /\ h \in DOMAIN rows
             /\ \/ rows[h].provider # "cash" /\ rows[h].order
                \/ rows[h].provider = "cash" /\ rows[h].status = "pending"

Starts(w) == \E h \in DOMAIN rows : /\ Handle(h) /\ Begin(w, h)
                                    /\ UNCHANGED <<booking, total, rows, ledger, paidOn>>

LEMMA CustomerQuiet ==
    ASSUME BaseInv, MadeInv, Customer PROVE Quiet \/ \E w \in Workers : Starts(w)
<1>0. /\ TypeOK /\ HandlersOK /\ OrdersOK /\ rows \in Seq(Row)
      /\ \A w \in Workers : ~Idle(w) => task[w].of \in DOMAIN rows
  BY DEF BaseInv, TypeOK, TaskOK
<1>1. CASE CreateIntentRead
  <2>1. \/ rows' = rows
        \/ openIntent # 0 /\ rows[openIntent].provider = "cash" /\ rows' = Failed(openIntent)
    BY <1>1 DEF CreateIntentRead
  <2>2. Steady => \A w \in Workers : ~Idle(w) => rows[task[w].of].provider # "cash"
    BY <1>0, <1>1, FaultType DEF CreateIntentRead, Settling, Steady, Idle
  <2>3. Fails
    BY <1>0, <2>1, FailOne, FailNone, OpenFacts
  <2>4. Moves /\ NoNew /\ CashStays
    BY <2>2, <2>3, FailsQuiet
  <2> QED BY <1>1, <2>4 DEF Quiet, CreateIntentRead
<1>2. ASSUME NEW v \in Row, v.status = "pending", v.key = 0, Len(rows) < MaxRows,
             NEW closed, rows' = Append(closed, v),
             \/ closed = rows
             \/ \E r \in DOMAIN rows :
                    Open(r) /\ closed = Failed(r) /\ rows[r].provider # "cash"
      PROVE  Moves /\ NoNew /\ CashStays
  <2>1. Adds(v)
    BY <1>0, <1>2, AddOne
  <2>2. ASSUME NEW w \in Workers, ~Idle(w), rows[task[w].of].provider = "cash"
        PROVE  rows'[task[w].of] = rows[task[w].of]
    <3> DEFINE h == task[w].of
    <3>1. h \in DOMAIN rows
      BY <1>0, <2>2
    <3>2. CASE closed = rows
      BY <1>0, <1>2, <3>1, <3>2, AppendProperties, RowTyped
    <3>3. CASE \E r \in DOMAIN rows :
                   Open(r) /\ closed = Failed(r) /\ rows[r].provider # "cash"
      <4>1. PICK r \in DOMAIN rows : Open(r) /\ closed = Failed(r) /\ rows[r].provider # "cash"
        BY <3>3
      <4> DEFINE x == [rows[r] EXCEPT !.status = "failed"]
      <4>2. x \in Row /\ closed = [rows EXCEPT ![r] = x]
        BY <1>0, <4>1, RowTyped DEF Row, Failed
      <4> HIDE DEF x
      <4>3. closed \in Seq(Row) /\ DOMAIN closed = DOMAIN rows /\ h # r
        BY <1>0, <2>2, <4>1, <4>2, SetOne
      <4>4. closed[h] = rows[h]
        BY <3>1, <4>2, <4>3
      <4>5. h \in 1 .. Len(closed)
        BY <3>1, <4>3, LenProperties
      <4> QED BY <1>2, <4>3, <4>4, <4>5, AppendProperties
    <3> QED BY <1>2, <3>2, <3>3
  <2> QED BY <1>2, <2>1, <2>2, AddsQuiet
<1>3. CASE CreateIntentInsert
  <2> DEFINE v == NewRow(IF intent.wallet > 0 /\ intent.amount = 0 THEN "wallet" ELSE "gateway",
                         intent.amount, intent.wallet, 0)
  <2>1. v \in Row /\ v.status = "pending" /\ v.key = 0
    <3>1. intent.amount \in 0 .. Fare /\ intent.wallet \in 0 .. Fare
      BY <1>0 DEF TypeOK
    <3> QED BY <3>1, NewRowTyped DEF NewRow, Providers
  <2>2. rows' = Append(rows, v) /\ Len(rows) < MaxRows
    BY <1>3 DEF CreateIntentInsert
  <2> HIDE DEF v
  <2>3. Moves /\ NoNew /\ CashStays
    BY <1>2, <2>1, <2>2
  <2> QED BY <1>3, <2>3 DEF Quiet, CreateIntentInsert
<1>4. CASE CreateIntentReplays \/ CreateIntentEnds \/ SpendElsewhere
  BY <1>4, SameQuiet DEF Quiet, CreateIntentReplays, CreateIntentEnds, SpendElsewhere
<1>5. CASE CreateIntentOrder
  <2> DEFINE r == intent.row
             v == [rows[r] EXCEPT !.order = TRUE]
  <2>1. r \in DOMAIN rows /\ rows[r] \in Row
    BY <1>0, <1>5, RowTyped DEF HandlersOK, CreateIntentOrder
  <2>2. v \in Row /\ rows' = [rows EXCEPT ![r] = v]
    BY <1>5, <2>1 DEF Row, CreateIntentOrder
  <2>3. /\ v.provider = rows[r].provider /\ v.status = rows[r].status /\ v.ref = rows[r].ref
        /\ v.wallet = rows[r].wallet /\ v.key = rows[r].key
    BY <2>1 DEF Row
  <2> HIDE DEF r, v
  <2>4. /\ DOMAIN rows' = DOMAIN rows
        /\ rows'[r] = v /\ \A q \in DOMAIN rows \ {r} : rows'[q] = rows[q]
    BY <1>0, <2>1, <2>2, SetOne
  <2>5. Moves /\ NoNew
    BY <2>3, <2>4 DEF Moves, Moved, NoNew
  <2>6. \A q \in DOMAIN rows : rows'[q].status = rows[q].status
    BY <2>3, <2>4
  <2>7. CashStays
    BY <1>0, <2>6 DEF CashStays, MadeInv, MadeOK
  <2> QED BY <1>5, <2>5, <2>7 DEF Quiet, CreateIntentOrder
<1>6. CASE chooseCash
  <2> DEFINE v == NewRow("cash", total, 0, 0)
             closed == IF openIntent = 0 THEN rows ELSE Failed(openIntent)
  <2>1. v \in Row /\ v.status = "pending" /\ v.key = 0
    <3>1. total \in 0 .. Fare
      BY <1>0 DEF TypeOK
    <3> QED BY <3>1, NewRowTyped DEF NewRow, Providers
  <2>2. \/ closed = rows
        \/ \E r \in DOMAIN rows : Open(r) /\ closed = Failed(r) /\ rows[r].provider # "cash"
    BY <1>0, <1>6, OpenFacts DEF chooseCash
  <2>3. rows' = Append(closed, v) /\ Len(rows) < MaxRows
    BY <1>6 DEF chooseCash
  <2> HIDE DEF v, closed
  <2>4. Moves /\ NoNew /\ CashStays
    BY <1>2, <2>1, <2>2, <2>3
  <2> QED BY <1>6, <2>4 DEF Quiet, chooseCash
<1>10. CASE closeOpenIntents
  <2>1. \/ rows' = rows
        \/ openIntent # 0 /\ rows[openIntent].provider # "cash" /\ rows' = Failed(openIntent)
    BY <1>10 DEF closeOpenIntents
  <2>2. Fails
    BY <1>0, <2>1, FailOne, FailNone, OpenFacts
  <2>3. Moves /\ NoNew /\ CashStays
    BY <1>0, <2>1, <2>2, FailsQuiet, FailedOther, OpenFacts
  <2> QED BY <1>10, <2>3 DEF Quiet, closeOpenIntents
<1>7. CASE ChangeCoupon
  <2>3. Moves /\ NoNew /\ CashStays
    BY <1>7, SameQuiet DEF ChangeCoupon
  <2>4. \A r \in DOMAIN rows : rows[r].status # "captured"
    BY <1>0, <1>7, CapturedFacts DEF ChangeCoupon
  <2>5. "coupon" \in Faults \/ \A w \in Workers : Idle(w)
    BY <1>7 DEF ChangeCoupon, Fault, Settling, Idle
  <2> QED BY <1>7, <2>3, <2>4, <2>5 DEF Quiet, ChangeCoupon
<1>8. ASSUME NEW w \in Workers, payWithWallet(w) PROVE Quiet \/ Starts(w)
  <2>1. openIntent \in DOMAIN rows /\ Open(openIntent)
    BY <1>0, <1>8, OpenFacts DEF payWithWallet
  <2>2. CASE balance < rows[openIntent].wallet
    <3>1. rows' = Failed(openIntent) /\ rows[openIntent].provider # "cash"
      BY <1>8, <2>2 DEF payWithWallet
    <3>2. Fails
      BY <1>0, <2>1, <3>1, FailOne
    <3>3. Moves /\ NoNew /\ CashStays
      BY <1>0, <2>1, <3>1, <3>2, FailsQuiet, FailedOther
    <3> QED BY <1>8, <2>2, <3>3 DEF Quiet, payWithWallet
  <2>3. CASE ~(balance < rows[openIntent].wallet)
    BY <1>8, <2>1, <2>3 DEF Starts, Handle, payWithWallet
  <2> QED BY <2>2, <2>3
<1>9. ASSUME NEW w \in Workers, NEW h \in RowIds, capture(w, h) PROVE Starts(w)
  <2>1. Handle(h)
    BY <1>0, <1>9 DEF OrdersOK, capture, Handle
  <2> QED BY <1>9, <2>1 DEF Starts, Handle, capture
<1> QED BY <1>1, <1>3, <1>4, <1>5, <1>6, <1>7, <1>8, <1>9, <1>10 DEF Customer

LEMMA OutsideQuiet ==
    ASSUME BaseInv, MadeInv,
           \/ Gateway
           \/ \E w \in Workers : confirmCashCollected(w)
           \/ \E w \in Workers, h \in RowIds :
                 applyPayment(w, h) \/ reconcile(w, h) \/ recheckBooking(w, h)
           \/ \E r \in RowIds : SweepFetchesPending(r)
           \/ SweepFailsStuck
           \/ DisputeOpens \/ DisputeCharges \/ DisputeCancels
    PROVE  Quiet \/ \E w \in Workers : Starts(w)
<1>0. /\ TypeOK /\ HandlersOK /\ OrdersOK /\ rows \in Seq(Row)
      /\ \A w \in Workers : ~Idle(w) => task[w].of \in DOMAIN rows
  BY DEF BaseInv, TypeOK, TaskOK
<1>1. ASSUME NEW r \in RowIds, PayOrder(r) \/ WebhookLost(r) PROVE Quiet
  BY <1>1, SameQuiet DEF Quiet, PayOrder, WebhookLost
<1>2. ASSUME NEW r \in RowIds, AttemptFails(r) PROVE Quiet
  <2>1. r \in DOMAIN rows /\ rows[r].provider # "cash" /\ Open(r) /\ rows' = Failed(r)
    BY <1>0, <1>2 DEF OrdersOK, AttemptFails
  <2>2. Fails
    BY <1>0, <2>1, FailOne
  <2>3. Moves /\ NoNew /\ CashStays
    BY <2>1, <2>2, FailsQuiet, FailedOther
  <2> QED BY <1>2, <2>3 DEF Quiet, AttemptFails
<1>3. ASSUME NEW w \in Workers, confirmCashCollected(w) PROVE Starts(w)
  <2>1. Handle(openIntent)
    BY <1>0, <1>3, OpenFacts DEF Handle, confirmCashCollected, Open
  <2> QED BY <1>3, <2>1 DEF Starts, Handle, confirmCashCollected
<1>4. ASSUME NEW w \in Workers, NEW h \in RowIds,
             applyPayment(w, h) \/ reconcile(w, h) \/ recheckBooking(w, h)
      PROVE  Starts(w)
  <2>1. orders[h].state = "captured"
    BY <1>0, <1>4 DEF OrdersOK, applyPayment, reconcile, recheckBooking
  <2>2. Handle(h)
    BY <1>0, <2>1 DEF OrdersOK, Handle
  <2> QED BY <1>4, <2>2 DEF Starts, Handle, applyPayment, reconcile, recheckBooking
<1>5. ASSUME NEW r \in RowIds, SweepFetchesPending(r) PROVE Quiet
  BY <1>5, SameQuiet DEF Quiet, SweepFetchesPending
<1>6. CASE SweepFailsStuck
  <2>1. stuck \in DOMAIN rows /\ rows[stuck].provider # "cash"
    BY <1>0, <1>6 DEF HandlersOK, SweepFailsStuck
  <2>2. rows' = rows \/ (Open(stuck) /\ rows' = Failed(stuck))
    BY <1>6 DEF SweepFailsStuck
  <2>3. Fails
    BY <1>0, <2>1, <2>2, FailOne, FailNone
  <2>4. Moves /\ NoNew /\ CashStays
    BY <2>1, <2>2, <2>3, FailsQuiet, FailedOther
  <2> QED BY <1>6, <2>4 DEF Quiet, SweepFailsStuck
<1>7. CASE DisputeOpens \/ DisputeCharges
  BY <1>7, SameQuiet DEF Quiet, DisputeOpens, DisputeCharges
<1>8. CASE DisputeCancels
  <2>1. Fails
    BY <1>0, <1>8, FailOpen DEF DisputeCancels
  <2>2. Steady => \A w \in Workers : Idle(w)
    BY <1>0, <1>8, FaultType DEF DisputeCancels, Settling, Steady, Idle
  <2>3. Moves /\ NoNew /\ CashStays
    BY <2>1, <2>2, FailsQuiet
  <2> QED BY <1>8, <2>3 DEF Quiet, DisputeCancels
<1> QED BY <1>1, <1>2, <1>3, <1>4, <1>5, <1>6, <1>7, <1>8 DEF Gateway

-----------------------------------------------------------------------------
(* The statements of a settlement, by what they do                         *)

\* The settlement goes on at pc with row r, the rest of it unchanged.
Goes(w, pc, r) ==
    /\ task'[w].pc = pc /\ task'[w].row = r /\ task'[w].of = task[w].of
    /\ task'[w].held = task[w].held /\ task'[w].total = task[w].total
    /\ lock' = lock

Ends(w) == task'[w].pc = "idle" /\ (lock' => ~task[w].held)

Rest == UNCHANGED <<booking, total, orders, balance, ledger, paidOn, intent, closing>>

Gives(w) == Ends(w) /\ UNCHANGED rows /\ Rest

Reads(w) ==
    /\ task[w].pc = "inputs" /\ task'[w].pc = "lookup" /\ task'[w].total = total
    /\ task'[w].of = task[w].of /\ task'[w].held = task[w].held
    /\ lock' = lock /\ UNCHANGED rows /\ Rest

FindsNone(w) ==
    /\ task[w].pc = "lookup" /\ Existing(task[w].of) = 0
    /\ Goes(w, "insert", task[w].row) /\ UNCHANGED rows /\ Rest

FindsOpen(w, r) ==
    /\ task[w].pc = "lookup" /\ r = Existing(task[w].of) /\ rows[r].status # "captured"
    /\ Goes(w, "mark", r) /\ UNCHANGED rows /\ Rest

FindsCaptured(w, r) ==
    /\ \/ task[w].pc = "lookup" /\ r = Existing(task[w].of)
       \/ task[w].pc = "mark" /\ r = task[w].row
    /\ IsCaptured(r) /\ Goes(w, "wallet", r) /\ UNCHANGED rows /\ Rest

CapturesRow(w, r) ==
    /\ task[w].pc \in {"mark", "claim"} /\ r = task[w].row
    /\ \A q \in DOMAIN rows : rows[q].status # "captured"
    /\ Captures(r, task[w].of) /\ Rest
    /\ Ends(w) \/ Goes(w, "wallet", r)

MakesRow(w) ==
    /\ task[w].pc = "insert" /\ Adds(NewRow("gateway", total, 0, task[w].of))
    /\ Goes(w, "claim", Len(rows) + 1) /\ Rest

\* A leg is posted, or was before; paise is what it would be posted with.
PostsLeg(leg, paise, asked) ==
    ledger' = IF asked /\ ~Posted(leg) THEN [ledger EXCEPT ![leg] = paise] ELSE ledger

Charges(w) ==
    \/ /\ task[w].pc = "wallet" /\ Goes(w, "cash", task[w].row)
       /\ PostsLeg("wallet", WalletApplied(task[w].row), WalletApplied(task[w].row) # 0)
       /\ balance' <= balance
    \/ /\ task[w].pc = "cash" /\ Goes(w, "credit", task[w].row) /\ balance' = balance
       /\ PostsLeg("cash", task[w].total, IsCash(task[w].row))
    \/ /\ task[w].pc = "credit" /\ Goes(w, "paid", task[w].row) /\ balance' = balance
       /\ PostsLeg("credit", task[w].total, TRUE)

Pays(w) ==
    /\ task[w].pc = "paid" /\ Ends(w)
    /\ UNCHANGED <<total, rows, orders, balance, ledger, intent, closing>>
    /\ \/ booking' = "paid" /\ paidOn' = task[w].total
       \/ UNCHANGED <<booking, paidOn>>

Works(w) ==
    \/ Gives(w) \/ Reads(w) \/ FindsNone(w) \/ MakesRow(w) \/ Pays(w)
    \/ \E r \in DOMAIN rows : FindsOpen(w, r) \/ FindsCaptured(w, r) \/ CapturesRow(w, r)
    \/ Charges(w) /\ UNCHANGED <<booking, total, rows, orders, paidOn, intent, closing>>

LEMMA GoesStep ==
    ASSUME TypeOK, NEW w \in Workers, NEW pc \in SettlePcs, Step(w, pc)
    PROVE  Goes(w, pc, task[w].row) /\ Others(w)
<1>1. /\ lock' = lock /\ Others(w)
      /\ task'[w] = [task[w] EXCEPT !.pc = pc] /\ task[w] \in TaskRec
  BY StepTask
<1>2. /\ task'[w].pc = pc /\ task'[w].row = task[w].row /\ task'[w].of = task[w].of
      /\ task'[w].held = task[w].held /\ task'[w].total = task[w].total
  BY <1>1 DEF TaskRec
<1> QED BY <1>1, <1>2 DEF Goes

LEMMA GoesRow ==
    ASSUME TypeOK, NEW w \in Workers, NEW pc \in SettlePcs, NEW r \in 0 .. MaxRows,
           task' = [task EXCEPT ![w].pc = pc, ![w].row = r], lock' = lock
    PROVE  Goes(w, pc, r) /\ Others(w)
BY RowTask, ZenonT(60) DEF Goes, TaskRec

LEMMA GoesAfter ==
    ASSUME TypeOK, NEW w \in Workers, NEW r \in DOMAIN rows, AfterCapture(w, r)
    PROVE  (Ends(w) \/ Goes(w, "wallet", r)) /\ Others(w)
<1>1. r \in 0 .. MaxRows
  BY RowNumbers
<1> QED BY <1>1, AfterCaptureTask DEF Goes, Ends

LEMMA EndsAll ==
    ASSUME TypeOK, NEW w \in Workers, End(w) PROVE Ends(w) /\ Others(w)
BY EndTask DEF Ends

LEMMA SettleWorks ==
    ASSUME BaseInv, MadeInv, NEW w \in Workers, Settle(w)
    PROVE  ~Idle(w) /\ Others(w) /\ Works(w)
<1>0. /\ TypeOK /\ RowsOK /\ TaskOK(w) /\ MadeOK(w) /\ rows \in Seq(Row)
      /\ task \in [Workers -> TaskRec] /\ task[w] \in TaskRec /\ total \in 0 .. Fare
  BY DEF BaseInv, MadeInv, TypeOK, TaskRec
<1>1. ~Idle(w)
  BY DEF Settle, Idle, settlementInputs, ensureCapturedRow, markCaptured, InsertRow,
         CaptureMadeRow, PostWalletDebit, PostCashDebit, creditBookingSettlement,
         TransitionToPaid
<1>2. task[w].of \in DOMAIN rows /\ task[w].of \in 0 .. MaxRows /\ task[w].of # 0
  BY <1>0, <1>1, RowNumbers DEF TaskOK
<1>3. CASE settlementInputs(w)
  <2>1. CASE booking \in {"completed", "cancelled"}
    <3> DEFINE t == [task[w] EXCEPT !.pc = "lookup", !.status = booking, !.total = total]
    <3>1. /\ t.pc = "lookup" /\ t.of = task[w].of /\ t.held = task[w].held /\ t.total = total
      BY <1>0 DEF TaskRec
    <3>2. task' = [task EXCEPT ![w] = t] /\ lock' = lock
      BY <1>0, <1>3, <2>1 DEF settlementInputs, TaskRec
    <3> HIDE DEF t
    <3>3. Others(w) /\ task'[w] = t
      BY <1>0, <3>2 DEF Others
    <3>4. Reads(w)
      BY <1>3, <3>1, <3>2, <3>3 DEF Reads, Rest, settlementInputs
    <3> QED BY <1>1, <3>3, <3>4 DEF Works
  <2>2. CASE booking \notin {"completed", "cancelled"}
    BY <1>0, <1>1, <1>3, <2>2, EndsAll DEF settlementInputs, Works, Gives, Rest
  <2> QED BY <2>1, <2>2
<1>4. CASE ensureCapturedRow(w)
  <2> DEFINE r == Existing(task[w].of)
  <2>1. r \in {0} \cup DOMAIN rows
    BY <1>0, <1>2, ExistingRow
  <2>2. task[w].pc = "lookup" /\ UNCHANGED rows /\ Rest
    BY <1>4 DEF ensureCapturedRow, Rest
  <2>3. CASE r = 0
    <3>1. Step(w, "insert") /\ "insert" \in SettlePcs
      BY <1>4, <2>3 DEF ensureCapturedRow, SettlePcs
    <3> QED BY <1>0, <1>1, <2>2, <2>3, <3>1, GoesStep DEF Works, FindsNone
  <2>4. CASE r # 0 /\ rows[r].status = "captured"
    <3>1. AfterCapture(w, r) /\ IsCaptured(r)
      BY <1>4, <2>1, <2>4 DEF ensureCapturedRow, IsCaptured
    <3>2. (Ends(w) \/ Goes(w, "wallet", r)) /\ Others(w)
      BY <1>0, <2>1, <2>4, <3>1, GoesAfter
    <3> QED BY <1>1, <2>1, <2>2, <2>4, <3>1, <3>2 DEF Works, FindsCaptured, Gives
  <2>5. CASE r # 0 /\ rows[r].status # "captured"
    <3>1. task' = [task EXCEPT ![w].pc = "mark", ![w].row = r] /\ lock' = lock
      BY <1>4, <2>5 DEF ensureCapturedRow
    <3>2. "mark" \in SettlePcs /\ r \in 0 .. MaxRows
      BY <1>0, <2>1, RowNumbers DEF SettlePcs
    <3>3. Goes(w, "mark", r) /\ Others(w)
      BY <1>0, <3>1, <3>2, GoesRow
    <3> QED BY <1>1, <2>1, <2>2, <2>5, <3>3 DEF Works, FindsOpen
  <2> QED BY <2>3, <2>4, <2>5
<1>5. ASSUME NEW r \in DOMAIN rows, r = task[w].row, task[w].pc \in {"mark", "claim"},
             rows[r].status # "captured", ~Conflicts(r, task[w].of),
             rows' = [rows EXCEPT ![r].status = "captured", ![r].ref = task[w].of],
             AfterCapture(w, r), Rest
      PROVE  Others(w) /\ Works(w)
  <2>1. \A q \in DOMAIN rows : rows[q].status # "captured"
    BY <1>0, <1>5, NoConflict
  <2>2. Captures(r, task[w].of)
    BY <1>0, <1>2, <1>5, CaptureOne
  <2>3. (Ends(w) \/ Goes(w, "wallet", r)) /\ Others(w)
    BY <1>0, <1>5, GoesAfter
  <2> QED BY <1>5, <2>1, <2>2, <2>3 DEF Works, CapturesRow
<1>6. CASE markCaptured(w)
  <2> DEFINE r == task[w].row
  <2>1. r \in DOMAIN rows /\ task[w].pc = "mark" /\ Rest
    BY <1>0, <1>1, <1>6 DEF TaskOK, markCaptured, Rest
  <2>2. CASE rows[r].status = "captured"
    <3>1. AfterCapture(w, r) /\ UNCHANGED rows /\ IsCaptured(r)
      BY <1>6, <2>1, <2>2 DEF markCaptured, IsCaptured
    <3>2. (Ends(w) \/ Goes(w, "wallet", r)) /\ Others(w)
      BY <1>0, <2>1, <3>1, GoesAfter
    <3> QED BY <1>1, <2>1, <3>1, <3>2 DEF Works, FindsCaptured, Gives
  <2>3. CASE rows[r].status # "captured" /\ Conflicts(r, task[w].of)
    BY <1>0, <1>1, <1>6, <2>1, <2>3, EndsAll DEF markCaptured, Works, Gives
  <2>4. CASE rows[r].status # "captured" /\ ~Conflicts(r, task[w].of)
    BY <1>1, <1>5, <1>6, <2>1, <2>4 DEF markCaptured
  <2> QED BY <2>2, <2>3, <2>4
<1>7. CASE InsertRow(w)
  <2> DEFINE h == task[w].of
             v == NewRow("gateway", total, 0, h)
  <2>1. task[w].pc = "insert" /\ Rest /\ ~(\E q \in DOMAIN rows : rows[q].key = h)
    BY <1>0, <1>7 DEF InsertRow, Rest, MadeOK
  <2>2. CASE Len(rows) = MaxRows
    BY <1>0, <1>1, <1>7, <2>1, <2>2, EndsAll DEF InsertRow, Works, Gives
  <2>3. CASE Len(rows) # MaxRows
    <3>1. /\ rows' = Append(rows, v) /\ lock' = lock
          /\ task' = [task EXCEPT ![w].pc = "claim", ![w].row = Len(rows) + 1]
      BY <1>7, <2>1, <2>3 DEF InsertRow
    <3>2. v \in Row
      BY <1>0, <1>2, NewRowTyped DEF Providers
    <3>3. Len(rows) < MaxRows /\ Len(rows) \in Nat
      BY <1>0, <2>3, RowTyped DEF TypeOK
    <3>4. "claim" \in SettlePcs /\ Len(rows) + 1 \in 0 .. MaxRows
      BY <3>3 DEF SettlePcs
    <3>5. Goes(w, "claim", Len(rows) + 1) /\ Others(w)
      BY <1>0, <3>1, <3>4, GoesRow
    <3> HIDE DEF v
    <3>6. Adds(v)
      BY <1>0, <3>1, <3>2, <3>3, AddOne
    <3> QED BY <1>1, <2>1, <3>5, <3>6 DEF Works, MakesRow, v
  <2> QED BY <2>2, <2>3
<1>8. CASE CaptureMadeRow(w)
  <2> DEFINE r == task[w].row
             h == task[w].of
  <2>1. /\ r \in DOMAIN rows /\ task[w].pc = "claim" /\ Rest
        /\ \A q \in DOMAIN rows : rows[q].status # "captured"
    BY <1>0, <1>1, <1>8 DEF TaskOK, MadeOK, CaptureMadeRow, Rest
  <2>2. capturedFor = 0
    BY <1>0, <2>1, CapturedFacts
  <2>3. byGatewayRef(h) = 0
    BY <1>0, <1>2, <2>1, RefFacts DEF RowsOK
  <2>4. ~Conflicts(r, h)
    BY <2>2, <2>3 DEF Conflicts
  <2> QED BY <1>1, <1>5, <1>8, <2>1, <2>4 DEF CaptureMadeRow
<1>9. task[w].row \in {0} \cup DOMAIN rows
  BY <1>0, <1>1 DEF TaskOK
<1>10. CASE PostWalletDebit(w)
  <2> DEFINE paise == WalletApplied(task[w].row)
  <2>1. Goes(w, "cash", task[w].row) /\ Others(w)
    BY <1>0, <1>10, GoesStep DEF PostWalletDebit, SettlePcs
  <2>2. PostsLeg("wallet", paise, paise # 0)
    BY <1>10 DEF PostWalletDebit, PostsLeg
  <2>3. paise \in Nat
    BY <1>0, <1>9, RowTyped DEF WalletApplied, Row
  <2>4. balance' <= balance
    <3>1. balance' = balance \/ balance' = balance - paise
      BY <1>10 DEF PostWalletDebit
    <3>2. balance \in Int
      BY <1>0 DEF TypeOK
    <3> QED BY <2>3, <3>1, <3>2
  <2> QED BY <1>1, <1>10, <2>1, <2>2, <2>4 DEF PostWalletDebit, Works, Charges
<1>11. CASE PostCashDebit(w)
  <2>1. Goes(w, "credit", task[w].row) /\ Others(w)
    BY <1>0, <1>11, GoesStep DEF PostCashDebit, SettlePcs
  <2>2. PostsLeg("cash", task[w].total, IsCash(task[w].row))
    BY <1>11 DEF PostCashDebit, PostsLeg
  <2> QED BY <1>1, <1>11, <2>1, <2>2 DEF PostCashDebit, Works, Charges
<1>12. CASE creditBookingSettlement(w)
  <2>1. Goes(w, "paid", task[w].row) /\ Others(w)
    BY <1>0, <1>12, GoesStep DEF creditBookingSettlement, SettlePcs
  <2>2. PostsLeg("credit", task[w].total, TRUE)
    BY <1>12 DEF creditBookingSettlement, PostsLeg
  <2> QED BY <1>1, <1>12, <2>1, <2>2 DEF creditBookingSettlement, Works, Charges
<1>13. CASE TransitionToPaid(w)
  <2>1. End(w) /\ task[w].pc = "paid"
    BY <1>13 DEF TransitionToPaid
  <2>2. Pays(w)
    BY <1>0, <1>13, <2>1, EndsAll DEF TransitionToPaid, Pays
  <2> QED BY <1>0, <1>1, <2>1, <2>2, EndsAll DEF Works
<1> QED BY <1>3, <1>4, <1>6, <1>7, <1>8, <1>10, <1>11, <1>12, <1>13 DEF Settle

-----------------------------------------------------------------------------
(* Rows made for a reference                                               *)

\* The rest of MadeInv, for a settlement that does not move.
LEMMA OtherMade ==
    ASSUME BaseInv, MadeInv, Serial \/ Steady, NEW v \in Workers, task'[v] = task[v],
           Serial => Idle(v), Moves, CashStays,
           \A r \in DOMAIN rows' \ DOMAIN rows : rows'[r].key = 0
    PROVE  MadeOK(v)'
<1>1. CASE Idle(v)
  BY <1>1 DEF MadeOK, Idle
<1>2. CASE ~Idle(v)
  <2>1. ~Serial /\ Steady /\ task[v].of \in DOMAIN rows /\ task[v].of # 0 /\ MadeOK(v)
    BY <1>2, RowNumbers DEF BaseInv, TaskOK, MadeInv
  <2>2. task[v].pc \notin {"insert", "claim"} /\ task'[v].of \in DOMAIN rows
    BY <1>2, <2>1 DEF MadeOK
  <2>3. task[v].pc \in {"inputs", "lookup"} => \A r \in DOMAIN rows' : rows'[r].key # task[v].of
    BY <2>1 DEF MadeOK, Moves, Moved
  <2>4. rows'[task[v].of].provider = "cash" => rows'[task[v].of].status # "failed"
    BY <1>2, <2>1 DEF CashStays, Moves, Moved
  <2> QED BY <2>1, <2>2, <2>3, <2>4 DEF MadeOK, Serial, Steady
<1> QED BY <1>1, <1>2

LEMMA KeysKept ==
    ASSUME KeysOK, Moves, \A r \in DOMAIN rows' \ DOMAIN rows : rows'[r].key = 0 PROVE KeysOK'
BY DEF KeysOK, Moves, Moved, Steady

LEMMA QuietMade ==
    ASSUME BaseInv, MadeInv, Moves, NoNew, CashStays, task' = task, lock => lock'
    PROVE  MadeInv'
<1>1. KeysOK'
  BY KeysKept DEF MadeInv, NoNew
<1>2. ASSUME NEW w \in Workers PROVE MadeOK(w)'
  <2>1. CASE Idle(w)
    BY <2>1 DEF MadeOK, Idle
  <2>2. CASE ~Idle(w)
    <3>1. MadeOK(w) /\ task[w].of \in DOMAIN rows /\ task[w].of # 0 /\ ~Idle(w)'
      BY <2>2, RowNumbers DEF BaseInv, TaskOK, MadeInv, Idle
    <3>2. (task[w].pc = "insert" => /\ rows'[task[w].of].provider = "cash"
                                    /\ rows'[task[w].of].status # "pending")
      BY <3>1 DEF MadeOK, Moves, Moved
    <3>3. (task[w].pc \in {"inputs", "lookup", "insert"} =>
              \A r \in DOMAIN rows' : rows'[r].key # task[w].of)
      BY <3>1 DEF MadeOK, Moves, Moved, NoNew
    <3>4. (task[w].pc \in {"insert", "claim"} =>
              Alone(w)' /\ \A r \in DOMAIN rows' : rows'[r].status # "captured")
      BY <3>1 DEF MadeOK, Alone, Idle, NoNew
    <3>5. (Serial => task[w].held /\ lock' /\ Alone(w)')
      BY <2>2, <3>1 DEF MadeOK, Alone, Idle
    <3>6. (Steady => /\ rows'[task[w].of].provider = "cash" => rows'[task[w].of].status # "failed"
                     /\ task[w].pc \notin {"insert", "claim"})
      BY <2>2, <3>1 DEF MadeOK, Moves, Moved, CashStays
    <3> QED BY <3>1, <3>2, <3>3, <3>4, <3>5, <3>6 DEF MadeOK, Serial, Steady
  <2> QED BY <2>1, <2>2
<1> QED BY <1>1, <1>2 DEF MadeInv

LEMMA StartsMade ==
    ASSUME BaseInv, MadeInv, Serial \/ Steady, NEW w \in Workers, Starts(w) PROVE MadeInv'
<1>1. PICK h \in DOMAIN rows : Handle(h) /\ Begin(w, h) /\ UNCHANGED <<booking, total, rows, ledger, paidOn>>
  BY DEF Starts
<1>2. h \in RowIds /\ TypeOK
  BY RowNumbers DEF BaseInv, RowIds
<1>3. Moves /\ NoNew /\ CashStays
  BY <1>1, SameQuiet
<1>4. /\ Others(w) /\ task[w].pc = "idle"
      /\ \/ task'[w] = task[w]
         \/ /\ task'[w].pc = "inputs" /\ task'[w].of = h
            /\ ~Serial \/ (~lock /\ lock' /\ task'[w].held)
      /\ lock => lock'
      /\ task' \in [Workers -> TaskRec]
  BY <1>1, <1>2, BeginTask DEF Others, Serial
<1>5. CASE task'[w] = task[w]
  <2>1. task' = task
    BY <1>2, <1>4, <1>5 DEF Others, TypeOK
  <2> QED BY <1>3, <1>4, <2>1, QuietMade
<1>6. CASE task'[w].pc = "inputs" /\ task'[w].of = h /\ (~Serial \/ (~lock /\ lock' /\ task'[w].held))
  <2>1. Serial => \A v \in Workers : Idle(v)
    BY <1>6 DEF MadeInv, MadeOK
  <2>2. ASSUME NEW v \in Workers \ {w} PROVE MadeOK(v)' /\ (Serial => Idle(v)')
    BY <1>1, <1>3, <1>4, <2>1, OtherMade DEF Others, Idle
  <2>3. Serial => Alone(w)'
    BY <2>2 DEF Alone
  <2>4. \A r \in DOMAIN rows' : rows'[r].key # h
    BY <1>1, <1>2 DEF MadeInv, KeysOK, Handle, RowIds
  <2>5. rows'[h].provider = "cash" => rows'[h].status # "failed"
    BY <1>1 DEF Handle
  <2>6. MadeOK(w)'
    BY <1>6, <2>3, <2>4, <2>5 DEF MadeOK, Serial, Steady
  <2>7. KeysOK'
    BY <1>1 DEF MadeInv, KeysOK
  <2> QED BY <2>2, <2>6, <2>7 DEF MadeInv
<1> QED BY <1>4, <1>5, <1>6

\* A settlement that goes on, or ends, while the others wait.
LEMMA WorkMade ==
    ASSUME BaseInv, MadeInv, Serial \/ Steady, NEW w \in Workers, ~Idle(w), Others(w),
           Moves, CashStays, MadeOK(w)',
           \A r \in DOMAIN rows' \ DOMAIN rows : rows'[r].key = 0
    PROVE  MadeInv'
<1>1. Serial => Alone(w)
  BY DEF MadeInv, MadeOK
<1>2. \A v \in Workers \ {w} : MadeOK(v)'
  BY <1>1, OtherMade DEF Others, Alone
<1>3. KeysOK'
  BY KeysKept DEF MadeInv
<1> QED BY <1>2, <1>3 DEF MadeInv

LEMMA GoesMade ==
    ASSUME MadeInv, NEW w \in Workers, ~Idle(w), Others(w), CashStays, Moves,
           task[w].of \in DOMAIN rows, task'[w].of = task[w].of,
           task'[w].held = task[w].held, lock' = lock,
           task'[w].pc \in {"lookup", "mark", "wallet", "cash", "credit", "paid"},
           task'[w].pc = "lookup" => UNCHANGED rows /\ task[w].pc = "inputs"
    PROVE  MadeOK(w)'
<1>1. MadeOK(w)
  BY DEF MadeInv
<1>2. task'[w].pc = "lookup" => \A r \in DOMAIN rows' : rows'[r].key # task[w].of
  BY <1>1 DEF MadeOK
<1>3. Serial => task'[w].held /\ lock' /\ Alone(w)'
  BY <1>1 DEF MadeOK, Alone, Others, Idle
<1>4. Steady => (rows'[task[w].of].provider = "cash" => rows'[task[w].of].status # "failed")
  BY <1>1 DEF CashStays, Moves, Moved
<1> QED BY <1>2, <1>3, <1>4 DEF MadeOK, Serial, Steady

LEMMA CapturesMoves ==
    ASSUME BaseInv, MadeInv, NEW r \in DOMAIN rows, NEW h \in 0 .. MaxRows, Captures(r, h),
           rows[r].status # "captured"
    PROVE  Moves /\ CashStays /\ DOMAIN rows' = DOMAIN rows /\ rows'[r].status = "captured"
           /\ rows'[r].ref = h
<1>1. rows[r] \in Row /\ \A w \in Workers : ~Idle(w) => task[w].of \in DOMAIN rows
  BY RowTyped DEF BaseInv, TaskOK
<1>2. /\ rows'[r].status = "captured" /\ rows'[r].ref = h
      /\ rows'[r].provider = rows[r].provider /\ rows'[r].wallet = rows[r].wallet
      /\ rows'[r].key = rows[r].key
  BY <1>1 DEF Captures, Row
<1>3. Moves
  BY <1>2 DEF Moves, Moved, Captures
<1>4. CashStays
  BY <1>1, <1>2 DEF CashStays, Captures, MadeInv, MadeOK
<1> QED BY <1>2, <1>3, <1>4 DEF Captures

LEMMA WorksMade ==
    ASSUME BaseInv, MadeInv, Serial \/ Steady, NEW w \in Workers, ~Idle(w), Others(w), Works(w)
    PROVE  MadeInv'
<1>0. /\ TypeOK /\ TaskOK(w) /\ MadeOK(w) /\ task[w].of \in DOMAIN rows
      /\ task[w].of \in 0 .. MaxRows /\ task[w].of # 0
  BY RowNumbers DEF BaseInv, MadeInv, TaskOK
<1>1. UNCHANGED rows => Moves /\ CashStays
  BY SameQuiet
<1>2. Ends(w) => MadeOK(w)'
  BY DEF Ends, MadeOK, Idle
<1>3. ASSUME NEW pc \in {"mark", "wallet", "cash", "credit", "paid"}, NEW r, Goes(w, pc, r),
             Moves, CashStays
      PROVE  MadeOK(w)'
  BY <1>0, <1>3, GoesMade DEF Goes
<1>4. CASE UNCHANGED rows /\ (Ends(w) \/ MadeOK(w)')
  BY <1>1, <1>2, <1>4, WorkMade
<1>5. CASE Gives(w) \/ Pays(w)
  BY <1>4, <1>5 DEF Gives, Pays
<1>6. CASE Reads(w)
  <2>1. MadeOK(w)'
    BY <1>0, <1>1, <1>6, GoesMade DEF Reads
  <2> QED BY <1>4, <1>6, <2>1 DEF Reads
<1>7. CASE FindsNone(w)
  <2>1. /\ rows[task[w].of].provider = "cash" /\ rows[task[w].of].status = "failed"
        /\ \A r \in DOMAIN rows : rows[r].status # "captured"
    <3>1. rows[task[w].of] \in Row
      BY <1>0, RowTyped
    <3> QED BY <1>0, <1>7, <3>1, ExistingRow DEF FindsNone, TaskOK, Row
  <2>2. ~Steady /\ Serial
    BY <1>0, <2>1 DEF MadeOK
  <2>3. Alone(w)' /\ task'[w].held /\ lock'
    BY <1>0, <1>7, <2>2 DEF MadeOK, Alone, Others, Idle, FindsNone, Goes
  <2>4. task[w].pc = "lookup" /\ task'[w].pc = "insert" /\ task'[w].of = task[w].of /\ rows' = rows
    BY <1>7 DEF FindsNone, Goes
  <2>5. MadeOK(w)'
    BY <1>0, <2>1, <2>2, <2>3, <2>4 DEF MadeOK, Steady
  <2> QED BY <1>4, <2>4, <2>5
<1>8. ASSUME NEW r \in DOMAIN rows, FindsOpen(w, r) \/ FindsCaptured(w, r) PROVE MadeInv'
  BY <1>1, <1>3, <1>4, <1>8 DEF FindsOpen, FindsCaptured
<1>9. ASSUME NEW r \in DOMAIN rows, CapturesRow(w, r) PROVE MadeInv'
  <2>1. Moves /\ CashStays /\ DOMAIN rows' = DOMAIN rows
    BY <1>0, <1>9, CapturesMoves DEF CapturesRow
  <2>2. MadeOK(w)'
    BY <1>2, <1>3, <1>9, <2>1 DEF CapturesRow
  <2> QED BY <2>1, <2>2, WorkMade
<1>10. CASE MakesRow(w)
  <2> DEFINE h == task[w].of
             v == NewRow("gateway", total, 0, h)
  <2>1. v.status = "pending" /\ v.key = h /\ v.ref = 0
    BY DEF NewRow
  <2>2. Adds(v) /\ Goes(w, "claim", Len(rows) + 1) /\ task[w].pc = "insert"
    BY <1>10 DEF MakesRow
  <2> HIDE DEF v
  <2>3. /\ ~Steady /\ Serial /\ Alone(w) /\ rows[h].provider = "cash" /\ rows[h].status # "pending"
        /\ \A r \in DOMAIN rows : rows[r].status # "captured"
    BY <1>0, <2>2 DEF MadeOK, Idle
  <2>4. \A q \in DOMAIN rows : Kept(q) /\ rows'[q].status # "captured"
    BY <1>0, <2>2, <2>3, RowTyped, StaysKept DEF Adds
  <2>5. \A q \in DOMAIN rows' : rows'[q].status # "captured"
    BY <2>1, <2>2, <2>4 DEF Adds
  <2>6. KeysOK'
    <3>1. DOMAIN rows \subseteq DOMAIN rows' /\ \A q \in DOMAIN rows : Kept(q)
      BY <2>2, <2>4 DEF Adds
    <3>2. \A q \in DOMAIN rows' : q \in DOMAIN rows \/ rows'[q] = v
      BY <2>2 DEF Adds
    <3> QED BY <1>0, <2>1, <2>3, <3>1, <3>2 DEF KeysOK, Kept, MadeInv, Steady
  <2>7. Alone(w)' /\ \A u \in Workers \ {w} : MadeOK(u)'
    BY <2>3 DEF Alone, Others, Idle, MadeOK
  <2>8. task'[w].held /\ lock' /\ task'[w].pc = "claim"
    BY <1>0, <2>2, <2>3 DEF Goes, MadeOK
  <2>9. MadeOK(w)'
    BY <2>3, <2>5, <2>7, <2>8 DEF MadeOK, Steady
  <2> QED BY <2>6, <2>7, <2>9 DEF MadeInv
<1>11. CASE Charges(w) /\ UNCHANGED rows
  BY <1>1, <1>3, <1>4, <1>11 DEF Charges
<1> QED BY <1>5, <1>6, <1>7, <1>8, <1>9, <1>10, <1>11 DEF Works

\* Every step is one of these.
LEMMA Steps ==
    ASSUME BaseInv, MadeInv, [Next]_vars
    PROVE  \/ Quiet \/ LockExpires
           \/ \E w \in Workers : \/ Starts(w) \/ Die(w)
                                 \/ ~Idle(w) /\ Others(w) /\ Works(w)
<1>1. CASE UNCHANGED vars
  BY <1>1, SameQuiet DEF vars, Quiet
<1>2. CASE Next
  BY <1>2, CustomerQuiet, OutsideQuiet, SettleWorks DEF Next
<1> QED BY <1>1, <1>2

LEMMA DiesMade ==
    ASSUME BaseInv, MadeInv, Serial \/ Steady, NEW w \in Workers, Die(w)
    PROVE  /\ MadeInv' /\ Others(w) /\ task'[w].pc = "idle"
           /\ UNCHANGED <<booking, total, rows, ledger, paidOn, orders, intent, closing, balance>>
<1>1. task \in [Workers -> TaskRec] /\ NoTask.pc = "idle"
  BY DEF BaseInv, TypeOK, TaskRec, NoTask
<1>2. Others(w) /\ task'[w].pc = "idle" /\ ~Idle(w) /\ UNCHANGED rows
  BY <1>1 DEF Die, Others, Idle
<1>3. Moves /\ CashStays /\ MadeOK(w)'
  BY <1>2, SameQuiet DEF MadeOK, Idle
<1> QED BY <1>2, <1>3, WorkMade DEF Die

LEMMA ExpiresMade ==
    ASSUME BaseInv, MadeInv, Serial \/ Steady, LockExpires PROVE MadeInv'
<1>1. UNCHANGED <<rows, task>>
  BY DEF LockExpires
<1>2. Moves /\ CashStays
  BY <1>1, SameQuiet
<1>3. Serial => \A w \in Workers : ~task[w].held
  BY DEF LockExpires, FaultUnless, Fault, Serial
<1>4. Serial => \A w \in Workers : Idle(w)
  BY <1>3 DEF MadeInv, MadeOK
<1>5. \A w \in Workers : MadeOK(w)'
  BY <1>1, <1>2, <1>4, OtherMade
<1>6. KeysOK'
  BY <1>1 DEF MadeInv, KeysOK
<1> QED BY <1>5, <1>6 DEF MadeInv

LEMMA MadeInit == Init => MadeInv
<1> SUFFICES ASSUME Init PROVE MadeInv
  OBVIOUS
<1>1. DOMAIN rows = {} /\ NoTask.pc = "idle"
  BY DEF Init, NoTask
<1>2. \A w \in Workers : task[w].pc = "idle"
  BY <1>1 DEF Init
<1> QED BY <1>1, <1>2 DEF MadeInv, KeysOK, MadeOK, Idle

LEMMA MadeStep ==
    ASSUME Serial \/ Steady PROVE BaseInv /\ MadeInv /\ [Next]_vars => MadeInv'
<1> SUFFICES ASSUME BaseInv, MadeInv, [Next]_vars PROVE MadeInv'
  OBVIOUS
<1>1. CASE Quiet
  BY <1>1, QuietMade DEF Quiet
<1> QED BY <1>1, Steps, StartsMade, DiesMade, ExpiresMade, WorksMade

-----------------------------------------------------------------------------
(* The legs come from the captured row                                     *)

Posting == {"wallet", "cash", "credit", "paid"}

\* A settlement that posts works on a captured row, in the order of its legs.
LegsOK(w) ==
    /\ task[w].pc \in Posting => IsCaptured(task[w].row)
    /\ task[w].pc \in {"cash", "credit", "paid"} =>
           (rows[task[w].row].wallet > 0 => Posted("wallet"))
    /\ task[w].pc \in {"credit", "paid"} =>
           (rows[task[w].row].provider = "cash" => Posted("cash"))
    /\ task[w].pc = "paid" => Posted("credit")

\* The ledger holds the legs of row r, the credit last.
LedgerOK(r) ==
    /\ IsCaptured(r)
    /\ Posted("wallet") => ledger.wallet = rows[r].wallet
    /\ Posted("cash") => rows[r].provider = "cash"
    /\ Posted("credit") => /\ rows[r].wallet > 0 => Posted("wallet")
                           /\ rows[r].provider = "cash" => Posted("cash")

LegsInv ==
    /\ \A w \in Workers : LegsOK(w)
    /\ (Posted("wallet") \/ Posted("cash") \/ Posted("credit")) => \E r \in DOMAIN rows : LedgerOK(r)
    /\ booking = "paid" => Posted("credit")

LEMMA LedgerHere ==
    ASSUME BaseInv, LegsInv, NEW r, IsCaptured(r) PROVE LedgerOK(r)
<1>1. CASE Posted("wallet") \/ Posted("cash") \/ Posted("credit")
  <2>1. PICK q \in DOMAIN rows : LedgerOK(q)
    BY <1>1 DEF LegsInv
  <2>2. q = r
    BY <2>1 DEF LedgerOK, BaseInv, RowsOK, IsCaptured
  <2> QED BY <2>1, <2>2
<1>2. CASE ~(Posted("wallet") \/ Posted("cash") \/ Posted("credit"))
  BY <1>2 DEF LedgerOK
<1> QED BY <1>1, <1>2

LEMMA CapturedKept ==
    ASSUME Moves, NEW r, IsCaptured(r)
    PROVE  /\ IsCaptured(r)' /\ rows'[r].wallet = rows[r].wallet
           /\ rows'[r].provider = rows[r].provider
BY DEF Moves, Moved, IsCaptured

LEMMA OtherLegs ==
    ASSUME NEW v \in Workers, LegsOK(v), task'[v] = task[v], Moves,
           \A leg \in {"wallet", "cash", "credit"} : Posted(leg) => Posted(leg)'
    PROVE  LegsOK(v)'
<1>1. CASE task[v].pc \in Posting
  <2>1. IsCaptured(task[v].row)
    BY <1>1 DEF LegsOK
  <2>2. /\ IsCaptured(task[v].row)' /\ rows'[task[v].row].wallet = rows[task[v].row].wallet
        /\ rows'[task[v].row].provider = rows[task[v].row].provider
    BY <2>1, CapturedKept DEF IsCaptured
  <2> QED BY <2>2 DEF LegsOK
<1>2. CASE task[v].pc \notin Posting
  BY <1>2 DEF LegsOK, Posting
<1> QED BY <1>1, <1>2

\* A step that posts nothing: the settlements it moves are not posting, or
\* have just found their captured row.
LEMMA SameLedger ==
    ASSUME LegsInv, Moves, UNCHANGED ledger, \A w \in Workers : LegsOK(w)',
           booking' = "paid" => Posted("credit")
    PROVE  LegsInv'
<1>1. \A leg \in {"wallet", "cash", "credit"} : Posted(leg)' <=> Posted(leg)
  BY DEF Posted
<1>2. ASSUME NEW r \in DOMAIN rows, LedgerOK(r) PROVE r \in DOMAIN rows' /\ LedgerOK(r)'
  <2>1. /\ IsCaptured(r)' /\ rows'[r].wallet = rows[r].wallet
        /\ rows'[r].provider = rows[r].provider
    BY <1>2, CapturedKept DEF LedgerOK
  <2> QED BY <1>1, <1>2, <2>1 DEF LedgerOK, IsCaptured
<1> QED BY <1>1, <1>2 DEF LegsInv

LEMMA MovedLegs ==
    ASSUME LegsInv, Moves, UNCHANGED ledger, NEW w \in Workers, Others(w),
           \/ task'[w] = task[w]
           \/ task'[w].pc \notin Posting
           \/ task'[w].pc = "wallet" /\ IsCaptured(task[w].row)',
           booking' = "paid" => Posted("credit")
    PROVE  LegsInv'
<1>1. \A leg \in {"wallet", "cash", "credit"} : Posted(leg)' <=> Posted(leg)
  BY DEF Posted
<1>2. \A v \in Workers \ {w} : LegsOK(v)'
  BY <1>1, OtherLegs DEF Others, LegsInv
<1>3. LegsOK(w)'
  <2>1. CASE task'[w] = task[w]
    BY <1>1, <2>1, OtherLegs DEF LegsInv
  <2>2. CASE task'[w].pc \notin Posting
    BY <2>2 DEF LegsOK, Posting
  <2>3. CASE task'[w].pc = "wallet" /\ IsCaptured(task[w].row)'
    BY <2>3 DEF LegsOK, Posting
  <2> QED BY <2>1, <2>2, <2>3
<1> QED BY <1>2, <1>3, SameLedger

\* LedgerService.post: one leg at most, and never twice.
LEMMA LegPosted ==
    ASSUME TypeOK, NEW leg \in {"wallet", "cash", "credit"}, NEW paise \in 0 .. Fare, NEW asked,
           PostsLeg(leg, paise, asked)
    PROVE  /\ \A l \in {"wallet", "cash", "credit"} \ {leg} : ledger'[l] = ledger[l]
           /\ \A l \in {"wallet", "cash", "credit"} : Posted(l) => ledger'[l] = ledger[l] /\ Posted(l)'
           /\ asked => Posted(leg)'
           /\ \/ ledger'[leg] = ledger[leg] /\ (asked => Posted(leg))
              \/ asked /\ ~Posted(leg) /\ ledger'[leg] = paise
<1>1. ledger \in [{"wallet", "cash", "credit"} -> {None} \cup 0 .. Fare] /\ paise # None
  BY DEF TypeOK, None
<1>2. CASE asked /\ ~Posted(leg)
  <2>1. ledger' = [ledger EXCEPT ![leg] = paise]
    BY <1>2 DEF PostsLeg
  <2> QED BY <1>1, <1>2, <2>1 DEF Posted
<1>3. CASE ~(asked /\ ~Posted(leg))
  <2>1. ledger' = ledger
    BY <1>3 DEF PostsLeg
  <2> QED BY <1>3, <2>1 DEF Posted
<1> QED BY <1>2, <1>3

LEMMA ChargesLegs ==
    ASSUME BaseInv, LegsInv, NEW w \in Workers, Others(w), Charges(w),
           UNCHANGED <<booking, total, rows, orders, paidOn, intent, closing>>
    PROVE  LegsInv'
<1> DEFINE Legs == {"wallet", "cash", "credit"}
<1>r. PICK r \in DOMAIN rows : r = task[w].row
  BY DEF LegsInv, LegsOK, Charges, Posting, IsCaptured
<1>0. /\ TypeOK /\ LegsOK(w) /\ IsCaptured(r) /\ rows[r] \in Row /\ r # 0
      /\ task[w].total \in 0 .. Fare /\ rows[r].wallet \in 0 .. Fare
  <2>1. TypeOK /\ LegsOK(w) /\ IsCaptured(r)
    BY <1>r DEF BaseInv, LegsInv, LegsOK, Charges, Posting
  <2>2. rows[r] \in Row /\ r # 0
    BY <2>1, RowTyped DEF IsCaptured
  <2>3. rows[r].wallet \in 0 .. Fare
    BY <2>2 DEF Row
  <2>4. task[w].total \in 0 .. Fare
    BY <2>1 DEF TypeOK
  <2> QED BY <2>1, <2>2, <2>3, <2>4
<1>1. WalletApplied(r) = rows[r].wallet /\ (IsCash(r) <=> rows[r].provider = "cash")
  BY <1>0 DEF WalletApplied, IsCash
<1>2. LedgerOK(r)
  BY <1>0, LedgerHere
<1>3. IsCaptured(r)' /\ r \in DOMAIN rows'
  BY <1>0 DEF IsCaptured
<1>4. task'[w].row = r
  BY <1>r DEF Charges, Goes
<1>5. ASSUME \A l \in Legs : Posted(l) => Posted(l)', LedgerOK(r)', LegsOK(w)',
             booking = "paid" => Posted("credit")'
      PROVE  LegsInv'
  <2>1. Moves
    BY DEF Moves, Moved
  <2>2. \A v \in Workers \ {w} : LegsOK(v)'
    BY <1>5, <2>1, OtherLegs DEF Others, LegsInv
  <2> QED BY <1>3, <1>5, <2>2 DEF LegsInv
<1>6. booking = "paid" => Posted("credit")
  BY DEF LegsInv
<1>7. CASE task[w].pc = "wallet"
  <2>1. task'[w].pc = "cash" /\ PostsLeg("wallet", rows[r].wallet, rows[r].wallet # 0)
    BY <1>r, <1>1, <1>7 DEF Charges, Goes
  <2>2. /\ \A l \in Legs \ {"wallet"} : ledger'[l] = ledger[l]
        /\ \A l \in Legs : Posted(l) => ledger'[l] = ledger[l] /\ Posted(l)'
        /\ rows[r].wallet # 0 => Posted("wallet")'
        /\ \/ ledger'["wallet"] = ledger["wallet"]
           \/ ledger'["wallet"] = rows[r].wallet
    BY <1>0, <2>1, LegPosted
  <2>3. (Posted("cash")' <=> Posted("cash")) /\ (Posted("credit")' <=> Posted("credit"))
    BY <2>2 DEF Posted
  <2>4. rows[r].wallet > 0 => Posted("wallet")'
    BY <2>2, <1>0
  <2>5. Posted("wallet")' => ledger'.wallet = rows[r].wallet
    BY <1>2, <2>2 DEF LedgerOK, Posted
  <2>6. LedgerOK(r)'
    BY <1>2, <1>3, <2>3, <2>4, <2>5 DEF LedgerOK
  <2>7. LegsOK(w)'
    BY <1>3, <1>4, <2>1, <2>4 DEF LegsOK
  <2> QED BY <1>5, <1>6, <2>2, <2>3, <2>6, <2>7
<1>8. CASE task[w].pc = "cash"
  <2>1. task'[w].pc = "credit" /\ PostsLeg("cash", task[w].total, IsCash(r))
    BY <1>r, <1>8 DEF Charges, Goes
  <2>2. /\ \A l \in Legs \ {"cash"} : ledger'[l] = ledger[l]
        /\ \A l \in Legs : Posted(l) => ledger'[l] = ledger[l] /\ Posted(l)'
        /\ IsCash(r) => Posted("cash")'
        /\ \/ ledger'["cash"] = ledger["cash"]
           \/ IsCash(r)
    BY <1>0, <2>1, LegPosted
  <2>3. (Posted("wallet")' <=> Posted("wallet")) /\ (Posted("credit")' <=> Posted("credit"))
    BY <2>2 DEF Posted
  <2>4. /\ rows[r].provider = "cash" => Posted("cash")'
        /\ Posted("cash")' => rows[r].provider = "cash"
    BY <1>1, <1>2, <2>2 DEF LedgerOK, Posted
  <2>5. ledger'.wallet = ledger.wallet
    BY <2>2
  <2>6. LedgerOK(r)'
    BY <1>2, <1>3, <2>3, <2>4, <2>5 DEF LedgerOK
  <2>7. rows[r].wallet > 0 => Posted("wallet")
    BY <1>r, <1>0, <1>8 DEF LegsOK
  <2>8. LegsOK(w)'
    BY <1>3, <1>4, <2>1, <2>3, <2>4, <2>7 DEF LegsOK
  <2> QED BY <1>5, <1>6, <2>2, <2>3, <2>6, <2>8
<1>9. CASE task[w].pc = "credit"
  <2>1. task'[w].pc = "paid" /\ PostsLeg("credit", task[w].total, TRUE)
    BY <1>r, <1>9 DEF Charges, Goes
  <2>2. /\ \A l \in Legs \ {"credit"} : ledger'[l] = ledger[l]
        /\ \A l \in Legs : Posted(l) => ledger'[l] = ledger[l] /\ Posted(l)'
        /\ Posted("credit")'
    BY <1>0, <2>1, LegPosted
  <2>3. (Posted("wallet")' <=> Posted("wallet")) /\ (Posted("cash")' <=> Posted("cash"))
    BY <2>2 DEF Posted
  <2>4. ledger'.wallet = ledger.wallet
    BY <2>2
  <2>5. /\ rows[r].wallet > 0 => Posted("wallet")
        /\ rows[r].provider = "cash" => Posted("cash")
    BY <1>r, <1>0, <1>9 DEF LegsOK
  <2>6. LedgerOK(r)'
    BY <1>2, <1>3, <2>2, <2>3, <2>4, <2>5 DEF LedgerOK
  <2>7. LegsOK(w)'
    BY <1>3, <1>4, <2>1, <2>2, <2>3, <2>5 DEF LegsOK
  <2> QED BY <1>5, <1>6, <2>2, <2>6, <2>7
<1> QED BY <1>7, <1>8, <1>9 DEF Charges

LEMMA WorksLegs ==
    ASSUME BaseInv, MadeInv, LegsInv, NEW w \in Workers, ~Idle(w), Others(w), Works(w)
    PROVE  LegsInv'
<1>0. booking = "paid" => Posted("credit")
  BY DEF LegsInv
<1>1. UNCHANGED rows => Moves
  BY SameQuiet
<1>2. CASE Gives(w) \/ Reads(w) \/ FindsNone(w)
  BY <1>0, <1>1, <1>2, MovedLegs DEF Gives, Ends, Reads, FindsNone, Goes, Rest, Posting
<1>3. CASE Pays(w)
  <2>1. Posted("credit")
    BY <1>3 DEF LegsInv, LegsOK, Pays
  <2> QED BY <1>1, <1>3, <2>1, MovedLegs DEF Pays, Ends, Posting
<1>4. ASSUME NEW r \in DOMAIN rows, FindsOpen(w, r) PROVE LegsInv'
  BY <1>0, <1>1, <1>4, MovedLegs DEF FindsOpen, Goes, Rest, Posting
<1>5. ASSUME NEW r \in DOMAIN rows, FindsCaptured(w, r) PROVE LegsInv'
  <2>1. IsCaptured(task[w].row)' /\ task'[w].pc = "wallet"
    BY <1>5 DEF FindsCaptured, Goes, IsCaptured
  <2> QED BY <1>0, <1>1, <1>5, <2>1, MovedLegs DEF FindsCaptured, Rest
<1>6. ASSUME NEW r \in DOMAIN rows, CapturesRow(w, r) PROVE LegsInv'
  <2>1. task[w].of \in 0 .. MaxRows
    BY RowNumbers DEF BaseInv, TaskOK
  <2>2. Moves /\ rows'[r].status = "captured" /\ r \in DOMAIN rows'
    BY <1>6, <2>1, CapturesMoves DEF CapturesRow
  <2>3. \/ task'[w].pc \notin Posting
        \/ task'[w].pc = "wallet" /\ IsCaptured(task[w].row)'
    BY <1>6, <2>2 DEF CapturesRow, Ends, Goes, IsCaptured, Posting
  <2> QED BY <1>0, <1>6, <2>2, <2>3, MovedLegs DEF CapturesRow, Rest
<1>7. CASE MakesRow(w)
  <2>1. Adds(NewRow("gateway", total, 0, task[w].of)) /\ TypeOK
    BY <1>7 DEF MakesRow, BaseInv
  <2>2. Moves
    BY <2>1, RowTyped, StaysKept DEF Adds, Moves, Moved, Kept
  <2> QED BY <1>0, <1>7, <2>2, MovedLegs DEF MakesRow, Goes, Rest, Posting
<1>8. CASE Charges(w) /\ UNCHANGED <<booking, total, rows, orders, paidOn, intent, closing>>
  BY <1>8, ChargesLegs
<1> QED BY <1>2, <1>3, <1>4, <1>5, <1>6, <1>7, <1>8 DEF Works

LEMMA LegsStep == BaseInv /\ MadeInv /\ LegsInv /\ [Next]_vars => LegsInv'
<1> SUFFICES ASSUME BaseInv, MadeInv, LegsInv, [Next]_vars PROVE LegsInv'
  OBVIOUS
<1>0. /\ booking = "paid" => Posted("credit")
      /\ UNCHANGED rows => Moves
      /\ UNCHANGED ledger => \A leg \in {"wallet", "cash", "credit"} : Posted(leg)' <=> Posted(leg)
  BY SameQuiet DEF LegsInv, Posted
<1>1. ASSUME Moves, UNCHANGED <<ledger, task>>, booking' = "paid" => booking = "paid"
      PROVE  LegsInv'
  <2>1. \A w \in Workers : LegsOK(w)'
    BY <1>0, <1>1, OtherLegs DEF LegsInv
  <2> QED BY <1>0, <1>1, <2>1, SameLedger
<1>2. CASE Quiet \/ LockExpires
  BY <1>0, <1>1, <1>2 DEF Quiet, LockExpires
<1>3. ASSUME NEW w \in Workers, Starts(w) PROVE LegsInv'
  <2>1. PICK h \in DOMAIN rows : Begin(w, h) /\ UNCHANGED <<booking, total, rows, ledger, paidOn>>
    BY <1>3 DEF Starts
  <2>2. h \in RowIds /\ TypeOK
    BY RowNumbers DEF BaseInv, RowIds
  <2>3. Others(w) /\ (task'[w] = task[w] \/ task'[w].pc \notin Posting)
    BY <2>1, <2>2, BeginTask DEF Others, Posting
  <2> QED BY <1>0, <2>1, <2>3, MovedLegs
<1>4. ASSUME NEW w \in Workers, Die(w) PROVE LegsInv'
  <2>1. task \in [Workers -> TaskRec] /\ NoTask.pc = "idle"
    BY DEF BaseInv, TypeOK, TaskRec, NoTask
  <2>2. Others(w) /\ task'[w].pc \notin Posting /\ UNCHANGED <<rows, ledger, booking>>
    BY <1>4, <2>1 DEF Die, Others, Posting
  <2> QED BY <1>0, <2>2, MovedLegs
<1> QED BY <1>2, <1>3, <1>4, Steps, WorksLegs

LEMMA LegsInit == Init => LegsInv
<1> SUFFICES ASSUME Init PROVE LegsInv
  OBVIOUS
<1>1. NoTask.pc = "idle" /\ \A leg \in {"wallet", "cash", "credit"} : ~Posted(leg)
  BY DEF Init, NoTask, Posted
<1>2. \A w \in Workers : task[w].pc = "idle"
  BY <1>1 DEF Init
<1> QED BY <1>1, <1>2 DEF Init, LegsInv, LegsOK, Posting

LEMMA LegsCorrect ==
    ASSUME BaseInv, LegsInv PROVE LegsComeFromTheCapturedRow
<1>1. rows \in Seq(Row) /\ DOMAIN ledger = {"wallet", "cash", "credit"}
  BY DEF BaseInv, TypeOK
<1>2. ASSUME \E leg \in DOMAIN ledger : Posted(leg) PROVE capturedFor # 0 /\ LedgerOK(capturedFor)
  <2>1. PICK r \in DOMAIN rows : LedgerOK(r)
    BY <1>1, <1>2 DEF LegsInv
  <2>2. capturedFor # 0 /\ IsCaptured(capturedFor)
    BY <1>1, <2>1, CapturedFacts DEF LedgerOK, IsCaptured
  <2> QED BY <2>2, LedgerHere
<1>3. booking = "paid" => Posted("credit")
  BY DEF LegsInv
<1>4. \A leg \in {"wallet", "cash", "credit"} : Posted(leg) => LedgerOK(capturedFor)
  BY <1>1, <1>2
<1> QED BY <1>1, <1>2, <1>3, <1>4 DEF LegsComeFromTheCapturedRow, LedgerOK, Captured

\* Every leg posted for the booking comes from its one captured row, and a
\* paid booking has all the legs that row asks for, for any number of
\* settlements and any process deaths between their statements: as long as
\* either the capture lock keeps settlements apart, or no cash row is closed
\* while its confirmation settles.
THEOREM LegsMatchTheRow ==
    ASSUME Serial \/ Steady PROVE Spec => []LegsComeFromTheCapturedRow
<1>1. Init => BaseInv /\ MadeInv /\ LegsInv
  BY BaseInit, MadeInit, LegsInit
<1>2. BaseInv /\ MadeInv /\ LegsInv /\ [Next]_vars => (BaseInv /\ MadeInv /\ LegsInv)'
  BY BaseStep, MadeStep, LegsStep
<1>3. BaseInv /\ MadeInv /\ LegsInv => LegsComeFromTheCapturedRow
  BY LegsCorrect
<1> QED BY <1>1, <1>2, <1>3, PTL DEF Spec

-----------------------------------------------------------------------------
(* One total for the bill, the credit and the booking                      *)

TotalOK(w) == task[w].pc \notin {"idle", "inputs"} => task[w].total = total

TotalInv ==
    /\ \A w \in Workers : TotalOK(w)
    /\ Posted("credit") => ledger.credit = total
    /\ booking = "paid" => paidOn = total

\* The total moves only while nobody settles and nothing is captured.
LEMMA QuietTotal ==
    ASSUME BaseInv, LegsInv, TotalInv, Quiet, "coupon" \notin Faults PROVE TotalInv'
<1>1. UNCHANGED <<ledger, paidOn, task>> /\ (booking' = "paid" => booking = "paid")
  BY DEF Quiet
<1>2. CASE total' = total
  BY <1>1, <1>2 DEF TotalInv, TotalOK, Posted
<1>3. CASE (\A r \in DOMAIN rows : rows[r].status # "captured") /\ \A w \in Workers : Idle(w)
  <2>1. ~Posted("credit")
    BY <1>3 DEF LegsInv, LedgerOK, IsCaptured
  <2>2. booking # "paid"
    BY <2>1 DEF LegsInv
  <2> QED BY <1>1, <1>3, <2>1, <2>2 DEF TotalInv, TotalOK, Idle, Posted
<1> QED BY <1>2, <1>3 DEF Quiet

LEMMA WorksTotal ==
    ASSUME BaseInv, LegsInv, TotalInv, NEW w \in Workers, Others(w), ~Idle(w), Works(w)
    PROVE  TotalInv'
<1>0. total' = total
  BY DEF Works, Gives, Reads, FindsNone, FindsOpen, FindsCaptured, CapturesRow, MakesRow,
         Pays, Rest
<1>1. TotalOK(w)'
  <2>1. CASE Ends(w)
    BY <2>1 DEF Ends, TotalOK
  <2>2. CASE Reads(w)
    BY <1>0, <2>2 DEF Reads, TotalOK
  <2>3. ASSUME NEW pc, NEW r, Goes(w, pc, r), task[w].pc # "inputs" PROVE TotalOK(w)'
    BY <1>0, <2>3 DEF Goes, TotalOK, TotalInv, Idle
  <2>4. ASSUME NEW r \in DOMAIN rows, FindsOpen(w, r) \/ FindsCaptured(w, r) \/ CapturesRow(w, r)
        PROVE  TotalOK(w)'
    BY <2>1, <2>3, <2>4 DEF FindsOpen, FindsCaptured, CapturesRow
  <2>5. CASE Gives(w) \/ FindsNone(w) \/ MakesRow(w) \/ Pays(w)
    BY <2>1, <2>3, <2>5 DEF Gives, FindsNone, MakesRow, Pays
  <2>6. CASE Charges(w)
    BY <2>3, <2>6 DEF Charges
  <2> QED BY <2>2, <2>4, <2>5, <2>6 DEF Works
<1>2. \A v \in Workers : TotalOK(v)'
  BY <1>0, <1>1 DEF TotalOK, TotalInv, Others
<1>3. CASE Charges(w) /\ UNCHANGED <<booking, total, rows, orders, paidOn, intent, closing>>
  <2>1. TypeOK /\ task[w].total \in 0 .. Fare
    BY DEF BaseInv, TypeOK
  <2>2. CASE task[w].pc = "credit"
    <3>1. PostsLeg("credit", task[w].total, TRUE) /\ task[w].total = total
      BY <1>3, <2>2 DEF Charges, TotalInv, TotalOK
    <3>2. /\ Posted("credit") => ledger'["credit"] = ledger["credit"]
          /\ ledger'["credit"] = ledger["credit"] \/ ledger'["credit"] = total
      BY <2>1, <3>1, LegPosted
    <3>3. Posted("credit")' => ledger'.credit = total
      BY <3>2 DEF Posted, TotalInv
    <3> QED BY <1>2, <1>3, <3>3 DEF TotalInv
  <2>3. CASE task[w].pc = "wallet"
    <3>1. LegsOK(w) /\ task[w].row \in DOMAIN rows /\ task[w].row # 0
      BY <2>1, <2>3, RowTyped DEF LegsInv, LegsOK, IsCaptured, Posting
    <3>2. WalletApplied(task[w].row) \in 0 .. Fare
      BY <2>1, <3>1, RowTyped DEF WalletApplied, Row
    <3>3. ledger'["credit"] = ledger["credit"]
      BY <1>3, <2>1, <2>3, <3>2, LegPosted DEF Charges
    <3> QED BY <1>2, <1>3, <3>3 DEF TotalInv, Posted
  <2>4. CASE task[w].pc = "cash"
    <3>1. ledger'["credit"] = ledger["credit"]
      BY <1>3, <2>1, <2>4, LegPosted DEF Charges
    <3> QED BY <1>2, <1>3, <3>1 DEF TotalInv, Posted
  <2> QED BY <1>3, <2>2, <2>3, <2>4 DEF Charges
<1>4. CASE Pays(w)
  <2>1. task[w].total = total /\ ledger' = ledger
    BY <1>4 DEF Pays, TotalInv, TotalOK
  <2> QED BY <1>0, <1>2, <1>4, <2>1 DEF Pays, TotalInv, Posted
<1>5. CASE Rest
  BY <1>2, <1>5 DEF Rest, TotalInv, Posted
<1> QED BY <1>3, <1>4, <1>5 DEF Works, Gives, Reads, FindsNone, FindsOpen, FindsCaptured,
                                CapturesRow, MakesRow

LEMMA TotalStep ==
    ASSUME Serial \/ Steady, "coupon" \notin Faults
    PROVE  BaseInv /\ MadeInv /\ LegsInv /\ TotalInv /\ [Next]_vars => TotalInv'
<1> SUFFICES ASSUME BaseInv, MadeInv, LegsInv, TotalInv, [Next]_vars PROVE TotalInv'
  OBVIOUS
<1>1. CASE LockExpires
  BY <1>1 DEF LockExpires, TotalInv, TotalOK, Posted
<1>2. ASSUME NEW w \in Workers, Starts(w) PROVE TotalInv'
  <2>1. PICK h \in DOMAIN rows : Begin(w, h) /\ UNCHANGED <<booking, total, rows, ledger, paidOn>>
    BY <1>2 DEF Starts
  <2>2. h \in RowIds /\ TypeOK
    BY RowNumbers DEF BaseInv, RowIds
  <2>3. Others(w) /\ (task'[w] = task[w] \/ task'[w].pc = "inputs")
    BY <2>1, <2>2, BeginTask DEF Others
  <2>4. \A v \in Workers : TotalOK(v)'
    BY <2>1, <2>3 DEF TotalInv, TotalOK, Others
  <2> QED BY <2>1, <2>4 DEF TotalInv, Posted
<1>3. ASSUME NEW w \in Workers, Die(w) PROVE TotalInv'
  <2>1. \A v \in Workers : TotalOK(v)'
    BY <1>3, DiesMade DEF TotalInv, TotalOK, Others
  <2> QED BY <1>3, <2>1 DEF Die, TotalInv, Posted
<1> QED BY <1>1, <1>2, <1>3, Steps, QuietTotal, WorksTotal

LEMMA TotalInit == Init => TotalInv
<1> SUFFICES ASSUME Init PROVE TotalInv
  OBVIOUS
<1>1. NoTask.pc = "idle" /\ ~Posted("credit")
  BY DEF Init, NoTask, Posted
<1> QED BY <1>1 DEF Init, TotalInv, TotalOK

\* The total the booking was paid on, the total its credit was computed from
\* and the total the customer sees are one, though three statements of
\* perhaps three settlements write them from values read earlier: as long as
\* no coupon changes while a payment opens or settles.
THEOREM TotalsAgree ==
    ASSUME Serial \/ Steady, "coupon" \notin Faults PROVE Spec => []NoSettlementDrift
<1> DEFINE Inv == BaseInv /\ MadeInv /\ LegsInv /\ TotalInv
<1>1. Init => Inv
  BY BaseInit, MadeInit, LegsInit, TotalInit
<1>2. Inv /\ [Next]_vars => Inv'
  BY BaseStep, MadeStep, LegsStep, TotalStep
<1>3. Inv => NoSettlementDrift
  BY DEF LegsInv, TotalInv, NoSettlementDrift
<1> QED BY <1>1, <1>2, <1>3, PTL DEF Spec

-----------------------------------------------------------------------------
(* What was credited was collected                                         *)

NonCash(r) == rows[r].provider # "cash"

\* The wallet never holds more than the smallest bill.
Small == MaxWallet <= Fare - Discount

\* The row's order, or its wallet part, covers the bill.
Covered(r) == \/ rows[r].wallet >= total
              \/ orders[r].state = "captured" /\ orders[r].amount + rows[r].wallet >= total

LatestOpen(r) == \A s \in DOMAIN rows : s > r => rows[s].status # "pending"

\* A row some createIntent inserted and died on, before its order.
Leftover(r) == /\ NonCash(r) /\ ~rows[r].order
               /\ ~(intent.pc = "order" /\ intent.row = r)

\* An open wallet row pays the bill, unless a coupon was just removed and its
\* request has yet to close the row.
WalletCovers(r) ==
    rows[r].status = "pending" /\ rows[r].provider = "wallet" =>
        (closing /\ total = Fare) \/ rows[r].wallet >= total

\* A captured row is captured under its own reference, for enough; of the open
\* rows only the latest may be anything but cash; a leftover row asks for no
\* less of the wallet than a request that reuses it.
RowCovers(r) ==
    /\ rows[r].status = "captured" => rows[r].ref = r /\ (NonCash(r) => Covered(r))
    /\ rows[r].status = "pending" /\ NonCash(r) => LatestOpen(r)
    /\ WalletCovers(r)
    /\ Leftover(r) => /\ "intent" \in Faults /\ rows[r].wallet >= balance
                      /\ intent.pc = "insert" => rows[r].wallet >= intent.wallet

OrderCovers(r) == orders[r].state # "none" => orders[r].amount + rows[r].wallet >= total

IntentCovers ==
    /\ intent.pc # "idle" => /\ intent.amount + intent.wallet = total
                             /\ Small => intent.wallet >= balance
    /\ intent.pc = "order" => rows[intent.row].wallet >= intent.wallet
    /\ intent.pc = "insert" => \A r \in DOMAIN rows : NonCash(r) => rows[r].status # "pending"

\* A settlement works on the row it reports, which covers the bill; a cash
\* confirmation's row is the latest open one.
TaskCovers(w) ==
    ~Idle(w) =>
        /\ task[w].pc \notin {"inputs", "lookup"} => task[w].row = task[w].of
        /\ NonCash(task[w].of) => Covered(task[w].of)
        /\ ~NonCash(task[w].of) =>
               /\ intent.pc = "idle"
               /\ rows[task[w].of].status = "pending" => LatestOpen(task[w].of)

MoneyInv ==
    /\ IntentCovers
    /\ \A r \in DOMAIN rows : RowCovers(r)
    /\ \A r \in RowIds : OrderCovers(r)
    /\ \A w \in Workers : TaskCovers(w)

\* No switch, cancelled dispute or coupon at a bad moment, and either no
\* createIntent dies or the wallet cannot cover more than the smallest bill.
Careful == /\ Steady /\ "coupon" \notin Faults /\ "remove" \notin Faults
           /\ "intent" \notin Faults \/ Small

\* An order stays, or its open sheet is paid.
OrdersGrow ==
    \A r \in RowIds : /\ orders'[r].amount = orders[r].amount
                      /\ orders'[r].state = "none" <=> orders[r].state = "none"
                      /\ orders[r].state = "captured" => orders'[r].state = "captured"

LEMMA MoneyTypes ==
    ASSUME TypeOK
    PROVE  /\ total \in Nat /\ balance \in Int /\ intent.amount \in Nat /\ intent.wallet \in Nat
           /\ \A r \in DOMAIN rows : r \in RowIds /\ rows[r] \in Row /\ rows[r].wallet \in Nat
           /\ \A r \in RowIds : orders[r].amount \in Nat
           /\ intent \in IntentRec
<1>1. \A r \in DOMAIN rows : r \in RowIds /\ rows[r] \in Row
  BY RowTyped, RowNumbers DEF RowIds
<1>2. \A r \in DOMAIN rows : rows[r].wallet \in Nat
  BY <1>1 DEF Row
<1>3. total \in Nat /\ balance \in Int
  BY DEF TypeOK
<1>4. intent.amount \in Nat /\ intent.wallet \in Nat /\ intent \in IntentRec
  BY DEF TypeOK, IntentRec
<1>5. \A r \in RowIds : orders[r].amount \in Nat
  BY DEF TypeOK
<1> QED BY <1>1, <1>2, <1>3, <1>4, <1>5

\* What stays of the rows while some are closed.
Closes == /\ DOMAIN rows' = DOMAIN rows
          /\ \A q \in DOMAIN rows :
                /\ rows'[q].provider = rows[q].provider /\ rows'[q].wallet = rows[q].wallet
                /\ rows'[q].order = rows[q].order /\ rows'[q].ref = rows[q].ref
                /\ rows'[q].status = "pending" => rows[q].status = "pending"
                /\ rows'[q].status = "captured" <=> rows[q].status = "captured"

LEMMA FailsCloses == ASSUME TypeOK, Fails PROVE Closes
<1>1. \A q \in DOMAIN rows : rows[q] \in Row
  BY RowTyped
<1> QED BY <1>1, StaysKept DEF Closes, Fails, Kept

\* While no order is opened, no total moves and no wallet is filled, what
\* covered the bill still does.
LEMMA CalmMoney ==
    ASSUME BaseInv, MoneyInv, Closes, OrdersGrow, UNCHANGED <<total, intent>>,
           UNCHANGED closing \/ \A r \in DOMAIN rows' : WalletCovers(r)',
           balance' \in Int, balance' <= balance
    PROVE  /\ IntentCovers'
           /\ \A r \in DOMAIN rows' : RowCovers(r)'
           /\ \A r \in RowIds : OrderCovers(r)'
           /\ \A w \in Workers : task'[w] = task[w] => TaskCovers(w)'
           /\ \A r \in DOMAIN rows : Covered(r) => Covered(r)'
           /\ \A r \in DOMAIN rows : LatestOpen(r) => LatestOpen(r)'
<1>0. /\ total \in Nat /\ balance \in Int /\ intent.amount \in Nat /\ intent.wallet \in Nat
      /\ \A r \in DOMAIN rows : r \in RowIds /\ rows[r] \in Row /\ rows[r].wallet \in Nat
      /\ \A r \in RowIds : orders[r].amount \in Nat
  BY MoneyTypes DEF BaseInv
<1>1. \A r \in DOMAIN rows : Covered(r) => Covered(r)'
  BY <1>0 DEF Covered, Closes, OrdersGrow
<1>2. \A r \in DOMAIN rows : /\ LatestOpen(r) => LatestOpen(r)'
                             /\ NonCash(r)' <=> NonCash(r)
                             /\ Leftover(r)' <=> Leftover(r)
  BY DEF LatestOpen, NonCash, Leftover, Closes
<1>3. IntentCovers'
  <2>1. intent.pc # "idle" => /\ intent.amount + intent.wallet = total
                              /\ Small => intent.wallet >= balance'
    BY <1>0 DEF MoneyInv, IntentCovers
  <2>2. intent.pc = "order" => rows'[intent.row].wallet >= intent.wallet
    BY DEF MoneyInv, IntentCovers, BaseInv, HandlersOK, Closes
  <2>3. intent.pc = "insert" => \A r \in DOMAIN rows' : NonCash(r)' => rows'[r].status # "pending"
    BY <1>2 DEF MoneyInv, IntentCovers, Closes
  <2> QED BY <2>1, <2>2, <2>3 DEF IntentCovers, Small, NonCash
<1>4. ASSUME NEW r \in DOMAIN rows PROVE RowCovers(r)'
  <2>1. RowCovers(r)
    BY DEF MoneyInv
  <2>2. rows'[r].status = "captured" => rows'[r].ref = r /\ (NonCash(r)' => Covered(r)')
    BY <1>1, <1>2, <2>1 DEF RowCovers, Closes
  <2>3. rows'[r].status = "pending" /\ NonCash(r)' => LatestOpen(r)'
    BY <1>2, <2>1 DEF RowCovers, Closes
  <2>4. WalletCovers(r)'
    BY <2>1 DEF RowCovers, WalletCovers, Closes
  <2>5. Leftover(r) => rows[r].wallet >= balance
    BY <2>1 DEF RowCovers
  <2>6. Leftover(r) => rows[r].wallet >= balance'
    BY <1>0, <2>5
  <2>7. Leftover(r)' => /\ "intent" \in Faults /\ rows'[r].wallet >= balance'
                        /\ intent'.pc = "insert" => rows'[r].wallet >= intent'.wallet
    BY <1>2, <2>1, <2>6 DEF RowCovers, Closes
  <2> QED BY <2>2, <2>3, <2>4, <2>7 DEF RowCovers
<1>5. \A r \in RowIds : OrderCovers(r)'
  <2>1. \A r \in RowIds : orders[r].state # "none" => r \in DOMAIN rows
    BY DEF BaseInv, OrdersOK
  <2> QED BY <2>1 DEF MoneyInv, OrderCovers, OrdersGrow, Closes
<1>6. ASSUME NEW w \in Workers, task'[w] = task[w] PROVE TaskCovers(w)'
  <2>1. CASE Idle(w)
    BY <1>6, <2>1 DEF TaskCovers, Idle
  <2>2. CASE ~Idle(w)
    <3>1. task[w].of \in DOMAIN rows /\ TaskCovers(w)
      BY <2>2 DEF BaseInv, TaskOK, MoneyInv
    <3>2. NonCash(task[w].of)' <=> NonCash(task[w].of)
      BY <1>6, <3>1 DEF NonCash, Closes
    <3>3. NonCash(task[w].of) => Covered(task[w].of)'
      BY <1>1, <1>6, <2>2, <3>1 DEF TaskCovers, Covered
    <3>4. ~NonCash(task[w].of) =>
              /\ intent'.pc = "idle"
              /\ rows'[task[w].of].status = "pending" => LatestOpen(task[w].of)'
      BY <1>2, <1>6, <2>2, <3>1 DEF TaskCovers, Closes, LatestOpen
    <3>5. task'[w].pc \notin {"inputs", "lookup"} => task'[w].row = task'[w].of
      BY <1>6, <2>2, <3>1 DEF TaskCovers
    <3> QED BY <1>6, <3>2, <3>3, <3>4, <3>5 DEF TaskCovers
  <2> QED BY <2>1, <2>2
<1> QED BY <1>1, <1>2, <1>3, <1>4, <1>5, <1>6 DEF Closes

\* ensureCapturedRow finds the row the settlement reports.
LEMMA FindsItsOwn ==
    ASSUME BaseInv, MadeInv, MoneyInv, Steady, NEW w \in Workers, ~Idle(w)
    PROVE  Existing(task[w].of) = task[w].of
<1> DEFINE h == task[w].of
<1>0. /\ TypeOK /\ RowsOK /\ TaskOK(w) /\ MadeOK(w) /\ TaskCovers(w) /\ rows \in Seq(Row)
      /\ h \in DOMAIN rows /\ h # 0 /\ rows[h] \in Row
  BY RowTyped, SMTT(40) DEF BaseInv, MadeInv, MoneyInv, TypeOK, TaskOK
<1>1. CASE byGatewayRef(h) # 0
  <2>1. byGatewayRef(h) \in DOMAIN rows /\ rows[byGatewayRef(h)].ref = h
    BY <1>0, <1>1, RefFacts
  <2>2. rows[byGatewayRef(h)].status = "captured"
    BY <1>0, <2>1 DEF RowsOK
  <2>3. byGatewayRef(h) = h
    BY <2>1, <2>2 DEF MoneyInv, RowCovers
  <2> QED BY <1>0, <1>1, <2>3, ExistingFacts
<1>2. CASE byGatewayRef(h) = 0 /\ NonCash(h)
  <2>1. byOrderRef(h) = h
    BY <1>0, <1>2 DEF TaskOK, NonCash, byOrderRef
  <2> QED BY <1>0, <1>2, <2>1, ExistingFacts
<1>3. CASE byGatewayRef(h) = 0 /\ ~NonCash(h)
  <2>1. byOrderRef(h) = 0
    BY <1>3 DEF NonCash, byOrderRef
  <2>2. rows[h].status # "captured"
    <3>1. rows[h].ref # h
      BY <1>0, <1>3, RefFacts
    <3> QED BY <1>0, <3>1 DEF MoneyInv, RowCovers
  <2>3. rows[h].status = "pending"
    BY <1>0, <1>3, <2>2 DEF MadeOK, NonCash, Row
  <2>4. LatestOpen(h)
    BY <1>0, <1>3, <2>3 DEF TaskCovers
  <2>5. openIntent = h
    <3>1. openIntent \in DOMAIN rows /\ rows[openIntent].status = "pending" /\ h <= openIntent
      BY <1>0, <2>3, OpenFacts DEF Open
    <3>2. openIntent \in Int /\ h \in Int /\ ~(openIntent > h)
      BY <1>0, <2>4, <3>1, RowNumbers DEF LatestOpen
    <3> QED BY <3>1, <3>2
  <2> QED BY <1>0, <1>3, <2>1, <2>5, ExistingFacts
<1> QED BY <1>1, <1>2, <1>3

LEMMA OrdersSame ==
    ASSUME UNCHANGED orders PROVE OrdersGrow
BY DEF OrdersGrow

LEMMA WorksMoney ==
    ASSUME BaseInv, MadeInv, MoneyInv, Steady, NEW w \in Workers, ~Idle(w), Others(w), Works(w),
           TypeOK'
    PROVE  MoneyInv'
<1> DEFINE h == task[w].of
<1>0. /\ TypeOK /\ TaskOK(w) /\ MadeOK(w) /\ TaskCovers(w) /\ h \in DOMAIN rows
      /\ task[w].pc \notin {"insert", "claim"} /\ Existing(h) = h /\ h # 0
  BY FindsItsOwn, RowNumbers DEF BaseInv, MadeInv, MoneyInv, TaskOK, MadeOK
<1>1. balance \in Int /\ balance' \in Int
  BY <1>0 DEF TypeOK
<1>2. ASSUME Closes, UNCHANGED <<orders, total, intent, closing>>, balance' <= balance,
             \/ task'[w].pc = "idle"
             \/ /\ task'[w].of = h
                /\ task'[w].pc \notin {"inputs", "lookup"} => task'[w].row = h
      PROVE  MoneyInv'
  <2>1. /\ IntentCovers'
        /\ \A r \in DOMAIN rows' : RowCovers(r)'
        /\ \A r \in RowIds : OrderCovers(r)'
        /\ \A v \in Workers : task'[v] = task[v] => TaskCovers(v)'
        /\ \A r \in DOMAIN rows : Covered(r) => Covered(r)'
        /\ \A r \in DOMAIN rows : LatestOpen(r) => LatestOpen(r)'
    BY <1>1, <1>2, OrdersSame, CalmMoney
  <2>2. CASE task'[w].pc = "idle"
    BY <2>1, <2>2 DEF MoneyInv, Others, TaskCovers, Idle
  <2>3. CASE /\ task'[w].of = h
             /\ task'[w].pc \notin {"inputs", "lookup"} => task'[w].row = h
    <3>1. rows'[h].provider = rows[h].provider
      BY <1>0, <1>2 DEF Closes
    <3>2. NonCash(h) => Covered(task[w].of)'
      BY <1>0, <2>1, <2>3 DEF TaskCovers, Covered
    <3>3. ~NonCash(h) =>
              /\ intent'.pc = "idle"
              /\ rows'[h].status = "pending" => LatestOpen(task[w].of)'
      BY <1>0, <1>2, <2>1, <2>3 DEF TaskCovers, Closes, LatestOpen
    <3>4. TaskCovers(w)'
      BY <2>3, <3>1, <3>2, <3>3 DEF TaskCovers, NonCash
    <3> QED BY <2>1, <3>4 DEF MoneyInv, Others
  <2> QED BY <1>2, <2>2, <2>3
<1>3. UNCHANGED rows => Closes
  BY <1>0, FailNone, FailsCloses
<1>4. balance' = balance => balance' <= balance
  BY <1>1
<1>5. CASE Gives(w) \/ Pays(w)
  BY <1>2, <1>3, <1>4, <1>5 DEF Gives, Pays, Ends, Rest
<1>6. CASE Reads(w)
  BY <1>2, <1>3, <1>4, <1>6 DEF Reads, Rest
<1>7. CASE FindsNone(w) \/ MakesRow(w)
  BY <1>0, <1>7 DEF FindsNone, MakesRow
<1>8. ASSUME NEW r \in DOMAIN rows, FindsOpen(w, r) \/ FindsCaptured(w, r) PROVE MoneyInv'
  <2>1. r = h
    BY <1>0, <1>8 DEF FindsOpen, FindsCaptured, TaskCovers
  <2> QED BY <1>2, <1>3, <1>4, <1>8, <2>1 DEF FindsOpen, FindsCaptured, Goes, Rest
<1>9. CASE Charges(w) /\ UNCHANGED <<booking, total, rows, orders, paidOn, intent, closing>>
  <2>1. task[w].row = h /\ task'[w].row = h /\ task'[w].of = h /\ balance' <= balance
    BY <1>0, <1>4, <1>9 DEF Charges, Goes, TaskCovers
  <2> QED BY <1>2, <1>3, <1>9, <2>1
<1>10. ASSUME NEW r \in DOMAIN rows, CapturesRow(w, r) PROVE MoneyInv'
  <2>1. /\ r = h /\ Captures(r, h) /\ rows[r] \in Row
        /\ UNCHANGED <<orders, total, intent, closing, balance>>
    BY <1>0, <1>10, RowTyped DEF CapturesRow, TaskCovers, Rest
  <2>2. /\ DOMAIN rows' = DOMAIN rows
        /\ rows'[h].provider = rows[h].provider /\ rows'[h].wallet = rows[h].wallet
        /\ rows'[h].order = rows[h].order
        /\ rows'[h].status = "captured" /\ rows'[h].ref = h
    BY <2>1 DEF Captures, Row
  <2>3. \A q \in DOMAIN rows \ {h} : rows'[q] = rows[q]
    BY <2>1 DEF Captures
  <2>4. /\ \A q \in DOMAIN rows : /\ rows'[q].provider = rows[q].provider
                                  /\ rows'[q].wallet = rows[q].wallet
                                  /\ rows'[q].order = rows[q].order
                                  /\ rows'[q].status = "pending" => rows[q].status = "pending"
    BY <2>2, <2>3
  <2>5. \A q \in DOMAIN rows : /\ Covered(q) => Covered(q)'
                               /\ LatestOpen(q) => LatestOpen(q)'
                               /\ NonCash(q)' <=> NonCash(q)
                               /\ Leftover(q)' <=> Leftover(q)
    BY <2>1, <2>2, <2>4 DEF Covered, LatestOpen, NonCash, Leftover
  <2>6. IntentCovers'
    BY <2>1, <2>2, <2>4 DEF IntentCovers, MoneyInv, NonCash, BaseInv, HandlersOK, Small
  <2>7. ASSUME NEW q \in DOMAIN rows PROVE RowCovers(q)'
    <3>1. RowCovers(q)
      BY DEF MoneyInv
    <3>2. rows'[q].status = "captured" => rows'[q].ref = q /\ (NonCash(q)' => Covered(q)')
      BY <1>0, <2>2, <2>3, <2>5, <3>1 DEF RowCovers, TaskCovers
    <3>3. rows'[q].status = "pending" /\ NonCash(q)' => LatestOpen(q)'
      BY <2>4, <2>5, <3>1 DEF RowCovers
    <3>4. WalletCovers(q)'
      BY <2>1, <2>4, <3>1 DEF RowCovers, WalletCovers
    <3>5. Leftover(q)' => /\ "intent" \in Faults /\ rows'[q].wallet >= balance'
                          /\ intent'.pc = "insert" => rows'[q].wallet >= intent'.wallet
      BY <2>1, <2>4, <2>5, <3>1 DEF RowCovers
    <3> QED BY <3>2, <3>3, <3>4, <3>5 DEF RowCovers
  <2>8. \A q \in RowIds : OrderCovers(q)'
    BY <2>1, <2>4 DEF MoneyInv, OrderCovers, BaseInv, OrdersOK
  <2>9. ASSUME NEW v \in Workers PROVE TaskCovers(v)'
    <3>1. CASE task'[v].pc = "idle"
      BY <3>1 DEF TaskCovers, Idle
    <3>2. CASE task'[v].pc # "idle"
      <4>1. /\ task'[v].of = task[v].of /\ ~Idle(v)
            /\ task'[v].pc \notin {"inputs", "lookup"} => task'[v].row = task'[v].of
        BY <1>10, <2>1, <3>2 DEF CapturesRow, Ends, Goes, Others, MoneyInv, TaskCovers, Idle
      <4>2. task[v].of \in DOMAIN rows /\ TaskCovers(v)
        BY <4>1 DEF BaseInv, TaskOK, MoneyInv
      <4>3. NonCash(task[v].of) => Covered(task[v].of)'
        BY <2>5, <4>1, <4>2 DEF TaskCovers, Covered
      <4>4. ~NonCash(task[v].of) =>
                /\ intent'.pc = "idle"
                /\ rows'[task[v].of].status = "pending" => LatestOpen(task[v].of)'
        BY <2>1, <2>4, <2>5, <4>1, <4>2 DEF TaskCovers, LatestOpen
      <4>5. NonCash(task[v].of)' <=> NonCash(task[v].of)
        BY <2>4, <4>1, <4>2 DEF NonCash
      <4> QED BY <4>1, <4>3, <4>4, <4>5 DEF TaskCovers
    <3> QED BY <3>1, <3>2
  <2> QED BY <2>2, <2>6, <2>7, <2>8, <2>9 DEF MoneyInv
<1> QED BY <1>5, <1>6, <1>7, <1>8, <1>9, <1>10 DEF Works

\* A settlement starts for a row that covers the bill.
LEMMA StartsMoney ==
    ASSUME BaseInv, MoneyInv, NEW w \in Workers, NEW h \in DOMAIN rows, Begin(w, h),
           UNCHANGED <<rows, orders, total, intent, closing, balance>>,
           NonCash(h) => Covered(h),
           ~NonCash(h) => intent.pc = "idle" /\ LatestOpen(h)
    PROVE  MoneyInv'
<1>0. TypeOK /\ h \in RowIds /\ balance \in Int
  <2>1. TypeOK
    BY DEF BaseInv
  <2> QED BY <2>1, MoneyTypes
<1>1. Others(w) /\ (task'[w] = task[w] \/ (task'[w].pc = "inputs" /\ task'[w].of = h))
  BY <1>0, BeginTask DEF Others
<1>2. Closes /\ OrdersGrow /\ balance' <= balance
  BY <1>0, FailNone, FailsCloses, OrdersSame
<1>3. /\ IntentCovers'
      /\ \A r \in DOMAIN rows' : RowCovers(r)'
      /\ \A r \in RowIds : OrderCovers(r)'
      /\ \A v \in Workers : task'[v] = task[v] => TaskCovers(v)'
  BY <1>0, <1>2, CalmMoney
<1>4. CASE task'[w] = task[w]
  BY <1>1, <1>3, <1>4 DEF MoneyInv, Others
<1>5. CASE task'[w].pc = "inputs" /\ task'[w].of = h
  <2>1. TaskCovers(w)'
    BY <1>5 DEF TaskCovers, NonCash, Covered, LatestOpen
  <2> QED BY <1>1, <1>3, <2>1 DEF MoneyInv, Others
<1> QED BY <1>1, <1>4, <1>5

\* A step that closes rows, pays orders or spends the wallet at most.
LEMMA QuietMoney ==
    ASSUME BaseInv, MoneyInv, Closes, OrdersGrow, UNCHANGED <<total, intent, closing, task>>,
           balance' \in Int, balance' <= balance
    PROVE  MoneyInv'
BY CalmMoney DEF MoneyInv

LEMMA OutsideMoney ==
    ASSUME BaseInv, MoneyInv, Steady, "coupon" \notin Faults,
           \/ Gateway \/ SpendElsewhere \/ LockExpires
           \/ \E w \in Workers : payWithWallet(w) \/ confirmCashCollected(w) \/ Die(w)
           \/ \E w \in Workers, h \in RowIds :
                 capture(w, h) \/ applyPayment(w, h) \/ reconcile(w, h) \/ recheckBooking(w, h)
           \/ \E r \in RowIds : SweepFetchesPending(r)
           \/ SweepFailsStuck
           \/ DisputeOpens \/ DisputeCharges \/ DisputeCancels
    PROVE  MoneyInv'
<1>0. /\ TypeOK /\ OrdersOK /\ HandlersOK /\ rows \in Seq(Row) /\ balance \in Int
      /\ balance - 1 <= balance /\ balance <= balance
      /\ UNCHANGED rows => Closes
      /\ UNCHANGED orders => OrdersGrow
  <2>1. TypeOK /\ OrdersOK /\ HandlersOK /\ rows \in Seq(Row) /\ balance \in Int
    BY DEF BaseInv, TypeOK
  <2> QED BY <2>1, FailNone, FailsCloses, OrdersSame
<1>1. ASSUME NEW r \in RowIds, PayOrder(r) PROVE MoneyInv'
  <2>1. orders \in [RowIds -> [state : {"none", "open", "captured"}, amount : 0 .. Fare]]
    BY <1>0 DEF TypeOK
  <2>2. OrdersGrow
    BY <1>1, <2>1 DEF PayOrder, OrdersGrow
  <2> QED BY <1>0, <1>1, <2>2, QuietMoney DEF PayOrder
<1>2. ASSUME NEW r \in RowIds, AttemptFails(r) PROVE MoneyInv'
  <2>1. r \in DOMAIN rows /\ Open(r) /\ rows' = Failed(r)
    BY <1>0, <1>2 DEF OrdersOK, AttemptFails
  <2>2. Closes
    BY <1>0, <2>1, FailOne, FailsCloses
  <2> QED BY <1>0, <1>2, <2>2, QuietMoney DEF AttemptFails
<1>3. ASSUME NEW r \in RowIds, WebhookLost(r) PROVE MoneyInv'
  BY <1>0, <1>3, QuietMoney DEF WebhookLost
<1>4. CASE SpendElsewhere
  BY <1>0, <1>4, QuietMoney DEF SpendElsewhere
<1>5. CASE LockExpires \/ DisputeOpens \/ DisputeCharges
  BY <1>0, <1>5, QuietMoney DEF LockExpires, DisputeOpens, DisputeCharges
<1>6. ASSUME NEW w \in Workers, payWithWallet(w) PROVE MoneyInv'
  <2>1. openIntent \in DOMAIN rows /\ Open(openIntent) /\ rows[openIntent].provider = "wallet"
    BY <1>0, <1>6, OpenFacts DEF payWithWallet
  <2>2. CASE balance < rows[openIntent].wallet
    <3>1. Closes
      BY <1>0, <1>6, <2>1, <2>2, FailOne, FailsCloses DEF payWithWallet
    <3> QED BY <1>0, <1>6, <2>2, <3>1, QuietMoney DEF payWithWallet
  <2>3. CASE ~(balance < rows[openIntent].wallet)
    <3>1. ~closing
      BY <1>6 DEF payWithWallet
    <3>2. NonCash(openIntent) /\ Covered(openIntent)
      BY <2>1, <3>1 DEF NonCash, Covered, MoneyInv, RowCovers, WalletCovers, Open
    <3> QED BY <1>6, <2>1, <2>3, <3>2, StartsMoney DEF payWithWallet
  <2> QED BY <2>2, <2>3
<1>7. ASSUME NEW w \in Workers, confirmCashCollected(w) PROVE MoneyInv'
  <2>1. /\ openIntent \in DOMAIN rows /\ \A r \in DOMAIN rows : Open(r) => r <= openIntent
        /\ ~NonCash(openIntent)
    BY <1>0, <1>7, OpenFacts DEF confirmCashCollected, NonCash
  <2>2. intent.pc = "idle"
    BY <1>7 DEF confirmCashCollected, NoIntent, Steady
  <2>3. LatestOpen(openIntent)
    BY <1>0, <2>1, RowNumbers DEF LatestOpen, Open
  <2> QED BY <1>7, <2>1, <2>2, <2>3, StartsMoney DEF confirmCashCollected
<1>8. ASSUME NEW w \in Workers, NEW h \in RowIds,
             capture(w, h) \/ applyPayment(w, h) \/ reconcile(w, h) \/ recheckBooking(w, h)
      PROVE  MoneyInv'
  <2>1. orders[h].state = "captured"
    BY <1>0, <1>8 DEF OrdersOK, capture, applyPayment, reconcile, recheckBooking
  <2>2. h \in DOMAIN rows /\ NonCash(h)
    BY <1>0, <2>1 DEF OrdersOK, NonCash
  <2>3. Covered(h)
    BY <2>1 DEF Covered, MoneyInv, OrderCovers
  <2> QED BY <1>8, <2>2, <2>3, StartsMoney DEF capture, applyPayment, reconcile, recheckBooking
<1>9. ASSUME NEW r \in RowIds, SweepFetchesPending(r) PROVE MoneyInv'
  BY <1>0, <1>9, QuietMoney DEF SweepFetchesPending
<1>10. CASE SweepFailsStuck
  <2>1. stuck \in DOMAIN rows /\ (rows' = rows \/ (Open(stuck) /\ rows' = Failed(stuck)))
    BY <1>0, <1>10 DEF HandlersOK, SweepFailsStuck
  <2>2. Closes
    BY <1>0, <2>1, FailOne, FailsCloses
  <2> QED BY <1>0, <1>10, <2>2, QuietMoney DEF SweepFailsStuck
<1>11. CASE DisputeCancels
  <2>1. Closes
    BY <1>0, <1>11, FailOpen, FailsCloses DEF DisputeCancels
  <2> QED BY <1>0, <1>11, <2>1, QuietMoney DEF DisputeCancels
<1>12. ASSUME NEW w \in Workers, Die(w) PROVE MoneyInv'
  <2>1. task \in [Workers -> TaskRec] /\ NoTask.pc = "idle"
    BY <1>0 DEF TypeOK, TaskRec, NoTask
  <2>2. Others(w) /\ task'[w].pc = "idle" /\ UNCHANGED <<rows, orders, total, intent, closing, balance>>
    BY <1>12, <2>1 DEF Die, Others
  <2>3. TaskCovers(w)'
    BY <2>2 DEF TaskCovers, Idle
  <2>4. /\ IntentCovers'
        /\ \A r \in DOMAIN rows' : RowCovers(r)'
        /\ \A r \in RowIds : OrderCovers(r)'
        /\ \A v \in Workers : task'[v] = task[v] => TaskCovers(v)'
    BY <1>0, <2>2, CalmMoney
  <2> QED BY <2>2, <2>3, <2>4 DEF MoneyInv, Others
<1> QED BY <1>1, <1>2, <1>3, <1>4, <1>5, <1>6, <1>7, <1>8, <1>9, <1>10, <1>11, <1>12 DEF Gateway

\* The latest open row, if it is no cash row, is the only such one.
LEMMA OneOpen ==
    ASSUME BaseInv, MoneyInv, NEW r \in DOMAIN rows, Open(r), NonCash(r)
    PROVE  r = openIntent /\ openIntent # 0
<1>1. rows \in Seq(Row) /\ \A q \in DOMAIN rows : q \in Int
  BY RowNumbers DEF BaseInv, TypeOK
<1>2. /\ openIntent \in DOMAIN rows /\ openIntent # 0 /\ Open(openIntent)
      /\ r <= openIntent
  BY <1>1, OpenFacts
<1>3. ~(openIntent > r)
  BY <1>2 DEF MoneyInv, RowCovers, LatestOpen, Open
<1> QED BY <1>1, <1>2, <1>3

\* createIntent reads: it never reuses a row whose wallet part is smaller
\* than the one it computed.
LEMMA ReadMoney ==
    ASSUME BaseInv, MoneyInv, Careful, CreateIntentRead PROVE MoneyInv'
<1> DEFINE cash == openIntent # 0 /\ rows[openIntent].provider = "cash"
           kept == IF cash THEN 0 ELSE openIntent
<1>0. /\ TypeOK /\ rows \in Seq(Row)
      /\ total \in Nat /\ balance \in Int
      /\ \A r \in DOMAIN rows : r \in RowIds /\ rows[r] \in Row /\ rows[r].wallet \in Nat
  <2>1. TypeOK /\ rows \in Seq(Row)
    BY DEF BaseInv, TypeOK
  <2> QED BY <2>1, MoneyTypes
<1>1. /\ intent.pc = "idle" /\ (kept # 0 => ~rows[kept].order)
      /\ rows' = (IF cash THEN Failed(openIntent) ELSE rows)
      /\ intent' = [pc |-> IF kept = 0 THEN "insert" ELSE "order",
                    row |-> kept, amount |-> total - walletPart, wallet |-> walletPart]
      /\ UNCHANGED <<total, orders, balance, task, closing>>
  BY DEF CreateIntentRead
<1>2. Closes
  <2>1. Fails
    BY <1>0, <1>1, FailOne, FailNone, OpenFacts
  <2> QED BY <1>0, <2>1, FailsCloses
<1>3. \A w \in Workers : ~Idle(w) => NonCash(task[w].of)
  BY <1>0, FaultType DEF CreateIntentRead, Careful, Steady, Settling, Idle, NonCash
<1>4. /\ walletPart \in Nat /\ walletPart <= total
      /\ \A x \in Nat : x >= balance => x >= walletPart
      /\ balance <= total => walletPart >= balance
  BY <1>0, WalletPartFacts
<1>5. Small => walletPart >= balance
  <2>1. Small => balance <= total
    BY <1>0, SMTT(40) DEF Small, TypeOK
  <2> QED BY <1>4, <2>1
<1>6. /\ intent'.amount + intent'.wallet = total /\ intent'.wallet = walletPart
      /\ intent'.row = kept
      /\ intent'.pc = (IF kept = 0 THEN "insert" ELSE "order")
  BY <1>0, <1>1, <1>4
<1> HIDE DEF kept
<1>7. \A r \in DOMAIN rows : /\ Covered(r) => Covered(r)'
                             /\ LatestOpen(r) => LatestOpen(r)'
                             /\ NonCash(r)' <=> NonCash(r)
                             /\ Leftover(r)' => Leftover(r)
  BY <1>1, <1>2 DEF Covered, LatestOpen, NonCash, Leftover, Closes
<1>8. \A r \in DOMAIN rows : Leftover(r) => "intent" \in Faults /\ rows[r].wallet >= balance
                                            /\ rows[r].wallet >= walletPart
  BY <1>0, <1>4 DEF MoneyInv, RowCovers
<1>9. kept # 0 => kept \in DOMAIN rows /\ Leftover(kept)
  BY <1>0, <1>1, OpenFacts DEF kept, Leftover, NonCash
<1>10. IntentCovers'
  <2>1. intent'.pc = "order" => rows'[intent'.row].wallet >= intent'.wallet
    BY <1>2, <1>6, <1>8, <1>9 DEF Closes
  <2>2. ASSUME kept = 0, NEW r \in DOMAIN rows, NonCash(r), rows'[r].status = "pending"
        PROVE  FALSE
    <3>1. Open(r)
      BY <1>2, <2>2 DEF Closes, Open
    <3>2. r = openIntent /\ openIntent # 0
      BY <2>2, <3>1, OneOpen
    <3> QED BY <2>2, <3>2 DEF NonCash, kept
  <2>3. intent'.pc = "insert" => \A r \in DOMAIN rows' : NonCash(r)' => rows'[r].status # "pending"
    BY <1>2, <1>6, <1>7, <2>2 DEF Closes
  <2>4. intent'.amount + intent'.wallet = total' /\ (Small => intent'.wallet >= balance')
    BY <1>1, <1>5, <1>6
  <2> QED BY <2>1, <2>3, <2>4 DEF IntentCovers, Small, NonCash
<1>11. ASSUME NEW r \in DOMAIN rows PROVE RowCovers(r)'
  <2>1. RowCovers(r)
    BY DEF MoneyInv
  <2>2. rows'[r].status = "captured" => rows'[r].ref = r /\ (NonCash(r)' => Covered(r)')
    BY <1>2, <1>7, <2>1 DEF RowCovers, Closes
  <2>3. rows'[r].status = "pending" /\ NonCash(r)' => LatestOpen(r)'
    BY <1>2, <1>7, <2>1 DEF RowCovers, Closes
  <2>4. WalletCovers(r)'
    BY <1>1, <1>2, <2>1 DEF RowCovers, WalletCovers, Closes
  <2>5. rows'[r].wallet = rows[r].wallet /\ balance' = balance
    BY <1>1, <1>2 DEF Closes
  <2>6. Leftover(r)' => /\ "intent" \in Faults /\ rows'[r].wallet >= balance'
                        /\ rows'[r].wallet >= intent'.wallet
    BY <1>6, <1>7, <1>8, <2>5
  <2> QED BY <2>2, <2>3, <2>4, <2>6 DEF RowCovers
<1>12. \A r \in RowIds : OrderCovers(r)'
  BY <1>1, <1>2 DEF MoneyInv, OrderCovers, BaseInv, OrdersOK, Closes
<1>13. ASSUME NEW w \in Workers PROVE TaskCovers(w)'
  <2>1. CASE Idle(w)
    BY <1>1, <2>1 DEF TaskCovers, Idle
  <2>2. CASE ~Idle(w)
    <3>1. task[w].of \in DOMAIN rows /\ TaskCovers(w) /\ NonCash(task[w].of)
      BY <1>3, <2>2 DEF BaseInv, TaskOK, MoneyInv
    <3>2. NonCash(task[w].of)' /\ Covered(task[w].of)'
      BY <1>1, <1>7, <2>2, <3>1 DEF TaskCovers, NonCash, Covered
    <3> QED BY <1>1, <2>2, <3>1, <3>2 DEF TaskCovers
  <2> QED BY <2>1, <2>2
<1> QED BY <1>2, <1>10, <1>11, <1>12, <1>13 DEF MoneyInv, Closes

\* A row is appended, and open ones perhaps closed.
LEMMA AddsKeeps ==
    ASSUME TypeOK, NEW v, Adds(v)
    PROVE  /\ \A q \in DOMAIN rows :
                /\ rows'[q].provider = rows[q].provider /\ rows'[q].wallet = rows[q].wallet
                /\ rows'[q].order = rows[q].order /\ rows'[q].ref = rows[q].ref
                /\ rows'[q].status = "pending" => rows[q].status = "pending"
                /\ rows'[q].status = "captured" <=> rows[q].status = "captured"
                /\ q < Len(rows) + 1 /\ q \in Nat
           /\ DOMAIN rows' = DOMAIN rows \cup {Len(rows) + 1} /\ rows'[Len(rows) + 1] = v
           /\ Len(rows) + 1 \notin DOMAIN rows /\ Len(rows) + 1 \in RowIds /\ Len(rows) \in Nat
<1>1. (\A q \in DOMAIN rows : rows[q] \in Row) /\ DOMAIN rows = 1 .. Len(rows) /\ Len(rows) \in Nat
  BY RowTyped
<1>2. \A q \in DOMAIN rows :
                /\ rows'[q].provider = rows[q].provider /\ rows'[q].wallet = rows[q].wallet
                /\ rows'[q].order = rows[q].order /\ rows'[q].ref = rows[q].ref
                /\ rows'[q].status = "pending" => rows[q].status = "pending"
                /\ rows'[q].status = "captured" <=> rows[q].status = "captured"
  BY <1>1, StaysKept DEF Adds, Kept
<1>3. (\A q \in DOMAIN rows : q < Len(rows) + 1 /\ q \in Nat) /\ Len(rows) + 1 \notin DOMAIN rows
  BY <1>1
<1>4. Len(rows) + 1 \in RowIds
  BY <1>1 DEF Adds, RowIds
<1> QED BY <1>1, <1>2, <1>3, <1>4 DEF Adds

LEMMA InsertMoney ==
    ASSUME BaseInv, MoneyInv, CreateIntentInsert PROVE MoneyInv'
<1> DEFINE v == NewRow(IF intent.wallet > 0 /\ intent.amount = 0 THEN "wallet" ELSE "gateway",
                       intent.amount, intent.wallet, 0)
<1>n. PICK n : n = Len(rows) + 1
  OBVIOUS
<1>0. /\ TypeOK /\ total \in Nat /\ balance \in Int /\ intent.amount \in 0 .. Fare
      /\ intent.wallet \in 0 .. Fare /\ IntentCovers
  <2>1. TypeOK /\ IntentCovers
    BY DEF BaseInv, MoneyInv
  <2>2. intent.amount \in 0 .. Fare /\ intent.wallet \in 0 .. Fare
    BY <2>1 DEF TypeOK
  <2> QED BY <2>1, <2>2, MoneyTypes
<1>1. /\ v \in Row /\ v.status = "pending" /\ v.wallet = intent.wallet /\ v.provider # "cash"
      /\ v.provider = "wallet" => intent.amount = 0
  BY <1>0, NewRowTyped DEF NewRow, Providers
<1>2. /\ intent.pc = "insert" /\ rows' = Append(rows, v) /\ Len(rows) < MaxRows
      /\ intent' = [intent EXCEPT !.pc = "order", !.row = n]
      /\ UNCHANGED <<total, orders, balance, task, closing>>
  BY <1>n DEF CreateIntentInsert
<1> HIDE DEF v
<1>3. Adds(v)
  BY <1>0, <1>1, <1>2, AddOne
<1>4. /\ \A q \in DOMAIN rows :
                /\ rows'[q].provider = rows[q].provider /\ rows'[q].wallet = rows[q].wallet
                /\ rows'[q].order = rows[q].order /\ rows'[q].ref = rows[q].ref
                /\ rows'[q].status = "pending" => rows[q].status = "pending"
                /\ rows'[q].status = "captured" <=> rows[q].status = "captured"
                /\ q < n /\ q \in Nat
      /\ DOMAIN rows' = DOMAIN rows \cup {n} /\ rows'[n] = v
      /\ n \notin DOMAIN rows /\ n \in RowIds /\ Len(rows) \in Nat
  BY <1>0, <1>3, <1>n, AddsKeeps
<1>5. /\ intent'.pc = "order" /\ intent'.row = n
      /\ intent'.amount = intent.amount /\ intent'.wallet = intent.wallet
  BY <1>0, <1>2, <1>4, IntentTakes DEF RowIds
<1>6. \A r \in DOMAIN rows : /\ Covered(r) => Covered(r)'
                             /\ NonCash(r)' <=> NonCash(r)
                             /\ Leftover(r)' => Leftover(r)
                             /\ NonCash(r) => rows[r].status # "pending"
  BY <1>0, <1>2, <1>4, <1>5 DEF Covered, NonCash, Leftover, IntentCovers
<1>7. intent.amount + intent.wallet = total /\ (Small => intent.wallet >= balance)
  BY <1>0, <1>2 DEF IntentCovers
<1>8. IntentCovers'
  <2>1. rows'[intent'.row].wallet >= intent'.wallet
    BY <1>0, <1>1, <1>4, <1>5
  <2> QED BY <1>2, <1>5, <1>7, <2>1 DEF IntentCovers, Small
<1>9. ASSUME NEW r \in DOMAIN rows PROVE RowCovers(r)'
  <2>1. RowCovers(r)
    BY DEF MoneyInv
  <2>2. rows'[r].status = "captured" => rows'[r].ref = r /\ (NonCash(r)' => Covered(r)')
    BY <1>4, <1>6, <2>1 DEF RowCovers
  <2>3. ~(rows'[r].status = "pending" /\ NonCash(r)')
    BY <1>4, <1>6
  <2>4. Leftover(r)' => "intent" \in Faults /\ rows'[r].wallet >= balance'
    BY <1>2, <1>4, <1>6, <2>1 DEF RowCovers
  <2> QED BY <1>5, <2>2, <2>3, <2>4 DEF RowCovers, WalletCovers, NonCash
<1>10. RowCovers(n)'
  <2>1. rows'[n].status = "pending" /\ ~Leftover(n)'
    BY <1>1, <1>4, <1>5 DEF Leftover
  <2>2. rows'[n].provider = "wallet" => rows'[n].wallet >= total'
    BY <1>0, <1>1, <1>2, <1>4, <1>7
  <2>3. \A q \in DOMAIN rows' : q <= n /\ q \in Int /\ n \in Int
    BY <1>4, <1>n
  <2>4. \A q \in DOMAIN rows' : ~(q > n)
    BY <2>3
  <2> QED BY <2>1, <2>2, <2>4 DEF RowCovers, WalletCovers, LatestOpen, NonCash
<1>11. \A r \in RowIds : OrderCovers(r)'
  BY <1>2, <1>4 DEF MoneyInv, OrderCovers, BaseInv, OrdersOK
<1>12. ASSUME NEW w \in Workers PROVE TaskCovers(w)'
  <2>1. CASE Idle(w)
    BY <1>2, <2>1 DEF TaskCovers, Idle
  <2>2. CASE ~Idle(w)
    <3>1. task[w].of \in DOMAIN rows /\ TaskCovers(w)
      BY <2>2 DEF BaseInv, TaskOK, MoneyInv
    <3>2. NonCash(task[w].of)
      BY <1>2, <2>2, <3>1 DEF TaskCovers
    <3>3. NonCash(task[w].of)' /\ Covered(task[w].of)'
      BY <1>2, <1>6, <2>2, <3>1, <3>2 DEF TaskCovers, NonCash, Covered
    <3> QED BY <1>2, <2>2, <3>1, <3>3 DEF TaskCovers
  <2> QED BY <2>1, <2>2
<1> QED BY <1>4, <1>8, <1>9, <1>10, <1>11, <1>12 DEF MoneyInv

LEMMA ReplayMoney ==
    ASSUME BaseInv, MoneyInv, CreateIntentReplays PROVE MoneyInv'
<1>0. TypeOK /\ IntentCovers /\ \A r \in DOMAIN rows : r \in RowIds
  <2>1. TypeOK /\ IntentCovers
    BY DEF BaseInv, MoneyInv
  <2> QED BY <2>1, MoneyTypes
<1>1. PICK n \in DOMAIN rows : /\ NonCash(n) /\ ~rows[n].order
                               /\ intent' = [intent EXCEPT !.pc = "order", !.row = n]
  BY DEF CreateIntentReplays, NonCash
<1>2. intent.pc = "insert" /\ UNCHANGED <<rows, total, orders, balance, task, closing>>
  BY DEF CreateIntentReplays
<1>3. /\ intent'.pc = "order" /\ intent'.row = n
      /\ intent'.amount = intent.amount /\ intent'.wallet = intent.wallet
  BY <1>0, <1>1, IntentTakes DEF RowIds
<1>4. rows[n].wallet >= intent.wallet
  BY <1>1, <1>2 DEF MoneyInv, RowCovers, Leftover
<1>5. IntentCovers'
  BY <1>0, <1>2, <1>3, <1>4 DEF IntentCovers, Small
<1>6. ASSUME NEW r \in DOMAIN rows PROVE RowCovers(r)'
  <2>1. RowCovers(r) /\ (Leftover(r)' => Leftover(r))
    BY <1>2, <1>3 DEF MoneyInv, Leftover, NonCash
  <2>2. /\ NonCash(r)' <=> NonCash(r)
        /\ Covered(r)' <=> Covered(r)
        /\ LatestOpen(r)' <=> LatestOpen(r)
    BY <1>2 DEF NonCash, Covered, LatestOpen
  <2> QED BY <1>2, <1>3, <2>1, <2>2 DEF RowCovers, WalletCovers
<1>7. \A r \in RowIds : OrderCovers(r)'
  BY <1>2 DEF MoneyInv, OrderCovers
<1>8. ASSUME NEW w \in Workers PROVE TaskCovers(w)'
  <2>1. TaskCovers(w)
    BY DEF MoneyInv
  <2>2. ~Idle(w) => NonCash(task[w].of)
    BY <1>2, <2>1 DEF TaskCovers
  <2>3. Covered(task[w].of)' <=> Covered(task[w].of)
    BY <1>2 DEF Covered
  <2> QED BY <1>2, <2>1, <2>2, <2>3 DEF TaskCovers, NonCash, Idle
<1> QED BY <1>2, <1>5, <1>6, <1>7, <1>8 DEF MoneyInv

\* The request is over: the row it leaves without an order asks for all the
\* wallet holds.
LEMMA EndsMoney ==
    ASSUME BaseInv, MoneyInv, Careful, CreateIntentEnds PROVE MoneyInv'
<1>0. /\ TypeOK /\ IntentCovers /\ intent'.pc = "idle"
      /\ UNCHANGED <<rows, total, orders, balance, task, closing>>
      /\ balance \in Int /\ intent.wallet \in Nat
      /\ \A r \in DOMAIN rows : rows[r].wallet \in Nat
  <2>1. TypeOK /\ IntentCovers /\ intent'.pc = "idle" /\ UNCHANGED <<rows, total, orders, balance, task, closing>>
    BY DEF BaseInv, MoneyInv, CreateIntentEnds, NoIntent
  <2> QED BY <2>1, MoneyTypes
<1>1. IntentCovers'
  BY <1>0 DEF IntentCovers
<1>2. ASSUME NEW r \in DOMAIN rows, Leftover(r)' PROVE "intent" \in Faults /\ rows[r].wallet >= balance
  <2>1. CASE Leftover(r)
    BY <2>1 DEF MoneyInv, RowCovers
  <2>2. CASE ~Leftover(r)
    <3>1. intent.pc = "order" /\ intent.row = r
      BY <1>0, <1>2, <2>2 DEF Leftover, NonCash
    <3>2. "intent" \in Faults
      BY <3>1 DEF CreateIntentEnds, Fault
    <3>3. rows[r].wallet >= intent.wallet /\ intent.wallet >= balance
      BY <1>0, <3>1, <3>2 DEF IntentCovers, Careful
    <3> QED BY <1>0, <3>2, <3>3
  <2> QED BY <2>1, <2>2
<1>3. ASSUME NEW r \in DOMAIN rows PROVE RowCovers(r)'
  <2>1. RowCovers(r)
    BY DEF MoneyInv
  <2>2. /\ NonCash(r)' <=> NonCash(r)
        /\ Covered(r)' <=> Covered(r)
        /\ LatestOpen(r)' <=> LatestOpen(r)
    BY <1>0 DEF NonCash, Covered, LatestOpen
  <2> QED BY <1>0, <1>2, <2>1, <2>2 DEF RowCovers, WalletCovers
<1>4. \A r \in RowIds : OrderCovers(r)'
  BY <1>0 DEF MoneyInv, OrderCovers
<1>5. ASSUME NEW w \in Workers PROVE TaskCovers(w)'
  <2>1. TaskCovers(w) /\ task' = task
    BY <1>0 DEF MoneyInv
  <2>2. /\ Covered(task[w].of)' <=> Covered(task[w].of)
        /\ NonCash(task[w].of)' <=> NonCash(task[w].of)
        /\ LatestOpen(task[w].of)' <=> LatestOpen(task[w].of)
    BY <1>0 DEF Covered, NonCash, LatestOpen
  <2> QED BY <1>0, <2>1, <2>2 DEF TaskCovers, Idle
<1> QED BY <1>0, <1>1, <1>3, <1>4, <1>5 DEF MoneyInv

\* The order opened, with the row's wallet part, covers the bill.
LEMMA OrderMoney ==
    ASSUME BaseInv, MoneyInv, CreateIntentOrder PROVE MoneyInv'
<1>0. /\ TypeOK /\ IntentCovers /\ HandlersOK /\ OrdersOK /\ intent.pc = "order"
      /\ intent' = NoIntent /\ UNCHANGED <<total, balance, task, closing>>
  BY DEF BaseInv, MoneyInv, CreateIntentOrder
<1>1. PICK n \in DOMAIN rows : n = intent.row
  BY <1>0 DEF HandlersOK
<1>2. /\ ~rows[n].order /\ NonCash(n) /\ rows[n] \in Row /\ n \in RowIds /\ orders[n].state = "none"
  <2>1. n \in RowIds /\ rows[n] \in Row
    BY <1>0, MoneyTypes
  <2> QED BY <1>0, <1>1, <2>1 DEF HandlersOK, NonCash, OrdersOK
<1> DEFINE v == [rows[n] EXCEPT !.order = TRUE]
<1>3. v \in Row /\ rows' = [rows EXCEPT ![n] = v]
  BY <1>1, <1>2 DEF Row, CreateIntentOrder
<1>4. /\ v.provider = rows[n].provider /\ v.status = rows[n].status /\ v.ref = rows[n].ref
      /\ v.wallet = rows[n].wallet /\ v.order = TRUE
  BY <1>2 DEF Row
<1> HIDE DEF v
<1>5. /\ DOMAIN rows' = DOMAIN rows
      /\ rows'[n] = v /\ \A q \in DOMAIN rows \ {n} : rows'[q] = rows[q]
  BY <1>0, <1>3, SetOne
<1>6. \A q \in DOMAIN rows :
          /\ rows'[q].provider = rows[q].provider /\ rows'[q].wallet = rows[q].wallet
          /\ rows'[q].ref = rows[q].ref /\ rows'[q].status = rows[q].status
  BY <1>4, <1>5
<1>7. /\ \A q \in RowIds \ {n} : orders'[q] = orders[q]
      /\ orders'[n].state # "none" => orders'[n].amount = intent.amount
  <2>1. orders \in [RowIds -> [state : {"none", "open", "captured"}, amount : 0 .. Fare]]
    BY <1>0 DEF TypeOK
  <2>2. CASE intent.amount = 0
    BY <1>2, <2>2 DEF CreateIntentOrder
  <2>3. CASE intent.amount # 0
    <3>1. orders' = [orders EXCEPT ![n] = [state |-> "open", amount |-> intent.amount]]
      BY <1>1, <2>3 DEF CreateIntentOrder
    <3> QED BY <1>2, <2>1, <3>1
  <2> QED BY <2>2, <2>3
<1>8. \A q \in DOMAIN rows : /\ NonCash(q)' <=> NonCash(q)
                             /\ LatestOpen(q) => LatestOpen(q)'
  BY <1>5, <1>6 DEF NonCash, LatestOpen
<1>9. \A q \in DOMAIN rows : Covered(q) => Covered(q)'
  <2>1. \A q \in DOMAIN rows : q \in RowIds
    BY <1>0, MoneyTypes
  <2> QED BY <1>0, <1>2, <1>6, <1>7, <2>1 DEF Covered
<1>10. \A q \in DOMAIN rows : Leftover(q)' => Leftover(q)
  BY <1>0, <1>1, <1>4, <1>5, <1>8 DEF Leftover
<1>11. IntentCovers'
  BY <1>0 DEF IntentCovers, NoIntent
<1>12. ASSUME NEW r \in DOMAIN rows PROVE RowCovers(r)'
  <2>1. RowCovers(r) /\ intent'.pc = "idle"
    BY <1>0 DEF MoneyInv, NoIntent
  <2>2. Leftover(r)' => "intent" \in Faults /\ rows'[r].wallet >= balance'
    BY <1>0, <1>6, <1>10, <2>1 DEF RowCovers
  <2>3. rows'[r].status = "captured" => rows'[r].ref = r /\ (NonCash(r)' => Covered(r)')
    BY <1>6, <1>8, <1>9, <2>1 DEF RowCovers
  <2>4. rows'[r].status = "pending" /\ NonCash(r)' => LatestOpen(r)'
    BY <1>6, <1>8, <2>1 DEF RowCovers
  <2>5. WalletCovers(r)'
    BY <1>0, <1>6, <2>1 DEF RowCovers, WalletCovers
  <2> QED BY <2>1, <2>2, <2>3, <2>4, <2>5 DEF RowCovers
<1>13. ASSUME NEW r \in RowIds PROVE OrderCovers(r)'
  <2>1. CASE r = n
    <3>1. /\ intent.amount + intent.wallet = total /\ rows[n].wallet >= intent.wallet
          /\ intent.amount \in Nat /\ intent.wallet \in Nat /\ rows[n].wallet \in Nat /\ total \in Nat
      BY <1>0, <1>1, MoneyTypes DEF IntentCovers
    <3>2. intent.amount + rows[n].wallet >= total
      BY <3>1
    <3> QED BY <1>0, <1>6, <1>7, <2>1, <3>2 DEF OrderCovers
  <2>2. CASE r # n
    BY <1>0, <1>6, <1>7, <2>2 DEF OrderCovers, MoneyInv, OrdersOK
  <2> QED BY <2>1, <2>2
<1>14. ASSUME NEW w \in Workers PROVE TaskCovers(w)'
  <2>1. CASE Idle(w)
    BY <1>0, <2>1 DEF TaskCovers, Idle
  <2>2. CASE ~Idle(w)
    <3>1. task[w].of \in DOMAIN rows /\ TaskCovers(w)
      BY <2>2 DEF BaseInv, TaskOK, MoneyInv
    <3>2. NonCash(task[w].of)
      BY <1>0, <2>2, <3>1 DEF TaskCovers
    <3>3. NonCash(task[w].of)' /\ Covered(task[w].of)'
      BY <1>0, <1>8, <1>9, <2>2, <3>1, <3>2 DEF TaskCovers, NonCash, Covered
    <3> QED BY <1>0, <2>2, <3>1, <3>3 DEF TaskCovers
  <2> QED BY <2>1, <2>2
<1> QED BY <1>5, <1>11, <1>12, <1>13, <1>14 DEF MoneyInv

\* Choosing cash closes the only open row that is none.
LEMMA CashMoney ==
    ASSUME BaseInv, MoneyInv, chooseCash PROVE MoneyInv'
<1> DEFINE v == NewRow("cash", total, 0, 0)
           closed == IF openIntent = 0 THEN rows ELSE Failed(openIntent)
<1>0. /\ TypeOK /\ rows \in Seq(Row) /\ total \in 0 .. Fare /\ Len(rows) \in Nat
      /\ UNCHANGED <<total, balance, orders, intent, closing, task>>
      /\ openIntent # 0 => NonCash(openIntent)
  <2>1. TypeOK /\ Len(rows) \in Nat
    BY RowTyped DEF BaseInv
  <2>2. rows \in Seq(Row) /\ total \in 0 .. Fare
    BY <2>1, PaymentsAssumption DEF TypeOK
  <2>3. UNCHANGED <<total, balance, orders, intent, closing, task>>
    BY DEF chooseCash
  <2>4. openIntent # 0 => NonCash(openIntent)
    BY DEF chooseCash, NonCash
  <2> QED BY <2>1, <2>2, <2>3, <2>4
<1>1. v \in Row /\ v.status = "pending" /\ v.provider = "cash" /\ v.ref = 0
  BY <1>0, NewRowTyped DEF NewRow, Providers
<1>2. \/ closed = rows
      \/ \E r \in DOMAIN rows : Open(r) /\ closed = Failed(r)
  BY <1>0, OpenFacts
<1>3. rows' = Append(closed, v) /\ Len(rows) < MaxRows
  BY DEF chooseCash
<1> HIDE DEF v
<1>n. PICK n : n = Len(rows) + 1
  OBVIOUS
<1>4. Adds(v)
  BY <1>0, <1>1, <1>2, <1>3, AddOne
<1>5. /\ \A q \in DOMAIN rows :
                /\ rows'[q].provider = rows[q].provider /\ rows'[q].wallet = rows[q].wallet
                /\ rows'[q].order = rows[q].order /\ rows'[q].ref = rows[q].ref
                /\ rows'[q].status = "pending" => rows[q].status = "pending"
                /\ rows'[q].status = "captured" <=> rows[q].status = "captured"
                /\ q < n /\ q \in Nat
      /\ DOMAIN rows' = DOMAIN rows \cup {n} /\ rows'[n] = v
      /\ n \notin DOMAIN rows /\ n \in RowIds /\ Len(rows) \in Nat
  BY <1>0, <1>4, <1>n, AddsKeeps
<1>6. ASSUME NEW r \in DOMAIN rows, NonCash(r) PROVE rows'[r].status # "pending"
  <2>1. CASE ~Open(r)
    BY <1>5, <2>1 DEF Open
  <2>2. CASE Open(r)
    <3>1. r = openIntent /\ openIntent # 0 /\ rows[r] \in Row /\ r \in 1 .. Len(rows)
      BY <1>0, <1>6, <2>2, OneOpen, RowTyped
    <3> DEFINE x == [rows[r] EXCEPT !.status = "failed"]
    <3>2. x \in Row /\ x.status = "failed" /\ closed = [rows EXCEPT ![r] = x]
      BY <3>1 DEF Row, Failed
    <3> HIDE DEF x, closed
    <3>3. closed \in Seq(Row) /\ Len(closed) = Len(rows) /\ closed[r] = x
      BY <1>0, <3>2, SetOne
    <3>4. rows'[r] = closed[r]
      BY <1>1, <1>3, <3>1, <3>3, AppendProperties
    <3> QED BY <3>2, <3>3, <3>4
  <2> QED BY <2>1, <2>2
<1> HIDE DEF closed
<1>7. \A q \in DOMAIN rows : /\ NonCash(q)' <=> NonCash(q)
                             /\ Covered(q) => Covered(q)'
                             /\ Leftover(q)' <=> Leftover(q)
  BY <1>0, <1>5 DEF NonCash, Covered, Leftover
<1>8. ~NonCash(n)'
  BY <1>1, <1>5 DEF NonCash
<1>9. IntentCovers'
  <2>1. IntentCovers /\ (intent.pc = "order" => intent.row \in DOMAIN rows)
    BY DEF MoneyInv, BaseInv, HandlersOK
  <2>2. intent'.pc = "insert" => \A r \in DOMAIN rows' : NonCash(r)' => rows'[r].status # "pending"
    BY <1>5, <1>6, <1>7, <1>8
  <2>3. intent'.pc = "order" => rows'[intent'.row].wallet >= intent'.wallet
    BY <1>0, <1>5, <2>1 DEF IntentCovers
  <2> QED BY <1>0, <2>1, <2>2, <2>3 DEF IntentCovers, NonCash, Small
<1>10. ASSUME NEW r \in DOMAIN rows PROVE RowCovers(r)'
  <2>1. RowCovers(r)
    BY DEF MoneyInv
  <2>2. rows'[r].status = "captured" => rows'[r].ref = r /\ (NonCash(r)' => Covered(r)')
    BY <1>5, <1>7, <2>1 DEF RowCovers
  <2>3. ~(rows'[r].status = "pending" /\ NonCash(r)')
    BY <1>6, <1>7
  <2>4. Leftover(r)' => /\ "intent" \in Faults /\ rows'[r].wallet >= balance'
                        /\ intent'.pc = "insert" => rows'[r].wallet >= intent'.wallet
    BY <1>0, <1>5, <1>7, <2>1 DEF RowCovers
  <2> QED BY <2>2, <2>3, <2>4 DEF RowCovers, WalletCovers, NonCash
<1>11. RowCovers(n)'
  BY <1>1, <1>5, <1>8 DEF RowCovers, WalletCovers, Leftover, NonCash
<1>12. \A r \in RowIds : OrderCovers(r)'
  BY <1>0, <1>5 DEF MoneyInv, OrderCovers, BaseInv, OrdersOK
<1>13. ASSUME NEW w \in Workers PROVE TaskCovers(w)'
  <2>1. CASE Idle(w)
    BY <1>0, <2>1 DEF TaskCovers, Idle
  <2>2. CASE ~Idle(w)
    <3>1. task[w].of \in DOMAIN rows /\ TaskCovers(w) /\ task[w].of \in Int
      BY <1>5, <2>2 DEF BaseInv, TaskOK, MoneyInv
    <3>2. CASE NonCash(task[w].of)
      <4>1. NonCash(task[w].of)' /\ Covered(task[w].of)'
        BY <1>0, <1>7, <2>2, <3>1, <3>2 DEF TaskCovers, NonCash, Covered
      <4> QED BY <1>0, <2>2, <3>1, <4>1 DEF TaskCovers
    <3>3. CASE ~NonCash(task[w].of)
      <4>1. rows[task[w].of].status # "pending"
        <5>1. SUFFICES ASSUME Open(task[w].of) PROVE FALSE
          BY DEF Open
        <5>2. LatestOpen(task[w].of)
          BY <2>2, <3>1, <3>3, <5>1 DEF TaskCovers, Open
        <5>3. /\ openIntent \in DOMAIN rows /\ openIntent # 0 /\ Open(openIntent)
              /\ task[w].of <= openIntent /\ openIntent \in Int
          BY <1>0, <1>5, <3>1, <5>1, OpenFacts
        <5>4. openIntent = task[w].of
          BY <3>1, <5>2, <5>3 DEF LatestOpen, Open
        <5> QED BY <1>0, <3>3, <5>3, <5>4
      <4>2. rows'[task[w].of].status # "pending" /\ ~NonCash(task[w].of)' /\ intent.pc = "idle"
        BY <1>0, <1>5, <2>2, <3>1, <3>3, <4>1 DEF NonCash, TaskCovers
      <4> QED BY <1>0, <2>2, <3>1, <4>2 DEF TaskCovers
    <3> QED BY <3>2, <3>3
  <2> QED BY <2>1, <2>2
<1> QED BY <1>5, <1>9, <1>10, <1>11, <1>12, <1>13 DEF MoneyInv

\* The coupon: the bill shrinks, or grows while there is no order.
LEMMA CouponMoney ==
    ASSUME BaseInv, MoneyInv, Careful, ChangeCoupon PROVE MoneyInv'
<1>0. /\ TypeOK /\ rows \in Seq(Row) /\ capturedFor = 0 /\ ~closing /\ closing' = TRUE
      /\ UNCHANGED <<balance, orders, intent, task>> /\ rows' = rows
      /\ total \in Nat /\ \A r \in DOMAIN rows : r \in RowIds /\ rows[r].wallet \in Nat
      /\ \A r \in RowIds : orders[r].amount \in Nat
  <2>1. /\ TypeOK /\ rows \in Seq(Row) /\ capturedFor = 0 /\ ~closing /\ closing' = TRUE
        /\ UNCHANGED <<balance, orders, intent, task>> /\ rows' = rows
    BY DEF BaseInv, TypeOK, ChangeCoupon
  <2> QED BY <2>1, MoneyTypes
<1>1. /\ \A w \in Workers : Idle(w)
      /\ intent.pc = "idle"
      /\ total = Fare \/ \A r \in RowIds : orders[r] = NoOrder
  <2>1. Settling = {} /\ intent = NoIntent
    BY DEF ChangeCoupon, Careful, Fault
  <2>2. total = Fare \/ \A r \in RowIds : orders[r] = NoOrder
    BY <1>0, <2>1, FaultType DEF ChangeCoupon, Careful
  <2> QED BY <2>1, <2>2 DEF Settling, Idle, NoIntent
<1>2. /\ total' = IF total = Fare THEN Fare - Discount ELSE Fare
      /\ total = Fare => total' <= total /\ total' \in Nat
      /\ total # Fare => total' = Fare
  <2>1. total' = IF total = Fare THEN Fare - Discount ELSE Fare
    BY DEF ChangeCoupon
  <2> QED BY <2>1, PaymentsAssumption
<1>3. \A r \in DOMAIN rows : /\ rows[r].status # "captured"
                             /\ NonCash(r)' <=> NonCash(r)
                             /\ Leftover(r)' <=> Leftover(r)
                             /\ LatestOpen(r)' <=> LatestOpen(r)
  BY <1>0, CapturedFacts DEF NonCash, Leftover, LatestOpen
<1>4. IntentCovers'
  BY <1>0, <1>1 DEF IntentCovers
<1>5. ASSUME NEW r \in DOMAIN rows PROVE RowCovers(r)'
  <2>1. RowCovers(r)
    BY DEF MoneyInv
  <2>2. Leftover(r)' => /\ "intent" \in Faults /\ rows'[r].wallet >= balance'
                        /\ intent'.pc = "insert" => rows'[r].wallet >= intent'.wallet
    BY <1>0, <1>3, <2>1 DEF RowCovers
  <2>3. WalletCovers(r)'
    <3>1. CASE total = Fare
      <4>1. rows[r].status = "pending" /\ rows[r].provider = "wallet" => rows[r].wallet >= total
        BY <1>0, <2>1 DEF RowCovers, WalletCovers
      <4>2. rows[r].status = "pending" /\ rows[r].provider = "wallet" => rows[r].wallet >= total'
        BY <1>0, <1>2, <3>1, <4>1
      <4> QED BY <1>0, <4>2 DEF WalletCovers
    <3>2. CASE total # Fare
      BY <1>0, <1>2, <3>2 DEF WalletCovers
    <3> QED BY <3>1, <3>2
  <2>4. rows'[r].status = "pending" /\ NonCash(r)' => LatestOpen(r)'
    BY <1>0, <1>3, <2>1 DEF RowCovers
  <2> QED BY <1>0, <1>3, <2>2, <2>3, <2>4 DEF RowCovers
<1>6. ASSUME NEW r \in RowIds PROVE OrderCovers(r)'
  <2>1. CASE total = Fare
    <3>1. orders[r].state # "none" => r \in DOMAIN rows /\ orders[r].amount + rows[r].wallet >= total
      BY DEF MoneyInv, OrderCovers, BaseInv, OrdersOK
    <3>2. orders[r].state # "none" => orders[r].amount + rows[r].wallet >= total'
      BY <1>0, <1>2, <2>1, <3>1
    <3> QED BY <1>0, <3>2 DEF OrderCovers
  <2>2. CASE \A q \in RowIds : orders[q] = NoOrder
    BY <1>0, <2>2 DEF OrderCovers, NoOrder
  <2> QED BY <1>1, <2>1, <2>2
<1>7. \A w \in Workers : TaskCovers(w)'
  BY <1>0, <1>1 DEF TaskCovers, Idle
<1> QED BY <1>0, <1>4, <1>5, <1>6, <1>7 DEF MoneyInv

\* The coupon's request closes the only open row that is no cash row; it dies
\* before only if the bill has shrunk.
LEMMA CloseMoney ==
    ASSUME BaseInv, MoneyInv, Careful, closeOpenIntents PROVE MoneyInv'
<1>0. /\ TypeOK /\ rows \in Seq(Row) /\ balance \in Int /\ balance' <= balance /\ OrdersGrow
      /\ UNCHANGED <<balance, orders, intent, task, total>>
  <2>1. /\ TypeOK /\ rows \in Seq(Row) /\ balance \in Int
        /\ UNCHANGED <<balance, orders, intent, task, total>>
    BY DEF BaseInv, TypeOK, closeOpenIntents
  <2> QED BY <2>1, OrdersSame
<1>1. \/ rows' = rows /\ (openIntent # 0 => ~NonCash(openIntent))
      \/ openIntent # 0 /\ NonCash(openIntent) /\ rows' = Failed(openIntent)
      \/ rows' = rows /\ total # Fare
  BY DEF closeOpenIntents, NonCash, Careful, Fault
<1>2. Closes
  <2>1. Fails
    BY <1>0, <1>1, FailOne, FailNone, OpenFacts
  <2> QED BY <1>0, <2>1, FailsCloses
<1>3. ASSUME NEW r \in DOMAIN rows PROVE WalletCovers(r)'
  <2>1. RowCovers(r)
    BY DEF MoneyInv
  <2>2. CASE total # Fare
    BY <1>0, <1>2, <2>1, <2>2 DEF RowCovers, WalletCovers, Closes
  <2>3. CASE total = Fare /\ Open(r) /\ rows[r].provider = "wallet"
    <3>1. r = openIntent /\ openIntent # 0 /\ rows[r] \in Row /\ NonCash(r)
      BY <1>0, <2>3, OneOpen, RowTyped DEF NonCash
    <3>2. rows' = Failed(r)
      BY <1>1, <2>3, <3>1
    <3>3. rows'[r].status # "pending"
      BY <3>1, <3>2 DEF Failed, Row
    <3> QED BY <3>3 DEF WalletCovers
  <2>4. CASE ~(Open(r) /\ rows[r].provider = "wallet")
    BY <1>2, <2>4 DEF WalletCovers, Closes, Open
  <2> QED BY <2>2, <2>3, <2>4
<1>4. \A r \in DOMAIN rows' : WalletCovers(r)'
  BY <1>2, <1>3 DEF Closes
<1> QED BY <1>0, <1>2, <1>4, CalmMoney DEF MoneyInv

LEMMA MoneyStep ==
    ASSUME Careful PROVE BaseInv /\ MadeInv /\ MoneyInv /\ [Next]_vars => MoneyInv'
<1> SUFFICES ASSUME BaseInv, MadeInv, MoneyInv, [Next]_vars PROVE MoneyInv'
  OBVIOUS
<1>0. TypeOK' /\ Steady /\ "coupon" \notin Faults
  BY BaseStep DEF BaseInv, Careful
<1>1. CASE UNCHANGED vars
  <2>1. Closes /\ OrdersGrow /\ balance' \in Int /\ balance' <= balance
    BY <1>1, FailNone, FailsCloses, OrdersSame DEF vars, BaseInv, TypeOK
  <2> QED BY <1>1, <2>1, QuietMoney DEF vars
<1>2. CASE Customer
  BY <1>0, <1>2, ReadMoney, InsertMoney, ReplayMoney, OrderMoney, EndsMoney, CashMoney,
     CouponMoney, CloseMoney, OutsideMoney DEF Customer
<1>3. ASSUME NEW w \in Workers, Settle(w) PROVE MoneyInv'
  BY <1>0, <1>3, SettleWorks, WorksMoney
<1>4. CASE \/ Gateway \/ LockExpires
           \/ \E w \in Workers : confirmCashCollected(w) \/ Die(w)
           \/ \E w \in Workers, h \in RowIds :
                 applyPayment(w, h) \/ reconcile(w, h) \/ recheckBooking(w, h)
           \/ \E r \in RowIds : SweepFetchesPending(r)
           \/ SweepFailsStuck
           \/ DisputeOpens \/ DisputeCharges \/ DisputeCancels
  BY <1>0, <1>4, OutsideMoney
<1> QED BY <1>1, <1>2, <1>3, <1>4 DEF Next

LEMMA MoneyInit == Init => MoneyInv
<1> SUFFICES ASSUME Init PROVE MoneyInv
  OBVIOUS
<1>1. /\ NoTask.pc = "idle" /\ NoIntent.pc = "idle" /\ NoOrder.state = "none" /\ DOMAIN rows = {}
  BY DEF Init, NoTask, NoIntent, NoOrder
<1> QED BY <1>1 DEF Init, MoneyInv, IntentCovers, OrderCovers, TaskCovers, Idle

LEMMA MoneyCollected ==
    ASSUME BaseInv, LegsInv, TotalInv, MoneyInv PROVE CreditIsCollected
<1> SUFFICES ASSUME Posted("credit") PROVE Collected >= ledger.credit
  BY DEF CreditIsCollected
<1> DEFINE c == capturedFor
           part == IF Posted("wallet") THEN ledger.wallet ELSE 0
<1>0. TypeOK /\ rows \in Seq(Row) /\ ledger.credit = total
  BY DEF BaseInv, TypeOK, TotalInv
<1>1. c # 0 /\ IsCaptured(c)
  <2>1. PICK r \in DOMAIN rows : LedgerOK(r)
    BY DEF LegsInv
  <2> QED BY <1>0, <2>1, CapturedFacts DEF LedgerOK, IsCaptured
<1>2. LedgerOK(c) /\ rows[c].ref = c /\ (NonCash(c) => Covered(c)) /\ c \in DOMAIN rows
  BY <1>1, LedgerHere DEF MoneyInv, RowCovers, IsCaptured
<1>3. /\ rows[c].wallet \in Nat /\ c \in RowIds /\ orders[c].amount \in Nat /\ total \in Nat
  BY <1>0, <1>2, MoneyTypes
<1>4. total > 0
  BY <1>0, PaymentsAssumption DEF TypeOK
<1>5. part = rows[c].wallet
  BY <1>2, <1>3 DEF LedgerOK
<1>6. Collected = (IF rows[c].provider = "cash" THEN total
                   ELSE IF orders[c].state = "captured" THEN orders[c].amount ELSE 0) + part
  BY <1>2 DEF Collected, Captured
<1> HIDE DEF c, part
<1>7. CASE rows[c].provider = "cash"
  BY <1>0, <1>3, <1>5, <1>6, <1>7
<1>8. CASE rows[c].provider # "cash"
  <2>1. Covered(c)
    BY <1>2, <1>8 DEF NonCash
  <2> QED BY <1>0, <1>3, <1>5, <1>6, <1>8, <2>1 DEF Covered
<1> QED BY <1>7, <1>8

\* The driver's and the fleet's shares are computed on no more than was
\* collected: whatever order the channels report in, whichever settlements
\* race or die, the credited total is covered by the captured row's own
\* order or cash and its wallet part.  No customer switches channel, no
\* dispute cancels and no coupon changes while a payment settles, no coupon is
\* removed after an order was made; and a createIntent dies between its row
\* and its order only if the wallet cannot hold more than the smallest bill.
THEOREM CreditsAreCollected ==
    ASSUME Careful PROVE Spec => []CreditIsCollected
<1> DEFINE Inv == BaseInv /\ MadeInv /\ LegsInv /\ TotalInv /\ MoneyInv
<1>0. Steady /\ "coupon" \notin Faults
  BY DEF Careful
<1>1. Init => Inv
  BY BaseInit, MadeInit, LegsInit, TotalInit, MoneyInit
<1>2. Inv /\ [Next]_vars => Inv'
  BY <1>0, BaseStep, MadeStep, LegsStep, TotalStep, MoneyStep
<1>3. Inv => CreditIsCollected
  BY MoneyCollected
<1> QED BY <1>1, <1>2, <1>3, PTL DEF Spec

=============================================================================
