------------------------- MODULE Idempotency_proofs -------------------------
(***************************************************************************)
(* Proofs about Idempotency, for any number of requests and payloads.      *)
(***************************************************************************)
EXTENDS Idempotency, TLAPS

USE IdempotencyAssumption

LEMMA TypeInit == Init => TypeOK
<1> SUFFICES ASSUME Init PROVE TypeOK
    OBVIOUS
<1>1. slot \in Slots
    BY DEF Init, Slots, Empty
<1>2. answer \in [Requests -> Answers]
    BY DEF Init, Answers, Says
<1>3. tries \in [Requests -> 0..MaxTries]
    BY DEF Init
<1> QED BY <1>1, <1>2, <1>3 DEF Init, TypeOK

LEMMA ReplyType ==
    ASSUME TypeOK, NEW r \in Requests, NEW a \in Answers, Reply(r, a)
    PROVE  /\ answer' \in [Requests -> Answers]
           /\ pc' \in [Requests -> {"new", "setting", "getting", "answered",
                                    "dead"} \cup Handling]
    BY DEF TypeOK, Reply

LEMMA TypeRequest ==
    ASSUME TypeOK, NEW r \in Requests, Step(r)
    PROVE  TypeOK'
<1> USE DEF Handling
<1>0. /\ \A k \in {"none", "done", "failed", "conflict", "mismatch"} :
             Says(k) \in Answers
      /\ Marker(r) \in Slots /\ Response(r) \in Slots /\ Empty \in Slots
    BY DEF Says, Answers, Marker, Response, Empty, Slots
<1>1. CASE Arrive(r)
    BY <1>1 DEF Arrive, TypeOK
<1>2. CASE SetNX(r)
    BY <1>0, <1>2 DEF SetNX, TypeOK
<1>3. CASE GetNothing(r)
    <2>1. CASE tries[r] < MaxTries
        BY <1>3, <2>1 DEF GetNothing, TypeOK
    <2>2. CASE tries[r] >= MaxTries
        <3>1. Reply(r, Says("conflict")) /\ UNCHANGED tries
            BY <1>3, <2>2 DEF GetNothing, TypeOK
        <3> QED BY <1>0, <1>3, <3>1, ReplyType DEF GetNothing, TypeOK
    <2> QED BY <2>1, <2>2 DEF TypeOK
<1>4. CASE GetRecord(r)
    <2>1. slot.by \in Requests
        BY <1>4 DEF GetRecord, TypeOK, Slots, Empty
    <2>2. [kind |-> "replayed", by |-> slot.by] \in Answers
        BY <2>1 DEF Answers
    <2>3. \E a \in Answers : Reply(r, a)
        BY <1>0, <1>4, <2>2 DEF GetRecord
    <2> QED BY <1>4, <2>3, ReplyType DEF GetRecord, TypeOK
<1>5. CASE Succeed(r)
    BY <1>5 DEF Succeed, TypeOK
<1>6. CASE Fail(r)
    BY <1>6 DEF Fail, TypeOK
<1>7. CASE Complete(r)
    <2>1. slot' \in Slots /\ lapsed' \in BOOLEAN
        BY <1>0, <1>7 DEF Complete, TypeOK
    <2>2. Reply(r, Says("done"))
        BY <1>7 DEF Complete
    <2> QED BY <1>0, <1>7, <2>1, <2>2, ReplyType DEF Complete, TypeOK
<1>8. CASE Release(r)
    <2>1. slot' \in Slots
        BY <1>0, <1>8 DEF Release, TypeOK
    <2>2. Reply(r, Says("failed"))
        BY <1>8 DEF Release
    <2> QED BY <1>0, <1>8, <2>1, <2>2, ReplyType DEF Release, TypeOK
<1>9. CASE Die(r)
    <2>1. lapsed' \in BOOLEAN
        BY <1>9 DEF Die, TypeOK
    <2> QED BY <1>9, <2>1 DEF Die, TypeOK
<1> QED BY <1>1, <1>2, <1>3, <1>4, <1>5, <1>6, <1>7, <1>8, <1>9 DEF Step

LEMMA TypeStep == TypeOK /\ [Next]_vars => TypeOK'
<1> SUFFICES ASSUME TypeOK, [Next]_vars PROVE TypeOK'
    OBVIOUS
<1>1. CASE Expire
    <2>1. overrun' \in BOOLEAN /\ lapsed' \in BOOLEAN
        BY <1>1 DEF Expire, TypeOK
    <2> QED BY <1>1, <2>1 DEF Expire, TypeOK, Slots, Empty
<1>2. ASSUME NEW r \in Requests, Step(r) PROVE TypeOK'
    BY <1>2, TypeRequest
<1>3. CASE UNCHANGED vars
    BY <1>3 DEF vars, TypeOK
<1> QED BY <1>1, <1>2, <1>3 DEF Next

\* Every variable keeps its type, and acquire never begins more than MaxTries
\* passes, for any requests and payloads.
THEOREM IdempotencyTypeCorrect == Spec => []TypeOK
    BY TypeInit, TypeStep, PTL DEF Spec

------------------------------------------------------------------------------
(* The slot *)

LEMMA Distinct ==
    /\ \A q, r \in Requests : Marker(q) = Marker(r) => q = r
    /\ \A q, r \in Requests : Response(q) = Response(r) => q = r
    /\ \A q, r \in Requests : Marker(q) # Response(r)
    /\ \A r \in Requests : Marker(r) # Empty /\ Response(r) # Empty
    /\ \A r \in Requests : /\ Marker(r).state = "in_flight" /\ Marker(r).by = r
                           /\ Response(r).state = "completed"
                           /\ Response(r).by = r
    /\ Empty.state = "empty"
    BY DEF Marker, Response, Empty

LEMMA SlotInit == Init => SlotInv /\ ReplayIsOwn
    BY DEF Init, SlotInv, ReplayIsOwn, Handling, Empty, Says

LEMMA SlotRequest ==
    ASSUME TypeOK, SlotInv, NEW r \in Requests, Step(r)
    PROVE  SlotInv'
<1> USE DEF Handling
<1>1. CASE Arrive(r)
    BY <1>1 DEF Arrive, TypeOK, SlotInv
<1>2. CASE SetNX(r)
    BY <1>2, Distinct DEF SetNX, TypeOK, SlotInv
<1>3. CASE GetNothing(r)
    BY <1>3 DEF GetNothing, Reply, TypeOK, SlotInv
<1>4. CASE GetRecord(r)
    BY <1>4 DEF GetRecord, Reply, TypeOK, SlotInv
<1>5. CASE Succeed(r)
    BY <1>5, Distinct DEF Succeed, TypeOK, SlotInv
<1>6. CASE Fail(r)
    BY <1>6, Distinct DEF Fail, TypeOK, SlotInv
<1>7. CASE Complete(r)
    <2>1. r \in effects
        BY <1>7 DEF Complete, SlotInv
    <2>2. UNCHANGED <<effects, overrun>>
          /\ pc' = [pc EXCEPT ![r] = "answered"]
        BY <1>7 DEF Complete, Reply
    <2>3. CASE slot' = Response(r) /\ slot \in {Empty, Marker(r)} /\ lapsed' = lapsed
        BY <2>1, <2>2, <2>3, Distinct DEF TypeOK, SlotInv
    <2>4. CASE slot' = slot /\ slot \notin {Empty, Marker(r)} /\ lapsed' = lapsed
        BY <1>7, <2>1, <2>2, <2>4, Distinct DEF Complete, TypeOK, SlotInv
    <2>5. CASE slot' = slot /\ lapsed'
        BY <2>2, <2>5 DEF TypeOK, SlotInv
    <2> QED BY <1>7, <2>3, <2>4, <2>5 DEF Complete
<1>8. CASE Release(r)
    <2>1. UNCHANGED <<effects, overrun, lapsed>>
          /\ pc' = [pc EXCEPT ![r] = "answered"] /\ pc[r] = "releasing"
        BY <1>8 DEF Release, Reply
    <2>2. CASE slot' = slot
        BY <2>1, <2>2 DEF TypeOK, SlotInv
    <2>3. CASE slot = Marker(r) /\ slot' = Empty
        BY <2>1, <2>3, Distinct DEF TypeOK, SlotInv
    <2> QED BY <1>8, <2>2, <2>3 DEF Release
<1>9. CASE Die(r)
    BY <1>9 DEF Die, TypeOK, SlotInv
<1> QED BY <1>1, <1>2, <1>3, <1>4, <1>5, <1>6, <1>7, <1>8, <1>9 DEF Step

LEMMA SlotStep == TypeOK /\ SlotInv /\ [Next]_vars => SlotInv'
<1> SUFFICES ASSUME TypeOK, SlotInv, [Next]_vars PROVE SlotInv'
    OBVIOUS
<1>1. CASE Expire
    <2>1. /\ slot' = Empty /\ UNCHANGED <<pc, effects>>
          /\ (slot.state = "in_flight" /\ pc[slot.by] \in Handling) => overrun'
          /\ slot.state = "completed" => lapsed'
        BY <1>1 DEF Expire, TypeOK
    <2>4. (overrun => overrun') /\ (lapsed => lapsed')
        BY <1>1 DEF Expire
    <2>2. ASSUME NEW r \in Requests, ~overrun' PROVE pc[r] \notin Handling
        <3>1. SUFFICES ASSUME pc[r] \in Handling PROVE FALSE
            OBVIOUS
        <3>2. ~overrun
            BY <2>2, <2>4
        <3>3. slot = Marker(r)
            BY <3>1, <3>2 DEF SlotInv
        <3>4. slot.state = "in_flight" /\ slot.by = r
            BY <3>3, Distinct
        <3> QED BY <2>1, <2>2, <3>1, <3>4
    <2>3. ASSUME NEW r \in effects, ~overrun', ~lapsed' PROVE FALSE
        <3>1. ~overrun /\ ~lapsed /\ r \in Requests
            BY <2>3, <2>4 DEF TypeOK
        <3>2. slot = Response(r) \/ pc[r] \in Handling
            BY <3>1 DEF SlotInv, Handling
        <3>3. slot = Response(r)
            BY <2>2, <2>3, <3>1, <3>2
        <3>4. slot.state = "completed"
            BY <3>1, <3>3, Distinct
        <3> QED BY <2>1, <2>3, <3>4
    <2> QED BY <2>1, <2>2, <2>3, Distinct DEF SlotInv
<1>2. ASSUME NEW r \in Requests, Step(r) PROVE SlotInv'
    BY <1>2, SlotRequest
<1>3. CASE UNCHANGED vars
    BY <1>3 DEF vars, SlotInv
<1> QED BY <1>1, <1>2, <1>3 DEF Next

LEMMA ReplayStep == TypeOK /\ SlotInv /\ ReplayIsOwn /\ [Next]_vars => ReplayIsOwn'
<1> SUFFICES ASSUME TypeOK, SlotInv, ReplayIsOwn, [Next]_vars PROVE ReplayIsOwn'
    OBVIOUS
<1>1. effects \subseteq effects' /\ payload' = payload
    BY DEF Next, Step, Expire, Arrive, SetNX, GetNothing, GetRecord, Succeed,
           Fail, Complete, Release, Die, vars
<1>2. ASSUME NEW r \in Requests, NEW a \in Answers,
             answer' = [answer EXCEPT ![r] = a],
             a.kind = "replayed" => a.by \in effects /\ payload[a.by] = payload[r]
      PROVE  ReplayIsOwn'
    BY <1>1, <1>2 DEF ReplayIsOwn, TypeOK
<1>3. CASE answer' = answer
    BY <1>1, <1>3 DEF ReplayIsOwn
<1>4. ASSUME NEW r \in Requests, GetRecord(r) PROVE ReplayIsOwn'
    <2>1. slot.by \in Requests
        BY <1>4 DEF GetRecord, TypeOK, Slots, Empty
    <2> DEFINE a == IF payload[slot.by] # payload[r] THEN Says("mismatch")
                    ELSE IF slot.state = "in_flight" THEN Says("conflict")
                    ELSE [kind |-> "replayed", by |-> slot.by]
    <2>2. a \in Answers
        BY <2>1 DEF Answers, Says
    <2>3. a.kind = "replayed" => a.by = slot.by /\ payload[slot.by] = payload[r]
                                 /\ slot.state # "in_flight"
        BY DEF Says
    <2>4. slot.state # "in_flight" => slot.state = "completed"
        BY <1>4 DEF GetRecord, TypeOK, Slots, Empty
    <2>5. answer' = [answer EXCEPT ![r] = a]
        BY <1>4 DEF GetRecord, Reply
    <2> HIDE DEF a
    <2> QED BY <1>2, <2>2, <2>3, <2>4, <2>5 DEF SlotInv
<1>5. ASSUME NEW r \in Requests,
             GetNothing(r) \/ Complete(r) \/ Release(r)
      PROVE  ReplayIsOwn'
    <2>1. \/ answer' = answer
          \/ \E k \in {"conflict", "done", "failed"} :
                 answer' = [answer EXCEPT ![r] = Says(k)]
        BY <1>5 DEF GetNothing, Complete, Release, Reply
    <2>2. \A k \in {"conflict", "done", "failed"} :
              Says(k) \in Answers /\ Says(k).kind # "replayed"
        BY DEF Says, Answers
    <2> QED BY <1>2, <1>3, <2>1, <2>2
<1>6. ASSUME NEW r \in Requests,
             Arrive(r) \/ SetNX(r) \/ Succeed(r) \/ Fail(r) \/ Die(r)
      PROVE  ReplayIsOwn'
    BY <1>3, <1>6 DEF Arrive, SetNX, Succeed, Fail, Die
<1>7. CASE Expire \/ UNCHANGED vars
    BY <1>3, <1>7 DEF Expire, vars
<1> QED BY <1>4, <1>5, <1>6, <1>7 DEF Next, Step

IInv == TypeOK /\ SlotInv /\ ReplayIsOwn

LEMMA InvInit == Init => IInv
    BY TypeInit, SlotInit DEF IInv

LEMMA InvStep == IInv /\ [Next]_vars => IInv'
    BY TypeStep, SlotStep, ReplayStep DEF IInv

\* Whoever is at work holds the slot until an overrun, and whatever was
\* committed holds it until a lapse, for any number of requests.
THEOREM SlotIsHeld == Spec => []SlotInv
<1>1. IInv => SlotInv
    BY DEF IInv
<1> QED BY InvInit, InvStep, <1>1, PTL DEF Spec

\* SET NX and the two scripts let one request of a key work at a time, for any
\* number of requests, until a handler outlives its marker.
THEOREM OneRequestAtATime == Spec => []OneAtATime
<1>1. IInv => OneAtATime
    BY Distinct DEF IInv, SlotInv, OneAtATime
<1> QED BY InvInit, InvStep, <1>1, PTL DEF Spec

\* Any number of attempts with one key have one effect, but for the overruns and
\* lapses the interceptor's comment leaves to the database's unique keys.
THEOREM AtMostOneEffect == Spec => []EffectOnce
<1>1. ASSUME IInv PROVE EffectOnce
    <2> SUFFICES ASSUME ~overrun, ~lapsed, NEW q \in effects, NEW r \in effects
                 PROVE  q = r
        BY DEF EffectOnce
    <2>1. q \in Requests /\ r \in Requests
        BY <1>1 DEF IInv, TypeOK
    <2>2. /\ slot = Marker(q) \/ slot = Response(q)
          /\ slot = Marker(r) \/ slot = Response(r)
        BY <1>1 DEF IInv, SlotInv
    <2> QED BY <2>1, <2>2, Distinct
<1> QED BY InvInit, InvStep, <1>1, PTL DEF Spec

\* A replay is the response of a committed request with the same payload.
THEOREM ReplaysAreOwn == Spec => []ReplayIsOwn
<1>1. IInv => ReplayIsOwn
    BY DEF IInv
<1> QED BY InvInit, InvStep, <1>1, PTL DEF Spec

\* Compare-and-set by holder: only a request's own scripts and the clock replace
\* its marker, and only the clock its response, whoever else works on the key.
THEOREM MarkersAreNotClobbered == Spec => NotClobbered
<1> DEFINE Kept == \A r \in Requests :
               /\ slot = Marker(r) /\ slot' # slot =>
                      \/ slot' = Response(r) /\ pc[r] = "completing"
                      \/ slot' = Empty /\ (pc[r] = "releasing" \/ pc' = pc)
               /\ slot = Response(r) => slot' \in {slot, Empty}
<1>1. ASSUME [Next]_vars PROVE Kept
    <2>1. \/ slot' = slot
          \/ slot' = Empty /\ pc' = pc
          \/ \E q \in Requests : SetNX(q) \/ Complete(q) \/ Release(q)
        BY <1>1 DEF Next, Step, Expire, Arrive, GetNothing, GetRecord, Succeed,
                    Fail, Die, vars
    <2>2. CASE slot' = slot \/ (slot' = Empty /\ pc' = pc)
        BY <2>2
    <2>3. ASSUME NEW q \in Requests, SetNX(q) PROVE Kept
        <3>1. slot = Empty \/ slot' = slot
            BY <2>3 DEF SetNX
        <3> QED BY <3>1, Distinct
    <2>4. ASSUME NEW q \in Requests, Complete(q) PROVE Kept
        <3>1. /\ pc[q] = "completing"
              /\ slot' = slot \/ (slot \in {Empty, Marker(q)} /\ slot' = Response(q))
            BY <2>4 DEF Complete
        <3> QED BY <3>1, Distinct
    <2>5. ASSUME NEW q \in Requests, Release(q) PROVE Kept
        <3>1. /\ pc[q] = "releasing"
              /\ slot' = slot \/ (slot = Marker(q) /\ slot' = Empty)
            BY <2>5 DEF Release
        <3> QED BY <3>1, Distinct
    <2> QED BY <2>1, <2>2, <2>3, <2>4, <2>5
<1> QED BY <1>1, PTL DEF Spec, NotClobbered
=============================================================================
