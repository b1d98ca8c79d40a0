---------------------------- MODULE Idempotency ----------------------------
(***************************************************************************)
(* IdempotencyInterceptor: one Redis slot, the requests that name it.      *)
(*                                                                         *)
(* A request takes the slot with SET NX, runs its handler and leaves its   *)
(* response there for the retries; a failed one gives the slot back.  The  *)
(* marker and the response expire on their own, and both scripts only      *)
(* touch a marker that is still the caller's.                              *)
(*                                                                         *)
(* A slot is one tenant, method, path and client key, so slots do not      *)
(* meet.  A marker is named by its request, which is what the holder uuid  *)
(* does; a response is named by the request that stored it.                *)
(***************************************************************************)
EXTENDS Integers

CONSTANTS
    Requests,   \* every attempt of the client: double taps, replays, retries
    Payloads,   \* what the fingerprint tells apart
    None,       \* no request
    MaxTries    \* passes of acquire's loop

ASSUME IdempotencyAssumption ==
    /\ None \notin Requests
    /\ MaxTries \in Nat \ {0}

VARIABLES
    slot,      \* the record under the key: its state and whose it is
    pc,        \* where each request is
    payload,   \* what it asks for
    tries,     \* passes of acquire it has begun
    answer,    \* what the client was told
    effects,   \* the handlers that committed
    overrun,   \* a marker has expired under a handler still at work
    lapsed     \* a committed handler left no response, or it was forgotten

vars == <<slot, pc, payload, tries, answer, effects, overrun, lapsed>>

------------------------------------------------------------------------------
Handling == {"running", "completing", "releasing"}

Slots == [state : {"in_flight", "completed"}, by : Requests]
             \cup {[state |-> "empty", by |-> None]}

Empty        == [state |-> "empty", by |-> None]
Marker(r)    == [state |-> "in_flight", by |-> r]
Response(r)  == [state |-> "completed", by |-> r]

Answers == [kind : {"none", "done", "failed", "conflict", "mismatch"},
            by : {None}]
               \cup [kind : {"replayed"}, by : Requests]

Says(kind) == [kind |-> kind, by |-> None]

Reply(r, a) ==
    /\ answer' = [answer EXCEPT ![r] = a]
    /\ pc' = [pc EXCEPT ![r] = "answered"]

Init ==
    /\ slot = Empty
    /\ pc = [r \in Requests |-> "new"]
    /\ payload \in [Requests -> Payloads]
    /\ tries = [r \in Requests |-> 0]
    /\ answer = [r \in Requests |-> Says("none")]
    /\ effects = {}
    /\ overrun = FALSE
    /\ lapsed = FALSE

------------------------------------------------------------------------------
(* acquire *)

\* The request arrives, or acquire begins another pass.
Arrive(r) ==
    /\ pc[r] = "new"
    /\ pc' = [pc EXCEPT ![r] = "setting"]
    /\ tries' = [tries EXCEPT ![r] = 1]
    /\ UNCHANGED <<slot, payload, answer, effects, overrun, lapsed>>

\* Mutant: SET without NX.
SetAlways(r) ==
    /\ pc[r] = "setting"
    /\ slot' = Marker(r)
    /\ pc' = [pc EXCEPT ![r] = "running"]
    /\ UNCHANGED <<payload, tries, answer, effects, overrun, lapsed>>

\* SET NX: the winner goes on to the handler.
SetNX(r) ==
    /\ pc[r] = "setting"
    /\ IF slot = Empty
       THEN slot' = Marker(r) /\ pc' = [pc EXCEPT ![r] = "running"]
       ELSE pc' = [pc EXCEPT ![r] = "getting"] /\ UNCHANGED slot
    /\ UNCHANGED <<payload, tries, answer, effects, overrun, lapsed>>

\* Mutant: a slot found empty on the last pass is taken for one that was won.
GetNothingWins(r) ==
    /\ pc[r] = "getting"
    /\ slot = Empty
    /\ pc' = [pc EXCEPT ![r] = "running"]
    /\ UNCHANGED <<slot, payload, tries, answer, effects, overrun, lapsed>>

\* The record expired between SET NX and GET: once more, then report a conflict.
GetNothing(r) ==
    /\ pc[r] = "getting"
    /\ slot = Empty
    /\ \/ /\ tries[r] < MaxTries
          /\ pc' = [pc EXCEPT ![r] = "setting"]
          /\ tries' = [tries EXCEPT ![r] = @ + 1]
          /\ UNCHANGED answer
       \/ /\ tries[r] >= MaxTries
          /\ Reply(r, Says("conflict"))
          /\ UNCHANGED tries
    /\ UNCHANGED <<slot, payload, effects, overrun, lapsed>>

\* Mutant: the state is looked at before the fingerprint.
GetAnyRecord(r) ==
    /\ pc[r] = "getting"
    /\ slot # Empty
    /\ Reply(r, IF slot.state = "in_flight" THEN Says("conflict")
                ELSE [kind |-> "replayed", by |-> slot.by])
    /\ UNCHANGED <<slot, payload, tries, effects, overrun, lapsed>>

\* The record is read: another payload, a request still at work, or a response.
GetRecord(r) ==
    /\ pc[r] = "getting"
    /\ slot # Empty
    /\ Reply(r, IF payload[slot.by] # payload[r] THEN Says("mismatch")
                ELSE IF slot.state = "in_flight" THEN Says("conflict")
                ELSE [kind |-> "replayed", by |-> slot.by])
    /\ UNCHANGED <<slot, payload, tries, effects, overrun, lapsed>>

------------------------------------------------------------------------------
(* The handler, complete and release *)

\* External: the handler commits and returns a body.
Succeed(r) ==
    /\ pc[r] = "running"
    /\ effects' = effects \cup {r}
    /\ pc' = [pc EXCEPT ![r] = "completing"]
    /\ UNCHANGED <<slot, payload, tries, answer, overrun, lapsed>>

\* External: the handler throws, before or after something of it was committed.
Fail(r) ==
    /\ pc[r] = "running"
    /\ \/ UNCHANGED <<effects, lapsed>>
       \/ effects' = effects \cup {r} /\ lapsed' = TRUE
    /\ pc' = [pc EXCEPT ![r] = "releasing"]
    /\ UNCHANGED <<slot, payload, tries, answer, overrun>>

\* Mutant: the response is stored whoever holds the slot.
CompleteAlways(r) ==
    /\ pc[r] = "completing"
    /\ slot' = Response(r)
    /\ UNCHANGED lapsed
    /\ Reply(r, Says("done"))
    /\ UNCHANGED <<payload, tries, effects, overrun>>

\* COMPLETE_SCRIPT: the response is stored unless someone else holds the slot,
\* or Redis fails; the client hears of success in any case.
Complete(r) ==
    /\ pc[r] = "completing"
    /\ \/ slot \in {Empty, Marker(r)} /\ slot' = Response(r) /\ UNCHANGED lapsed
       \/ slot \notin {Empty, Marker(r)} /\ UNCHANGED <<slot, lapsed>>
       \/ UNCHANGED slot /\ lapsed' = TRUE
    /\ Reply(r, Says("done"))
    /\ UNCHANGED <<payload, tries, effects, overrun>>

\* RELEASE_SCRIPT: the marker goes only if it is still ours; Redis may fail.
Release(r) ==
    /\ pc[r] = "releasing"
    /\ \/ slot' = IF slot = Marker(r) THEN Empty ELSE slot
       \/ UNCHANGED slot
    /\ Reply(r, Says("failed"))
    /\ UNCHANGED <<payload, tries, effects, overrun, lapsed>>

------------------------------------------------------------------------------
(* Expiry and crashes *)

\* Mutant: the marker is set without its TTL.
ExpireCompletedOnly ==
    /\ slot.state = "completed"
    /\ slot' = Empty
    /\ lapsed' = TRUE
    /\ UNCHANGED <<pc, payload, tries, answer, effects, overrun>>

\* IN_FLIGHT_TTL_SECONDS or COMPLETED_TTL_SECONDS are over.
Expire ==
    /\ slot # Empty
    /\ slot' = Empty
    /\ overrun' = (overrun \/ (slot.state = "in_flight" /\ pc[slot.by] \in Handling))
    /\ lapsed' = (lapsed \/ slot.state = "completed")
    /\ UNCHANGED <<pc, payload, tries, answer, effects>>

\* The task is killed; what the handler committed stays.
Die(r) ==
    /\ pc[r] \in Handling
    /\ pc' = [pc EXCEPT ![r] = "dead"]
    /\ lapsed' = (lapsed \/ pc[r] = "completing")
    /\ UNCHANGED <<slot, payload, tries, answer, effects, overrun>>

Step(r) ==
    \/ Arrive(r)
    \/ SetNX(r) \/ GetNothing(r) \/ GetRecord(r)
    \/ Succeed(r) \/ Fail(r) \/ Complete(r) \/ Release(r)
    \/ Die(r)

Next == Expire \/ \E r \in Requests : Step(r)

Spec == Init /\ [][Next]_vars

Answering(r) == \/ SetNX(r) \/ GetNothing(r) \/ GetRecord(r)
                \/ Succeed(r) \/ Fail(r) \/ Complete(r) \/ Release(r)

\* Redis expires what has a TTL, and a request that is not killed goes on.
Fairness == WF_vars(Expire) /\ \A r \in Requests : WF_vars(Answering(r))

FairSpec == Spec /\ Fairness

------------------------------------------------------------------------------
(* Properties *)

\* Every variable keeps its type; acquire never begins more than its passes.
TypeOK ==
    /\ slot \in Slots
    /\ pc \in [Requests -> {"new", "setting", "getting", "answered", "dead"}
                               \cup Handling]
    /\ payload \in [Requests -> Payloads]
    /\ tries \in [Requests -> 0..MaxTries]
    /\ answer \in [Requests -> Answers]
    /\ effects \subseteq Requests
    /\ overrun \in BOOLEAN
    /\ lapsed \in BOOLEAN

\* acquire and RELEASE_SCRIPT: until a handler outlives its marker, at most one
\* of the requests with a key is at work, however often it is sent, killed or
\* released.
OneAtATime ==
    ~overrun =>
        \A q, r \in Requests : pc[q] \in Handling /\ pc[r] \in Handling => q = r

\* The purpose of the interceptor: a double tap, a replay or a redelivery has
\* one effect, until a handler outlives its marker, commits and leaves no
\* response, or the response is forgotten after its day.
EffectOnce ==
    ~overrun /\ ~lapsed => \A q, r \in effects : q = r

\* A replayed response is that of a committed request with the same payload,
\* also after markers and responses have expired and been taken by others.
ReplayIsOwn ==
    \A r \in Requests :
        answer[r].kind = "replayed" =>
            /\ answer[r].by \in effects
            /\ payload[answer[r].by] = payload[r]

\* COMPLETE_SCRIPT and RELEASE_SCRIPT: a marker in flight gives way to the
\* response or the release of its own request, or to time; a response only to
\* time.  Nobody touches what has become another caller's.
NotClobbered ==
    [][\A r \in Requests :
          /\ slot = Marker(r) /\ slot' # slot =>
                 \/ slot' = Response(r) /\ pc[r] = "completing"
                 \/ slot' = Empty /\ (pc[r] = "releasing" \/ pc' = pc)
          /\ slot = Response(r) => slot' \in {slot, Empty}]_vars

\* A request that is killed or loses Redis does not block its retry for ever.
KeyComesBack ==
    \A r \in Requests : slot = Marker(r) ~> slot # Marker(r)

\* What the scripts rely on: until an overrun, whoever is at work holds the
\* slot, and until a lapse whatever was committed still holds it.
SlotInv ==
    /\ ~overrun => \A r \in Requests : pc[r] \in Handling => slot = Marker(r)
    /\ ~overrun /\ ~lapsed =>
         \A r \in effects : \/ slot = Marker(r) /\ pc[r] = "completing"
                            \/ slot = Response(r)
    /\ slot.state = "completed" => slot.by \in effects
    /\ \A r \in Requests : pc[r] = "completing" => r \in effects
=============================================================================
