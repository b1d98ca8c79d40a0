------------------------------ MODULE Sessions ------------------------------
(***************************************************************************)
(* One login: the family of refresh tokens that TokenService hands out.    *)
(*                                                                         *)
(* A refresh claims the presented row, resolves the subject's authority    *)
(* again, mints the successor and parks the new pair in Redis for the      *)
(* other tabs that presented the same token; a request that lost the claim *)
(* waits for that pair, and burns the family if there is none.  Logout,    *)
(* suspension and the admin console's windows end the family.              *)
(*                                                                         *)
(* Tokens are numbered in the order they are minted.  The tabs of a login  *)
(* share one cookie jar.  Access tokens, the fleet binding and the audit   *)
(* trail are left out.                                                     *)
(***************************************************************************)
EXTENDS Integers

CONSTANTS
    Tabs,             \* clients of the login, sharing its refresh token
    Realms,           \* auth realms
    Limited,          \* the realms that declare session windows
    Routes,           \* the realms each refresh endpoint accepts
    IdleLimit,        \* RealmSessionLimits.idleMs, in ticks
    AbsoluteLimit,    \* RealmSessionLimits.absoluteMs, in ticks
    RefreshTtl,       \* JWT_REFRESH_TTL_SECONDS, in ticks
    MaxTokens,        \* bound on the length of the chain
    MaxTime,          \* bound on the clock
    Deaths,           \* the phases of a rotation in which its task may be killed
    GraceFails,       \* whether Redis may fail, or a mint outlast WAIT_MS
    AnswersGetLost,   \* whether the new pair may not reach the browser
    LogoutRaces       \* whether logout may run beside a rotation

Rotating == {"claimed", "minting"}
Working  == Rotating \cup {"parking"}

ASSUME SessionsAssumption ==
    /\ Limited \subseteq Realms
    /\ Routes \subseteq SUBSET Realms
    /\ {IdleLimit, AbsoluteLimit, RefreshTtl, MaxTime} \subseteq Nat
    /\ MaxTokens \in Nat \ {0}
    /\ Deaths \subseteq Working
    /\ {GraceFails, AnswersGetLost, LogoutRaces} \subseteq BOOLEAN

VARIABLES
    realm,      \* refresh_tokens.realm of the family
    row,        \* refresh_tokens: created_at, rotated_at set, revoked_reason
    minted,     \* how many rows the family has
    parked,     \* auth:refresh:grace:*, the pair parked for a presented token
    jar,        \* the refresh token the client holds
    request,    \* the refresh each tab has in flight
    active,     \* whether RealmPolicy.resolve lets the subject hold a session
    suspending, \* a suspension is committed and its revokeSubject is to come
    late,       \* pairs minted since the subject lost its authority
    loggedOut,  \* logout has returned
    faulted,    \* a task was killed, the grace failed or a pair was never seen
    now         \* the clock

vars == <<realm, row, minted, parked, jar, request, active, suspending, late,
          loggedOut, faulted, now>>

------------------------------------------------------------------------------
(* Types and helpers *)

Tokens == 1..MaxTokens

Row == [born : 0..MaxTime, rotated : BOOLEAN,
        revoked : {"no", "ended", "reuse"}]

Requests == [pc : {"idle", "sent", "lost", "explaining"} \cup Working,
             token : Tokens, route : Routes \cup {{}}]

Idle == [pc |-> "idle", token |-> 1, route |-> {}]

FreshRow(t) == [born |-> t, rotated |-> FALSE, revoked |-> "no"]

InFlight(c) == request[c].pc # "idle"

\* The claim's row: neither rotated nor revoked.
Live(n) == n <= minted /\ ~row[n].rotated /\ row[n].revoked = "no"

\* expires_at, and sessionWindowPredicate: updated_at and created_at of a row
\* that was never rotated are both the moment it was minted.
WithinWindows(n) ==
    /\ row[n].born > now - RefreshTtl
    /\ realm \in Limited => /\ row[n].born > now - IdleLimit
                            /\ row[n].born > now - AbsoluteLimit

\* revokeFamily: every row that is not revoked yet.
RevokeFamily(reason) ==
    row' = [n \in Tokens |->
              IF n <= minted /\ row[n].revoked = "no"
              THEN [row[n] EXCEPT !.revoked = reason] ELSE row[n]]

Goto(c, pc) == request' = [request EXCEPT ![c].pc = pc]
Done(c)     == request' = [request EXCEPT ![c] = Idle]

Init ==
    /\ realm \in Realms
    /\ row = [n \in Tokens |-> FreshRow(0)]
    /\ minted = 1
    /\ parked = [n \in Tokens |-> 0]
    /\ jar = 1
    /\ request = [c \in Tabs |-> Idle]
    /\ active = TRUE
    /\ suspending = FALSE
    /\ late = 0
    /\ loggedOut = FALSE
    /\ faulted = FALSE
    /\ now = 0

------------------------------------------------------------------------------
(* A refresh *)

\* A tab whose access token has expired presents the login's refresh token.  The
\* pair of an earlier rotation outlives every request that shared in it.
Present(c, route) ==
    /\ ~InFlight(c)
    /\ \A d \in Tabs : InFlight(d) => request[d].token = jar
    /\ request' = [request EXCEPT ![c] =
                     [pc |-> "sent", token |-> jar, route |-> route]]
    /\ UNCHANGED <<realm, row, minted, parked, jar, active, suspending, late,
                   loggedOut, faulted, now>>

\* Mutant: SELECT, then UPDATE by id.
ClaimAnyUnrevoked(c) ==
    LET n == request[c].token IN
    /\ request[c].pc = "sent"
    /\ IF row[n].revoked = "no" /\ realm \in request[c].route /\ WithinWindows(n)
       THEN /\ row' = [row EXCEPT ![n].rotated = TRUE]
            /\ Goto(c, "claimed")
       ELSE /\ Goto(c, "lost")
            /\ UNCHANGED row
    /\ UNCHANGED <<realm, minted, parked, jar, active, suspending, late,
                   loggedOut, faulted, now>>

\* rotate: the conditional UPDATE, which one request wins.
Claim(c) ==
    LET n == request[c].token IN
    /\ request[c].pc = "sent"
    /\ IF Live(n) /\ realm \in request[c].route /\ WithinWindows(n)
       THEN /\ row' = [row EXCEPT ![n].rotated = TRUE]
            /\ Goto(c, "claimed")
       ELSE /\ Goto(c, "lost")
            /\ UNCHANGED row
    /\ UNCHANGED <<realm, minted, parked, jar, active, suspending, late,
                   loggedOut, faulted, now>>

\* Mutant: the claims are copied off the row.
ResolveFromRow(c) ==
    /\ request[c].pc = "claimed"
    /\ Goto(c, "minting")
    /\ UNCHANGED row
    /\ UNCHANGED <<realm, minted, parked, jar, active, suspending, late,
                   loggedOut, faulted, now>>

\* policy.resolve on the current state; without authority the family is revoked.
Resolve(c) ==
    /\ request[c].pc = "claimed"
    /\ IF active
       THEN Goto(c, "minting") /\ UNCHANGED row
       ELSE RevokeFamily("ended") /\ Done(c)
    /\ UNCHANGED <<realm, minted, parked, jar, active, suspending, late,
                   loggedOut, faulted, now>>

\* mint: one INSERT, whatever has become of the family since the claim.
Mint(c) ==
    /\ request[c].pc = "minting"
    /\ minted < MaxTokens
    /\ minted' = minted + 1
    /\ row' = [row EXCEPT ![minted + 1] = FreshRow(now)]
    /\ late' = IF active THEN late ELSE late + 1
    /\ Goto(c, "parking")
    /\ UNCHANGED <<realm, parked, jar, active, suspending, loggedOut, faulted,
                   now>>

\* grace.remember, then the answer, which the browser may never see.
Park(c) ==
    /\ request[c].pc = "parking"
    /\ \/ /\ parked' = [parked EXCEPT ![request[c].token] = minted]
          /\ UNCHANGED faulted
       \/ GraceFails /\ faulted' = TRUE /\ UNCHANGED parked
    /\ \/ jar' = minted
       \/ AnswersGetLost /\ UNCHANGED jar
    /\ Done(c)
    /\ UNCHANGED <<realm, row, minted, active, suspending, late, loggedOut, now>>

\* grace.get finds a pair: it is replayed on a route of its realm only.
GraceFound(c) ==
    LET n == request[c].token IN
    /\ request[c].pc = "lost"
    /\ parked[n] # 0
    /\ IF realm \in request[c].route
       THEN jar' = parked[n] /\ Done(c)
       ELSE Goto(c, "explaining") /\ UNCHANGED jar
    /\ UNCHANGED <<realm, row, minted, parked, active, suspending, late,
                   loggedOut, faulted, now>>

\* Mutant: a single lookup, which the loser makes before the winner has parked.
GraceLooksOnce(c) ==
    /\ request[c].pc = "lost"
    /\ parked[request[c].token] = 0
    /\ UNCHANGED faulted
    /\ Goto(c, "explaining")
    /\ UNCHANGED <<realm, row, minted, parked, jar, active, suspending, late,
                   loggedOut, now>>

\* grace.get polls for WAIT_MS, longer than the winner needs to mint and park;
\* a failing Redis or a slower winner sends the loser on without a pair.
GraceMissed(c) ==
    LET n == request[c].token IN
    /\ request[c].pc = "lost"
    /\ \/ /\ parked[n] = 0
          /\ \A d \in Tabs : request[d].token = n => request[d].pc \notin Working
          /\ UNCHANGED faulted
       \/ GraceFails /\ faulted' = TRUE
    /\ Goto(c, "explaining")
    /\ UNCHANGED <<realm, row, minted, parked, jar, active, suspending, late,
                   loggedOut, now>>

\* explainFailedClaim, in the order of its branches.
ExplainFailedClaim(c) ==
    LET n == request[c].token IN
    /\ request[c].pc = "explaining"
    /\ IF realm \notin request[c].route THEN UNCHANGED row
       ELSE IF row[n].revoked # "no" THEN RevokeFamily("ended")
       ELSE IF row[n].rotated THEN RevokeFamily("reuse")
       ELSE IF realm \in Limited /\ \/ now - row[n].born > IdleLimit
                                    \/ now - row[n].born > AbsoluteLimit
            THEN RevokeFamily("ended")
            ELSE UNCHANGED row
    /\ Done(c)
    /\ UNCHANGED <<realm, minted, parked, jar, active, suspending, late,
                   loggedOut, faulted, now>>

------------------------------------------------------------------------------
(* The end of a session *)

\* Mutant: logout revokes the row of the presented token, and no descendant.
LogoutPresentedOnly ==
    /\ ~loggedOut
    /\ LogoutRaces \/ \A c \in Tabs : request[c].pc \notin Rotating
    /\ row' = [row EXCEPT ![jar].revoked = "ended"]
    /\ loggedOut' = TRUE
    /\ UNCHANGED <<realm, minted, parked, jar, request, active, suspending,
                   late, faulted, now>>

\* logout revokes the family of the presented token; a value it does not know,
\* or one of another realm, changes nothing.
Logout ==
    /\ ~loggedOut
    /\ LogoutRaces \/ \A c \in Tabs : request[c].pc \notin Rotating
    /\ RevokeFamily("ended")
    /\ loggedOut' = TRUE
    /\ UNCHANGED <<realm, minted, parked, jar, request, active, suspending,
                   late, faulted, now>>

\* A suspension: the status commits first, the sessions go after the commit.
Suspend ==
    /\ active
    /\ active' = FALSE
    /\ suspending' = TRUE
    /\ late' = 0
    /\ UNCHANGED <<realm, row, minted, parked, jar, request, loggedOut, faulted,
                   now>>

\* revokeSubject: every row of the subject in the realm.
RevokeSubject ==
    /\ suspending
    /\ RevokeFamily("ended")
    /\ suspending' = FALSE
    /\ UNCHANGED <<realm, minted, parked, jar, request, active, late, loggedOut,
                   faulted, now>>

Reactivate ==
    /\ ~active /\ ~suspending
    /\ active' = TRUE
    /\ UNCHANGED <<realm, row, minted, parked, jar, request, suspending, late,
                   loggedOut, faulted, now>>

------------------------------------------------------------------------------
(* Time and failures *)

\* A tick is minutes; no request lasts that long.
Tick ==
    /\ now < MaxTime
    /\ \A c \in Tabs : ~InFlight(c)
    /\ now' = now + 1
    /\ UNCHANGED <<realm, row, minted, parked, jar, request, active, suspending,
                   late, loggedOut, faulted>>

\* REFRESH_GRACE_SECONDS is longer than a request; a browser that still holds
\* the old token when the pair goes has not come back in time.
GraceExpires(n) ==
    /\ parked[n] # 0
    /\ \A c \in Tabs : InFlight(c) => request[c].token # n
    /\ parked' = [parked EXCEPT ![n] = 0]
    /\ faulted' = (faulted \/ jar = n)
    /\ UNCHANGED <<realm, row, minted, jar, request, active, suspending, late,
                   loggedOut, now>>

\* The task of a rotation is killed: what it still had to do is not done.
Death(c) ==
    /\ request[c].pc \in Deaths
    /\ Done(c)
    /\ faulted' = TRUE
    /\ UNCHANGED <<realm, row, minted, parked, jar, active, suspending, late,
                   loggedOut, now>>

------------------------------------------------------------------------------
TabStep(c) ==
    \/ \E route \in Routes : Present(c, route)
    \/ Claim(c) \/ Resolve(c) \/ Mint(c) \/ Park(c)
    \/ GraceFound(c) \/ GraceMissed(c) \/ ExplainFailedClaim(c)
    \/ Death(c)

Next ==
    \/ \E c \in Tabs : TabStep(c)
    \/ Logout \/ Suspend \/ RevokeSubject \/ Reactivate
    \/ Tick
    \/ \E n \in Tokens : GraceExpires(n)

Spec == Init /\ [][Next]_vars

------------------------------------------------------------------------------
(* Properties *)

\* Every variable keeps its type.
TypeOK ==
    /\ realm \in Realms
    /\ row \in [Tokens -> Row]
    /\ minted \in Tokens
    /\ parked \in [Tokens -> 0..MaxTokens]
    /\ jar \in Tokens
    /\ request \in [Tabs -> Requests]
    /\ active \in BOOLEAN /\ suspending \in BOOLEAN
    /\ loggedOut \in BOOLEAN /\ faulted \in BOOLEAN
    /\ late \in Nat
    /\ now \in 0..MaxTime

\* rotate: however many tabs present however many values, at most one token of
\* the login can be rotated, and none while a rotation is under way.
OneLiveToken ==
    /\ \A m, n \in 1..minted : Live(m) /\ Live(n) => m = n
    /\ \A c \in Tabs, n \in 1..minted : request[c].pc \in Rotating => ~Live(n)

\* refresh-grace.service.ts: tabs that refresh together never burn the family;
\* reuse is only concluded once a task was killed, the grace failed, or the
\* browser came back with the old token after the window.
TogetherIsNotReuse ==
    (\E n \in 1..minted : row[n].revoked = "reuse") => faulted

\* realm.policy.ts, resolve: losing authority is immediate.  A rotation that
\* had resolved before the suspension may still mint its pair, and that is all.
SuspensionIsFinal == ~active => late <= 1

\* logout: no descendant of this login can be refreshed afterwards.
LogoutIsFinal ==
    loggedOut => \A n \in 1..minted : ~Live(n)

\* RealmSessionLimits.absoluteMs: no family outlives this from its first mint,
\* however active.
NoFamilyOutlivesCap ==
    realm \in Limited =>
        \A n \in 1..minted : row[n].born - row[1].born <= AbsoluteLimit

------------------------------------------------------------------------------
(* The inductive invariants behind the properties *)

\* At most one rotation is under way, and the requests in flight share a token.
OneRotation ==
    /\ \A c, d \in Tabs :
         request[c].pc \in Rotating /\ request[d].pc \in Rotating => c = d
    /\ \A c, d \in Tabs :
         InFlight(c) /\ InFlight(d) => request[c].token = request[d].token

\* The successor that a token in use would be answered with is the newest token,
\* and nobody has rotated it yet.
FreshSuccessor(n) ==
    parked[n] # 0 => parked[n] = minted /\ ~row[minted].rotated

\* A rotated token that is still in use has its successor parked or on the way,
\* or its family was ended on purpose.
Answered(n) ==
    \/ ~row[n].rotated
    \/ row[n].revoked # "no"
    \/ parked[n] # 0
    \/ \E d \in Tabs : request[d].token = n /\ request[d].pc \in Working

\* Nobody else is at work on a rotation that is still to be parked.
OneWorker ==
    \A c, d \in Tabs :
        request[c].pc \in Working /\ request[d].pc \in Working => c = d

\* The holder: what the jar and the parked pairs say of each other.
JarInv ==
    /\ jar <= minted
    /\ FreshSuccessor(jar)
    /\ Answered(jar)
    /\ \A n \in Tokens : parked[n] # 0 => n <= minted /\ row[n].rotated

\* What each request in flight may rely on.
RequestInv(c) ==
    LET n == request[c].token IN
    /\ n <= minted
    /\ FreshSuccessor(n)
    /\ Answered(n)
    /\ jar = n \/ (parked[n] # 0 /\ jar = parked[n])
    /\ request[c].pc \in Working => jar = n /\ parked[n] = 0 /\ row[n].rotated
    /\ request[c].pc = "parking" => n < minted /\ ~row[minted].rotated
    /\ realm \in request[c].route =>
         /\ request[c].pc \in {"lost", "explaining"} =>
                row[n].rotated \/ row[n].revoked # "no" \/ ~WithinWindows(n)
         /\ request[c].pc = "explaining" =>
                ~row[n].rotated \/ row[n].revoked # "no"

\* What every step of rotate, logout and revokeSubject preserves: one rotation
\* at a time, and, until something fails, an answer for every tab in flight.
SessionInv ==
    /\ OneRotation
    /\ ~faulted => /\ OneWorker
                   /\ JarInv
                   /\ \A c \in Tabs : InFlight(c) => RequestInv(c)
=============================================================================
