--------------------------- MODULE Sessions_proofs ---------------------------
(***************************************************************************)
(* Proofs about Sessions: types, one live token per login, the finality of *)
(* suspension and logout, and that tabs refreshing together never burn the *)
(* family, for any number of tabs, tokens, realms and ticks.               *)
(***************************************************************************)
EXTENDS Sessions, TLAPS

USE SessionsAssumption

------------------------------------------------------------------------------
(* Types *)

\* revokeFamily keeps the rows well typed and only ever sets the reason.
LEMMA RevokeFacts ==
    ASSUME TypeOK, NEW reason \in {"ended", "reuse"}, RevokeFamily(reason)
    PROVE  /\ row' \in [Tokens -> Row]
           /\ \A n \in Tokens :
                /\ row'[n].rotated = row[n].rotated
                /\ row'[n].born = row[n].born
                /\ n <= minted => row'[n].revoked # "no"
                /\ row[n].revoked # "no" => row'[n].revoked = row[n].revoked
                /\ row'[n].revoked = "reuse" =>
                       row[n].revoked = "reuse" \/ reason = "reuse"
    BY DEF TypeOK, RevokeFamily, Row, Tokens

LEMMA RequestFacts ==
    ASSUME TypeOK, NEW c \in Tabs
    PROVE  /\ request[c] \in Requests
           /\ request[c].token \in Tokens
           /\ request[c].route \in Routes \cup {{}}
    BY DEF TypeOK, Requests

LEMMA DoneType ==
    ASSUME TypeOK, NEW c \in Tabs, Done(c)
    PROVE  request' \in [Tabs -> Requests]
    BY DEF TypeOK, Done, Idle, Requests, Tokens

LEMMA GotoType ==
    ASSUME TypeOK, NEW c \in Tabs, NEW pc, Goto(c, pc),
           pc \in {"idle", "sent", "lost", "explaining"} \cup Working
    PROVE  request' \in [Tabs -> Requests]
    BY DEF TypeOK, Goto, Requests

LEMMA TypeInit == Init => TypeOK
<1> SUFFICES ASSUME Init PROVE TypeOK
    OBVIOUS
<1>1. MaxTokens \in Nat \ {0} /\ MaxTime \in Nat
    OBVIOUS
<1>2. row \in [Tokens -> Row]
    BY <1>1 DEF Init, FreshRow, Row
<1>3. request \in [Tabs -> Requests]
    BY <1>1 DEF Init, Idle, Requests, Tokens
<1>4. parked \in [Tokens -> 0..MaxTokens] /\ minted \in Tokens
      /\ jar \in Tokens /\ now \in 0..MaxTime /\ late \in Nat
    BY <1>1 DEF Init, Tokens
<1> QED BY <1>2, <1>3, <1>4 DEF Init, TypeOK

LEMMA TypeTab ==
    ASSUME TypeOK, NEW c \in Tabs, TabStep(c)
    PROVE  TypeOK'
<1>0. request[c].token \in Tokens
    BY RequestFacts
<1>1. ASSUME NEW route \in Routes, Present(c, route) PROVE TypeOK'
    BY <1>1 DEF Present, TypeOK, Requests
<1>2. CASE Claim(c)
    <2>1. request' \in [Tabs -> Requests]
        BY <1>2, GotoType DEF Claim, Working, Rotating
    <2>2. row' \in [Tokens -> Row]
        <3>1. CASE row' = [row EXCEPT ![request[c].token].rotated = TRUE]
            BY <1>0, <3>1 DEF TypeOK, Row
        <3>2. CASE row' = row
            BY <3>2 DEF TypeOK
        <3> QED BY <1>2, <3>1, <3>2 DEF Claim
    <2> QED BY <1>2, <2>1, <2>2 DEF Claim, TypeOK
<1>3. CASE Resolve(c)
    <2>1. request' \in [Tabs -> Requests]
        BY <1>3, GotoType, DoneType DEF Resolve, Working, Rotating
    <2>2. row' \in [Tokens -> Row]
        BY <1>3, RevokeFacts DEF Resolve, TypeOK
    <2> QED BY <1>3, <2>1, <2>2 DEF Resolve, TypeOK
<1>4. CASE Mint(c)
    <2>1. request' \in [Tabs -> Requests]
        BY <1>4, GotoType DEF Mint, Working, Rotating
    <2>2. row' \in [Tokens -> Row] /\ minted' \in Tokens /\ late' \in Nat
        BY <1>4 DEF Mint, TypeOK, Row, FreshRow, Tokens
    <2> QED BY <1>4, <2>1, <2>2 DEF Mint, TypeOK
<1>5. CASE Park(c)
    <2>1. request' \in [Tabs -> Requests]
        BY <1>5, DoneType DEF Park
    <2>2. jar' \in Tokens
        BY <1>5 DEF Park, TypeOK
    <2>4. parked' \in [Tokens -> 0..MaxTokens]
        <3>1. minted \in 0..MaxTokens
            BY DEF TypeOK, Tokens
        <3>2. CASE parked' = [parked EXCEPT ![request[c].token] = minted]
            BY <1>0, <3>1, <3>2 DEF TypeOK
        <3>3. CASE parked' = parked
            BY <3>3 DEF TypeOK
        <3> QED BY <1>5, <3>2, <3>3 DEF Park
    <2>3. faulted' \in BOOLEAN
        BY <1>5 DEF Park, TypeOK
    <2> QED BY <1>5, <2>1, <2>2, <2>3, <2>4 DEF Park, TypeOK
<1>6. CASE GraceFound(c)
    <2>1. request' \in [Tabs -> Requests]
        BY <1>6, GotoType, DoneType DEF GraceFound
    <2>2. jar' \in Tokens
        BY <1>6, RequestFacts DEF GraceFound, TypeOK, Tokens
    <2> QED BY <1>6, <2>1, <2>2 DEF GraceFound, TypeOK
<1>7. CASE GraceMissed(c)
    <2>1. request' \in [Tabs -> Requests]
        BY <1>7, GotoType DEF GraceMissed
    <2>2. faulted' \in BOOLEAN
        BY <1>7 DEF GraceMissed, TypeOK
    <2> QED BY <1>7, <2>1, <2>2 DEF GraceMissed, TypeOK
<1>8. CASE ExplainFailedClaim(c)
    <2>1. request' \in [Tabs -> Requests]
        BY <1>8, DoneType DEF ExplainFailedClaim
    <2>2. row' \in [Tokens -> Row]
        BY <1>8, RevokeFacts DEF ExplainFailedClaim, TypeOK
    <2> QED BY <1>8, <2>1, <2>2 DEF ExplainFailedClaim, TypeOK
<1>9. CASE Death(c)
    <2>1. request' \in [Tabs -> Requests]
        BY <1>9, DoneType DEF Death
    <2> QED BY <1>9, <2>1 DEF Death, TypeOK
<1> QED BY <1>1, <1>2, <1>3, <1>4, <1>5, <1>6, <1>7, <1>8, <1>9 DEF TabStep

LEMMA TypeStep == TypeOK /\ [Next]_vars => TypeOK'
<1> SUFFICES ASSUME TypeOK, [Next]_vars PROVE TypeOK'
    OBVIOUS
<1>1. ASSUME NEW c \in Tabs, TabStep(c) PROVE TypeOK'
    BY <1>1, TypeTab
<1>2. CASE Logout
    BY <1>2, RevokeFacts DEF Logout, TypeOK
<1>3. CASE Suspend
    BY <1>3 DEF Suspend, TypeOK
<1>4. CASE RevokeSubject
    BY <1>4, RevokeFacts DEF RevokeSubject, TypeOK
<1>5. CASE Reactivate
    BY <1>5 DEF Reactivate, TypeOK
<1>6. CASE Tick
    BY <1>6 DEF Tick, TypeOK
<1>7. ASSUME NEW n \in Tokens, GraceExpires(n) PROVE TypeOK'
    <2>1. faulted' \in BOOLEAN
        BY <1>7 DEF GraceExpires, TypeOK
    <2>2. parked' \in [Tokens -> 0..MaxTokens]
        BY <1>7 DEF GraceExpires, TypeOK
    <2> QED BY <1>7, <2>1, <2>2 DEF GraceExpires, TypeOK
<1>8. CASE UNCHANGED vars
    BY <1>8 DEF vars, TypeOK
<1> QED BY <1>1, <1>2, <1>3, <1>4, <1>5, <1>6, <1>7, <1>8 DEF Next

\* Every variable of a login keeps its type, for any tabs, realms, routes,
\* limits and faults of rotate, the grace window, logout and suspension.
THEOREM SessionsTypeCorrect == Spec => []TypeOK
    BY TypeInit, TypeStep, PTL DEF Spec

------------------------------------------------------------------------------
(* One live token *)

Chain == OneLiveToken /\ OneRotation

\* A step that mints nothing, brings no row back to life, starts no rotation and
\* sends no request keeps the chain.
LEMMA ChainKept ==
    ASSUME TypeOK, Chain, minted' = minted,
           \A n \in 1..minted : Live(n)' => Live(n),
           \A c \in Tabs : /\ request'[c].pc \in Rotating =>
                                  request[c].pc \in Rotating
                           /\ InFlight(c)' => /\ InFlight(c)
                                              /\ request'[c].token = request[c].token
    PROVE  Chain'
    BY DEF Chain, OneLiveToken, OneRotation, TypeOK, Tokens

\* The request record after Goto and Done.
LEMMA GotoFacts ==
    ASSUME TypeOK, NEW c \in Tabs, NEW pc, Goto(c, pc)
    PROVE  /\ request'[c].pc = pc
           /\ request'[c].token = request[c].token
           /\ request'[c].route = request[c].route
           /\ \A d \in Tabs : d # c => request'[d] = request[d]
    BY DEF TypeOK, Goto, Requests

LEMMA DoneFacts ==
    ASSUME TypeOK, NEW c \in Tabs, Done(c)
    PROVE  /\ request'[c].pc = "idle"
           /\ \A d \in Tabs : d # c => request'[d] = request[d]
    BY DEF TypeOK, Done, Idle

LEMMA RevokedDead ==
    ASSUME TypeOK, NEW reason \in {"ended", "reuse"}, RevokeFamily(reason),
           minted' = minted
    PROVE  \A n \in 1..minted : ~Live(n)'
<1> SUFFICES ASSUME NEW n \in 1..minted PROVE row'[n].revoked # "no"
    BY DEF Live
<1>1. n \in Tokens /\ n <= minted
    BY DEF TypeOK, Tokens
<1> QED BY <1>1, RevokeFacts

LEMMA ChainInit == Init => Chain
    BY DEF Init, Chain, OneLiveToken, OneRotation, Live, Idle, Rotating, InFlight

LEMMA ChainTab ==
    ASSUME TypeOK, Chain, NEW c \in Tabs, TabStep(c)
    PROVE  Chain'
<1> USE DEF Rotating, Working
<1>0. request[c].token \in Tokens /\ minted \in Tokens
    BY RequestFacts DEF TypeOK
<1>1. ASSUME NEW route \in Routes, Present(c, route) PROVE Chain'
    <2>1. /\ request'[c].pc = "sent" /\ request'[c].token = jar
          /\ \A d \in Tabs : d # c => request'[d] = request[d]
        BY <1>1 DEF Present, TypeOK
    <2>2. OneRotation'
        BY <1>1, <2>1 DEF Present, Chain, OneRotation, InFlight
    <2>3. OneLiveToken'
        BY <1>1, <2>1 DEF Present, Chain, OneLiveToken, Live
    <2> QED BY <2>2, <2>3 DEF Chain
<1>2. CASE Claim(c)
    <2> DEFINE n == request[c].token
    <2>1. CASE Live(n) /\ row' = [row EXCEPT ![n].rotated = TRUE]
               /\ Goto(c, "claimed")
        <3>1. \A m \in 1..minted : ~Live(m)'
            BY <1>0, <1>2, <2>1 DEF Claim, Live, Chain, OneLiveToken, TypeOK,
               Row, Tokens
        <3>2. \A d \in Tabs : d # c => request[d].pc \notin Rotating
            BY <1>0, <2>1 DEF Live, Chain, OneLiveToken, Tokens
        <3>3. OneRotation'
            BY <1>2, <2>1, <3>2, GotoFacts DEF Claim, Chain, OneRotation,
               InFlight
        <3> QED BY <3>1, <3>3, <1>2 DEF Claim, Chain, OneLiveToken
    <2>2. CASE Goto(c, "lost") /\ row' = row
        BY <1>2, <2>2, GotoFacts, ChainKept DEF Claim, Live, InFlight
    <2> QED BY <1>2, <2>1, <2>2 DEF Claim
<1>3. CASE Resolve(c)
    <2>1. CASE active
        BY <1>3, <2>1, GotoFacts, ChainKept DEF Resolve, Live, InFlight
    <2>2. CASE ~active
        <3>1. \A m \in 1..minted : ~Live(m)'
            BY <1>3, <2>2, RevokedDead DEF Resolve
        <3> QED BY <1>3, <2>2, <3>1, DoneFacts, ChainKept DEF Resolve, InFlight
    <2> QED BY <2>1, <2>2 DEF TypeOK
<1>4. CASE Mint(c)
    <2>1. \A m \in 1..minted : ~Live(m)
        BY <1>4 DEF Mint, Chain, OneLiveToken
    <2>2. \A m \in 1..minted' : Live(m)' => m = minted'
        BY <1>0, <1>4, <2>1 DEF Mint, Live, TypeOK, Tokens
    <2>3. \A d \in Tabs : request'[d].pc \notin Rotating
        BY <1>4, GotoFacts DEF Mint, Chain, OneRotation
    <2>4. OneRotation'
        BY <1>4, <2>3, GotoFacts DEF Mint, Chain, OneRotation, InFlight
    <2> QED BY <2>2, <2>3, <2>4 DEF Chain, OneLiveToken
<1>5. CASE Park(c)
    BY <1>5, DoneFacts, ChainKept DEF Park, Live, InFlight
<1>6. CASE GraceFound(c)
    BY <1>6, DoneFacts, GotoFacts, ChainKept DEF GraceFound, Live, InFlight
<1>7. CASE GraceMissed(c)
    BY <1>7, GotoFacts, ChainKept DEF GraceMissed, Live, InFlight
<1>8. CASE ExplainFailedClaim(c)
    <2>1. \A m \in 1..minted : Live(m)' => Live(m)
        <3>1. CASE row' = row
            BY <1>8, <3>1 DEF ExplainFailedClaim, Live
        <3>2. ASSUME NEW reason \in {"ended", "reuse"}, RevokeFamily(reason)
              PROVE  \A m \in 1..minted : Live(m)' => Live(m)
            BY <1>8, <3>2, RevokedDead DEF ExplainFailedClaim
        <3> QED BY <1>8, <3>1, <3>2 DEF ExplainFailedClaim
    <2> QED BY <1>8, <2>1, DoneFacts, ChainKept DEF ExplainFailedClaim, InFlight
<1>9. CASE Death(c)
    BY <1>9, DoneFacts, ChainKept DEF Death, Live, InFlight
<1> QED BY <1>1, <1>2, <1>3, <1>4, <1>5, <1>6, <1>7, <1>8, <1>9 DEF TabStep

LEMMA ChainStep == TypeOK /\ Chain /\ [Next]_vars => Chain'
<1> SUFFICES ASSUME TypeOK, Chain, [Next]_vars PROVE Chain'
    OBVIOUS
<1>1. ASSUME NEW c \in Tabs, TabStep(c) PROVE Chain'
    BY <1>1, ChainTab
<1>2. CASE Logout \/ RevokeSubject
    <2>1. \A m \in 1..minted : ~Live(m)'
        BY <1>2, RevokedDead DEF Logout, RevokeSubject
    <2> QED BY <1>2, <2>1, ChainKept DEF Logout, RevokeSubject, InFlight
<1>3. CASE Suspend \/ Reactivate \/ Tick
    BY <1>3, ChainKept DEF Suspend, Reactivate, Tick, Live, InFlight
<1>4. ASSUME NEW n \in Tokens, GraceExpires(n) PROVE Chain'
    BY <1>4, ChainKept DEF GraceExpires, Live, InFlight
<1>5. CASE UNCHANGED vars
    BY <1>5, ChainKept DEF vars, Live, InFlight
<1> QED BY <1>1, <1>2, <1>3, <1>4, <1>5 DEF Next

\* rotate's conditional UPDATE leaves a login at most one token that can be
\* rotated, whatever tabs, retries, killed tasks, logouts and suspensions do.
THEOREM OneLiveTokenPerLogin == Spec => []OneLiveToken
<1>1. Init => TypeOK /\ Chain
    BY TypeInit, ChainInit
<1>2. TypeOK /\ Chain /\ [Next]_vars => (TypeOK /\ Chain)'
    BY TypeStep, ChainStep
<1>3. Chain => OneLiveToken
    BY DEF Chain
<1> QED BY <1>1, <1>2, <1>3, PTL DEF Spec

------------------------------------------------------------------------------
(* Suspension *)

\* While the subject has no authority, only a rotation that had resolved before
\* may mint, and it is the only one.
LateInv ==
    ~active => /\ late <= 1
               /\ \A c \in Tabs : request[c].pc = "minting" => late = 0

LEMMA LateStep == TypeOK /\ Chain /\ LateInv /\ [Next]_vars => LateInv'
<1> SUFFICES ASSUME TypeOK, Chain, LateInv, [Next]_vars PROVE LateInv'
    OBVIOUS
<1> USE DEF Rotating, Working
<1>1. ASSUME NEW c \in Tabs, Mint(c) PROVE LateInv'
    <2>1. \A d \in Tabs : request'[d].pc # "minting"
        BY <1>1, GotoFacts DEF Mint, Chain, OneRotation
    <2> QED BY <1>1, <2>1 DEF Mint, LateInv, TypeOK
<1>2. ASSUME NEW c \in Tabs, Resolve(c) PROVE LateInv'
    <2>1. CASE active
        BY <1>2, <2>1 DEF Resolve, LateInv
    <2>2. CASE ~active
        BY <1>2, <2>2, DoneFacts DEF Resolve, LateInv
    <2> QED BY <2>1, <2>2 DEF TypeOK
<1>3. CASE Suspend
    BY <1>3 DEF Suspend, LateInv
<1>4. ASSUME active' = active, late' = late,
             \A c \in Tabs : request'[c].pc = "minting" =>
                                 request[c].pc = "minting"
      PROVE  LateInv'
    BY <1>4 DEF LateInv
<1>5. ASSUME NEW c \in Tabs, NEW route \in Routes, Present(c, route)
      PROVE  LateInv'
    BY <1>4, <1>5 DEF Present, TypeOK
<1>6. ASSUME NEW c \in Tabs, \/ Claim(c) \/ Park(c) \/ GraceFound(c)
                             \/ GraceMissed(c) \/ ExplainFailedClaim(c) \/ Death(c)
      PROVE  LateInv'
    BY <1>4, <1>6, GotoFacts, DoneFacts
       DEF Claim, Park, GraceFound, GraceMissed, ExplainFailedClaim, Death
<1>7. CASE Logout \/ RevokeSubject \/ Tick \/ \E n \in Tokens : GraceExpires(n)
    BY <1>4, <1>7 DEF Logout, RevokeSubject, Tick, GraceExpires
<1>8. CASE Reactivate
    BY <1>8 DEF Reactivate, LateInv
<1>9. CASE UNCHANGED vars
    BY <1>4, <1>9 DEF vars
<1> QED BY <1>1, <1>2, <1>3, <1>5, <1>6, <1>7, <1>8, <1>9 DEF Next, TabStep

\* resolve on every refresh makes the loss of authority final: after it at most
\* one pair is minted, whatever is in flight when the suspension commits.
THEOREM SuspensionEndsSession == Spec => []SuspensionIsFinal
<1>1. Init => TypeOK /\ Chain /\ LateInv
    BY TypeInit, ChainInit DEF Init, LateInv
<1>2. TypeOK /\ Chain /\ LateInv /\ [Next]_vars => (TypeOK /\ Chain /\ LateInv)'
    BY TypeStep, ChainStep, LateStep
<1>3. LateInv => SuspensionIsFinal
    BY DEF LateInv, SuspensionIsFinal
<1> QED BY <1>1, <1>2, <1>3, PTL DEF Spec

------------------------------------------------------------------------------
(* Logout *)

OutInv ==
    loggedOut => /\ \A n \in 1..minted : ~Live(n)
                 /\ \A c \in Tabs : request[c].pc \notin Rotating

LEMMA OutStep ==
    ASSUME ~LogoutRaces, TypeOK, OutInv, [Next]_vars
    PROVE  OutInv'
<1> USE DEF Rotating, Working
<1>1. ASSUME loggedOut' = loggedOut, minted' = minted,
             \A n \in 1..minted : Live(n)' => Live(n),
             \A c \in Tabs : request'[c].pc \in Rotating =>
                                 request[c].pc \in Rotating
      PROVE  OutInv'
    BY <1>1 DEF OutInv
<1>2. ASSUME NEW c \in Tabs, NEW route \in Routes, Present(c, route)
      PROVE  OutInv'
    BY <1>1, <1>2 DEF Present, TypeOK, Live
<1>3. ASSUME NEW c \in Tabs, Claim(c) PROVE OutInv'
    <2>1. request[c].token \in Tokens
        BY RequestFacts
    <2>2. CASE Live(request[c].token)
        <3>1. request[c].token \in 1..minted
            BY <2>1, <2>2 DEF Live, TypeOK, Tokens
        <3> QED BY <1>3, <2>2, <3>1 DEF Claim, OutInv
    <2>3. CASE Goto(c, "lost") /\ row' = row
        BY <1>1, <1>3, <2>3, GotoFacts DEF Claim, Live
    <2> QED BY <1>3, <2>2, <2>3 DEF Claim
<1>4. ASSUME NEW c \in Tabs, Resolve(c) \/ Mint(c) PROVE OutInv'
    BY <1>4 DEF Resolve, Mint, OutInv
<1>5. ASSUME NEW c \in Tabs, \/ Park(c) \/ GraceFound(c) \/ GraceMissed(c)
                             \/ Death(c)
      PROVE  OutInv'
    BY <1>1, <1>5, GotoFacts, DoneFacts
       DEF Park, GraceFound, GraceMissed, Death, Live
<1>6. ASSUME NEW c \in Tabs, ExplainFailedClaim(c) PROVE OutInv'
    <2>1. CASE row' = row
        BY <1>1, <1>6, <2>1, DoneFacts DEF ExplainFailedClaim, Live
    <2>2. ASSUME NEW reason \in {"ended", "reuse"}, RevokeFamily(reason)
          PROVE  OutInv'
        BY <1>1, <1>6, <2>2, DoneFacts, RevokedDead DEF ExplainFailedClaim
    <2> QED BY <1>6, <2>1, <2>2 DEF ExplainFailedClaim
<1>7. CASE Logout
    <2>1. \A m \in 1..minted : ~Live(m)'
        BY <1>7, RevokedDead DEF Logout
    <2> QED BY <1>7, <2>1 DEF Logout, OutInv
<1>8. CASE RevokeSubject
    <2>1. \A m \in 1..minted : ~Live(m)'
        BY <1>8, RevokedDead DEF RevokeSubject
    <2> QED BY <1>1, <1>8, <2>1 DEF RevokeSubject
<1>9. CASE \/ Suspend \/ Reactivate \/ Tick \/ UNCHANGED vars
           \/ \E n \in Tokens : GraceExpires(n)
    BY <1>1, <1>9 DEF Suspend, Reactivate, Tick, GraceExpires, vars, Live
<1> QED BY <1>2, <1>3, <1>4, <1>5, <1>6, <1>7, <1>8, <1>9 DEF Next, TabStep

\* logout ends the login for good, as long as it does not run between a
\* rotation's claim and its mint.
THEOREM LogoutEndsSession ==
    ASSUME ~LogoutRaces PROVE Spec => []LogoutIsFinal
<1>1. Init => TypeOK /\ OutInv
    BY TypeInit DEF Init, OutInv
<1>2. TypeOK /\ OutInv /\ [Next]_vars => (TypeOK /\ OutInv)'
    BY TypeStep, OutStep
<1>3. OutInv => LogoutIsFinal
    BY DEF OutInv, LogoutIsFinal
<1> QED BY <1>1, <1>2, <1>3, PTL DEF Spec

------------------------------------------------------------------------------
(* Tabs that refresh together *)

Calm == OneWorker /\ JarInv /\ \A c \in Tabs : InFlight(c) => RequestInv(c)

LEMMA CalmPresent ==
    ASSUME TypeOK, OneRotation, Calm, NEW c \in Tabs, NEW route \in Routes,
           Present(c, route)
    PROVE  Calm'
<1> USE DEF Rotating, Working
<1>1. /\ request'[c].pc = "sent" /\ request'[c].token = jar
      /\ request[c].pc = "idle"
      /\ \A d \in Tabs : d # c => request'[d] = request[d]
    BY DEF Present, TypeOK, InFlight
<1>2. UNCHANGED <<row, minted, parked, jar, realm, now>>
    BY DEF Present
<1>3. \A n \in Tokens : Answered(n) => Answered(n)'
    BY <1>1, <1>2 DEF Answered
<1>4. \A n \in Tokens : FreshSuccessor(n) => FreshSuccessor(n)'
    BY <1>2 DEF FreshSuccessor
<1>5. JarInv'
    BY <1>2, <1>3, <1>4 DEF JarInv, Calm, TypeOK
<1>6. RequestInv(c)'
    BY <1>1, <1>2, <1>5 DEF RequestInv, JarInv
<1>7. ASSUME NEW d \in Tabs, d # c, InFlight(d)' PROVE RequestInv(d)'
    <2>1. request'[d] = request[d] /\ RequestInv(d) /\ request[d].token \in Tokens
        BY <1>1, <1>7, RequestFacts DEF Calm, InFlight
    <2> QED BY <1>2, <1>3, <1>4, <2>1 DEF RequestInv, WithinWindows
<1>8. OneWorker'
    BY <1>1 DEF OneWorker, Calm
<1> QED BY <1>5, <1>6, <1>7, <1>8 DEF Calm

LEMMA CalmClaim ==
    ASSUME TypeOK, OneRotation, Calm, NEW c \in Tabs, Claim(c)
    PROVE  Calm'
<1> USE DEF Rotating, Working
<1> PICK t \in Tokens : t = request[c].token
    BY RequestFacts
<1>0. t \in Tokens /\ InFlight(c) /\ RequestInv(c) /\ request[c].pc = "sent"
    BY RequestFacts DEF Claim, InFlight, Calm
<1>1. UNCHANGED <<minted, parked, jar, realm, now>>
    BY DEF Claim
<1>2. \A d \in Tabs : InFlight(d) => request[d].token = t
    BY <1>0 DEF OneRotation
<1>3. CASE Live(t) /\ realm \in request[c].route /\ WithinWindows(t)
    <2>1. row' = [row EXCEPT ![t].rotated = TRUE] /\ Goto(c, "claimed")
        BY <1>3 DEF Claim
    <2>2. /\ request'[c].pc = "claimed" /\ request'[c].token = t
          /\ request'[c].route = request[c].route
          /\ \A d \in Tabs : d # c => request'[d] = request[d]
        BY <2>1, GotoFacts
    <2>3. /\ row'[t].rotated /\ row'[t].revoked = "no"
          /\ row'[t].born = row[t].born
          /\ \A n \in Tokens : n # t => row'[n] = row[n]
          /\ ~row[t].rotated /\ row[t].revoked = "no"
        BY <1>0, <1>3, <2>1 DEF TypeOK, Row, Live
    <2>4. parked[t] = 0 /\ jar = t /\ t <= minted
        BY <1>0, <2>3 DEF Calm, JarInv, RequestInv
    <2>5. Answered(t)'
        BY <2>2 DEF Answered
    <2>6. JarInv'
        <3>1. FreshSuccessor(jar)' /\ Answered(jar)' /\ jar' <= minted'
            BY <1>1, <2>4, <2>5 DEF FreshSuccessor
        <3>2. \A n \in Tokens : parked'[n] # 0 => n <= minted' /\ row'[n].rotated
            BY <1>1, <2>3, <2>4 DEF Calm, JarInv
        <3> QED BY <3>1, <3>2 DEF JarInv
    <2>7. \A d \in Tabs : d # c => request[d].pc \notin Working
        <3> SUFFICES ASSUME NEW d \in Tabs, d # c, request[d].pc \in Working
                     PROVE  FALSE
            OBVIOUS
        <3>1. InFlight(d) /\ request[d].token = t
            BY <1>2 DEF InFlight
        <3>2. row[t].rotated
            BY <3>1 DEF Calm, RequestInv
        <3> QED BY <2>3, <3>2
    <2>8. ASSUME NEW d \in Tabs, InFlight(d)' PROVE RequestInv(d)'
        <3>1. CASE d = c
            BY <1>0, <1>1, <2>2, <2>3, <2>4, <2>5, <3>1
               DEF RequestInv, FreshSuccessor
        <3>2. CASE d # c
            <4>1. /\ request'[d] = request[d] /\ request[d].token = t
                  /\ RequestInv(d) /\ request[d].pc \notin Working
                BY <1>2, <2>2, <2>7, <2>8, <3>2 DEF InFlight, Calm
            <4>2. ~(request[d].pc = "explaining" /\ realm \in request[d].route)
                BY <1>3, <2>3, <4>1 DEF RequestInv
            <4> QED BY <1>1, <2>3, <2>4, <2>5, <4>1, <4>2
                    DEF RequestInv, FreshSuccessor
        <3> QED BY <3>1, <3>2
    <2>9. OneWorker'
        BY <2>2, <2>7 DEF OneWorker
    <2> QED BY <2>6, <2>8, <2>9 DEF Calm
<1>4. CASE ~(Live(t) /\ realm \in request[c].route /\ WithinWindows(t))
    <2>1. row' = row /\ Goto(c, "lost")
        BY <1>4 DEF Claim
    <2>2. /\ request'[c].pc = "lost" /\ request'[c].token = t
          /\ request'[c].route = request[c].route
          /\ \A d \in Tabs : d # c => request'[d] = request[d]
        BY <2>1, GotoFacts
    <2>3. \A n \in Tokens : Answered(n) => Answered(n)'
        BY <1>0, <1>1, <2>1, <2>2 DEF Answered
    <2>4. \A n \in Tokens : FreshSuccessor(n) => FreshSuccessor(n)'
        BY <1>1, <2>1 DEF FreshSuccessor
    <2>5. JarInv'
        BY <1>1, <2>1, <2>3, <2>4 DEF JarInv, Calm, TypeOK
    <2>6. RequestInv(c)'
        BY <1>0, <1>1, <1>4, <2>1, <2>2, <2>3, <2>4
           DEF RequestInv, WithinWindows, Live
    <2>7. ASSUME NEW d \in Tabs, d # c, InFlight(d)' PROVE RequestInv(d)'
        <3>1. request'[d] = request[d] /\ RequestInv(d)
              /\ request[d].token \in Tokens
            BY <2>2, <2>7, RequestFacts DEF Calm, InFlight
        <3> QED BY <1>1, <2>1, <2>3, <2>4, <3>1 DEF RequestInv, WithinWindows
    <2>8. OneWorker'
        BY <2>2 DEF OneWorker, Calm
    <2> QED BY <2>5, <2>6, <2>7, <2>8 DEF Calm
<1> QED BY <1>3, <1>4

\* A step that leaves the clock, the jar, the pairs and the requests of the
\* other tabs alone and only revokes rows.
LEMMA CalmRevoke ==
    ASSUME TypeOK, Calm, NEW reason \in {"ended", "reuse"}, RevokeFamily(reason),
           UNCHANGED <<minted, parked, jar, realm, now>>,
           \A c \in Tabs : \/ request'[c] = request[c]
                           \/ request'[c].pc = "idle"
    PROVE  Calm'
<1> USE DEF Rotating, Working
<1>1. \A n \in Tokens : /\ row'[n].rotated = row[n].rotated
                        /\ row'[n].born = row[n].born
                        /\ n <= minted => row'[n].revoked # "no"
    BY RevokeFacts
<1>2. \A n \in Tokens : n <= minted => Answered(n)'
    BY <1>1 DEF Answered
<1>3. \A n \in Tokens : FreshSuccessor(n) => FreshSuccessor(n)'
    BY <1>1 DEF FreshSuccessor, TypeOK
<1>4. JarInv'
    BY <1>1, <1>2, <1>3 DEF Calm, JarInv, TypeOK
<1>5. ASSUME NEW d \in Tabs, InFlight(d)' PROVE RequestInv(d)'
    <2>1. /\ request'[d] = request[d] /\ RequestInv(d)
          /\ request[d].token \in Tokens
        BY <1>5, RequestFacts DEF Calm, InFlight
    <2>2. request[d].token <= minted /\ minted \in Tokens
        BY <2>1 DEF RequestInv, TypeOK
    <2> QED BY <1>1, <1>2, <1>3, <2>1, <2>2 DEF RequestInv, WithinWindows
<1>6. OneWorker'
    BY DEF OneWorker, Calm
<1> QED BY <1>4, <1>5, <1>6 DEF Calm

LEMMA CalmMint ==
    ASSUME TypeOK, OneRotation, Calm, NEW c \in Tabs, Mint(c)
    PROVE  Calm'
<1> USE DEF Rotating, Working
<1> PICK t \in Tokens : t = request[c].token
    BY RequestFacts
<1>0. t \in Tokens /\ InFlight(c) /\ RequestInv(c) /\ request[c].pc = "minting"
    BY RequestFacts DEF Mint, InFlight, Calm
<1>1. UNCHANGED <<parked, jar, realm, now>> /\ minted' = minted + 1
    BY DEF Mint
<1>2. \A d \in Tabs : InFlight(d) => request[d].token = t
    BY <1>0 DEF OneRotation
<1>3. /\ \A n \in Tokens : n <= minted => row'[n] = row[n]
      /\ ~row'[minted'].rotated
    BY <1>1 DEF Mint, TypeOK, FreshRow, Tokens
<1>4. jar = t /\ parked[t] = 0 /\ row[t].rotated /\ t <= minted
      /\ minted \in Tokens
    BY <1>0 DEF RequestInv, TypeOK
<1>5. /\ request'[c].pc = "parking" /\ request'[c].token = t
      /\ request'[c].route = request[c].route
      /\ \A d \in Tabs : d # c => request'[d] = request[d]
    BY GotoFacts DEF Mint
<1>6. Answered(t)'
    BY <1>5 DEF Answered
<1>7. JarInv'
    <2>1. FreshSuccessor(jar)' /\ Answered(jar)'
        BY <1>1, <1>4, <1>6 DEF FreshSuccessor
    <2>2. jar' <= minted'
        BY <1>1, <1>4 DEF Tokens
    <2>3. \A n \in Tokens : parked'[n] # 0 => n <= minted' /\ row'[n].rotated
        BY <1>1, <1>3, <1>4 DEF Calm, JarInv, Tokens
    <2> QED BY <2>1, <2>2, <2>3 DEF JarInv
<1>8. ASSUME NEW d \in Tabs, InFlight(d)' PROVE RequestInv(d)'
    <2>1. CASE d = c
        BY <1>0, <1>1, <1>3, <1>4, <1>5, <1>6, <2>1
           DEF RequestInv, FreshSuccessor, Tokens
    <2>2. CASE d # c
        <3>1. /\ request'[d] = request[d] /\ request[d].token = t
              /\ RequestInv(d) /\ request[d].pc \notin Working
            BY <1>0, <1>2, <1>5, <1>8, <2>2 DEF InFlight, Calm, OneWorker
        <3> QED BY <1>0, <1>1, <1>3, <1>4, <1>6, <3>1
                DEF RequestInv, FreshSuccessor, WithinWindows, Tokens
    <2> QED BY <2>1, <2>2
<1>9. OneWorker'
    BY <1>0, <1>5 DEF OneWorker, Calm
<1> QED BY <1>7, <1>8, <1>9 DEF Calm

LEMMA CalmPark ==
    ASSUME TypeOK, OneRotation, Calm, NEW c \in Tabs, Park(c), ~faulted'
    PROVE  Calm'
<1> USE DEF Rotating, Working
<1> PICK t \in Tokens : t = request[c].token
    BY RequestFacts
<1>0. t \in Tokens /\ InFlight(c) /\ RequestInv(c) /\ request[c].pc = "parking"
    BY RequestFacts DEF Park, InFlight, Calm
<1>1. UNCHANGED <<row, minted, realm, now>>
      /\ parked' = [parked EXCEPT ![t] = minted]
    BY DEF Park
<1>2. \A d \in Tabs : InFlight(d) => request[d].token = t
    BY <1>0 DEF OneRotation
<1>3. /\ jar = t /\ row[t].rotated /\ t < minted /\ ~row[minted].rotated
      /\ minted \in Tokens /\ minted # 0
    BY <1>0 DEF RequestInv, TypeOK, Tokens
<1>4. /\ parked'[t] = minted
      /\ \A n \in Tokens : n # t => parked'[n] = parked[n]
      /\ parked'[minted] = 0
    BY <1>0, <1>1, <1>3 DEF Calm, JarInv, TypeOK, Tokens
<1>5. jar' = minted \/ jar' = t
    BY <1>3 DEF Park
<1>6. request'[c].pc = "idle" /\ \A d \in Tabs : d # c => request'[d] = request[d]
    BY DoneFacts DEF Park
<1>7. Answered(t)' /\ Answered(minted)'
    BY <1>1, <1>3, <1>4 DEF Answered
<1>8. JarInv'
    <2>1. FreshSuccessor(jar)' /\ Answered(jar)'
        BY <1>1, <1>3, <1>4, <1>5, <1>7 DEF FreshSuccessor
    <2>2. jar' <= minted'
        BY <1>1, <1>3, <1>5 DEF Tokens
    <2>3. \A n \in Tokens : parked'[n] # 0 => n <= minted' /\ row'[n].rotated
        BY <1>1, <1>3, <1>4 DEF Calm, JarInv, Tokens
    <2> QED BY <2>1, <2>2, <2>3 DEF JarInv
<1>9. ASSUME NEW d \in Tabs, InFlight(d)' PROVE RequestInv(d)'
    <2>1. /\ request'[d] = request[d] /\ request[d].token = t
          /\ RequestInv(d) /\ request[d].pc \notin Working
        BY <1>0, <1>2, <1>6, <1>9 DEF InFlight, Calm, OneWorker
    <2> QED BY <1>0, <1>1, <1>3, <1>4, <1>5, <1>7, <2>1
            DEF RequestInv, FreshSuccessor, WithinWindows, Tokens
<1>10. OneWorker'
    BY <1>6 DEF OneWorker, Calm
<1> QED BY <1>8, <1>9, <1>10 DEF Calm

LEMMA CalmGrace ==
    ASSUME TypeOK, OneRotation, Calm, NEW c \in Tabs, ~faulted',
           GraceFound(c) \/ GraceMissed(c)
    PROVE  Calm'
<1> USE DEF Rotating, Working
<1> PICK t \in Tokens : t = request[c].token
    BY RequestFacts
<1>0. t \in Tokens /\ InFlight(c) /\ RequestInv(c) /\ request[c].pc = "lost"
    BY RequestFacts DEF GraceFound, GraceMissed, InFlight, Calm
<1>1. UNCHANGED <<row, minted, parked, realm, now>>
    BY DEF GraceFound, GraceMissed
<1>2. \A d \in Tabs : InFlight(d) => request[d].token = t
    BY <1>0 DEF OneRotation
<1>3. CASE jar' = parked[t] /\ parked[t] # 0 /\ Done(c)
    <2>1. parked[t] = minted /\ ~row[minted].rotated /\ minted \in Tokens
        BY <1>0, <1>3 DEF RequestInv, FreshSuccessor, TypeOK
    <2>2. parked[minted] = 0
        BY <2>1 DEF Calm, JarInv
    <2>3. /\ request'[c].pc = "idle"
          /\ \A d \in Tabs : d # c => request'[d] = request[d]
        BY <1>3, DoneFacts
    <2>4. JarInv'
        BY <1>1, <1>3, <2>1, <2>2
           DEF Calm, JarInv, FreshSuccessor, Answered, TypeOK, Tokens
    <2>5. ASSUME NEW d \in Tabs, InFlight(d)' PROVE RequestInv(d)'
        <3>1. /\ request'[d] = request[d] /\ request[d].token = t
              /\ RequestInv(d)
            BY <1>2, <2>3, <2>5 DEF InFlight, Calm
        <3>2. Answered(t)' /\ FreshSuccessor(t)'
            BY <1>0, <1>1, <1>3, <2>1 DEF Answered, FreshSuccessor
        <3> QED BY <1>1, <1>3, <3>1, <3>2 DEF RequestInv, WithinWindows
    <2>6. OneWorker'
        BY <2>3 DEF OneWorker, Calm
    <2> QED BY <2>4, <2>5, <2>6 DEF Calm
<1>4. CASE /\ jar' = jar /\ Goto(c, "explaining")
           /\ realm \in request[c].route => ~row[t].rotated \/ row[t].revoked # "no"
    <2>1. /\ request'[c].pc = "explaining" /\ request'[c].token = t
          /\ request'[c].route = request[c].route
          /\ \A d \in Tabs : d # c => request'[d] = request[d]
        BY <1>4, GotoFacts
    <2>2. \A n \in Tokens : Answered(n) => Answered(n)'
        BY <1>0, <1>1, <2>1 DEF Answered
    <2>3. \A n \in Tokens : FreshSuccessor(n) => FreshSuccessor(n)'
        BY <1>1 DEF FreshSuccessor
    <2>4. JarInv'
        BY <1>1, <1>4, <2>2, <2>3 DEF JarInv, Calm, TypeOK
    <2>5. RequestInv(c)'
        BY <1>0, <1>1, <1>4, <2>1, <2>2, <2>3 DEF RequestInv, WithinWindows
    <2>6. ASSUME NEW d \in Tabs, d # c, InFlight(d)' PROVE RequestInv(d)'
        <3>1. request'[d] = request[d] /\ RequestInv(d)
              /\ request[d].token \in Tokens
            BY <2>1, <2>6, RequestFacts DEF Calm, InFlight
        <3> QED BY <1>1, <1>4, <2>2, <2>3, <3>1 DEF RequestInv, WithinWindows
    <2>7. OneWorker'
        BY <2>1 DEF OneWorker, Calm
    <2> QED BY <2>4, <2>5, <2>6, <2>7 DEF Calm
<1>5. ASSUME GraceMissed(c)
      PROVE  realm \in request[c].route => ~row[t].rotated \/ row[t].revoked # "no"
    <2>1. parked[t] = 0 /\ \A d \in Tabs : request[d].token = t =>
                                  request[d].pc \notin Working
        BY <1>5 DEF GraceMissed
    <2> QED BY <1>0, <2>1 DEF RequestInv, Answered
<1> QED BY <1>3, <1>4, <1>5 DEF GraceFound, GraceMissed

\* What a step that touches neither rows, pairs, jar nor clock does to Calm: a
\* request that is not at work may end, and the others go on.
LEMMA CalmKept ==
    ASSUME TypeOK, Calm, UNCHANGED <<row, minted, parked, jar, realm, now>>,
           \A c \in Tabs : \/ request'[c] = request[c]
                           \/ request'[c].pc = "idle" /\ request[c].pc \notin Working
    PROVE  Calm'
<1> USE DEF Rotating, Working
<1>1. \A n \in Tokens : Answered(n) => Answered(n)'
    BY DEF Answered
<1>2. \A n \in Tokens : FreshSuccessor(n) => FreshSuccessor(n)'
    BY DEF FreshSuccessor
<1>3. JarInv'
    BY <1>1, <1>2 DEF Calm, JarInv, TypeOK
<1>4. ASSUME NEW d \in Tabs, InFlight(d)' PROVE RequestInv(d)'
    <2>1. /\ request'[d] = request[d] /\ RequestInv(d)
          /\ request[d].token \in Tokens
        BY <1>4, RequestFacts DEF Calm, InFlight
    <2> QED BY <1>1, <1>2, <2>1 DEF RequestInv, WithinWindows
<1>5. OneWorker'
    BY DEF OneWorker, Calm
<1> QED BY <1>3, <1>4, <1>5 DEF Calm

LEMMA CalmResolve ==
    ASSUME TypeOK, Calm, NEW c \in Tabs, Resolve(c)
    PROVE  Calm'
<1> USE DEF Rotating, Working
<1>1. CASE active
    <2>1. /\ request'[c].pc = "minting" /\ request'[c].token = request[c].token
          /\ request'[c].route = request[c].route /\ request[c].pc = "claimed"
          /\ \A d \in Tabs : d # c => request'[d] = request[d]
        BY <1>1, GotoFacts DEF Resolve
    <2>2. UNCHANGED <<row, minted, parked, jar, realm, now>>
        BY <1>1 DEF Resolve
    <2>3. \A n \in Tokens : Answered(n) => Answered(n)'
        BY <2>1, <2>2 DEF Answered
    <2>4. \A n \in Tokens : FreshSuccessor(n) => FreshSuccessor(n)'
        BY <2>2 DEF FreshSuccessor
    <2>5. JarInv'
        BY <2>2, <2>3, <2>4 DEF Calm, JarInv, TypeOK
    <2>6. ASSUME NEW d \in Tabs, InFlight(d)' PROVE RequestInv(d)'
        <3>1. /\ request'[d].token = request[d].token
              /\ request'[d].route = request[d].route
              /\ RequestInv(d) /\ request[d].token \in Tokens
              /\ request'[d].pc = request[d].pc \/ d = c
            BY <2>1, <2>6, RequestFacts DEF Calm, InFlight
        <3> QED BY <2>1, <2>2, <2>3, <2>4, <3>1 DEF RequestInv, WithinWindows
    <2>7. OneWorker'
        BY <2>1 DEF OneWorker, Calm
    <2> QED BY <2>5, <2>6, <2>7 DEF Calm
<1>2. CASE ~active
    BY <1>2, CalmRevoke, DoneFacts DEF Resolve
<1> QED BY <1>1, <1>2 DEF TypeOK

LEMMA CalmStep ==
    ASSUME TypeOK, OneRotation, Calm, [Next]_vars, ~faulted'
    PROVE  Calm'
<1>1. ASSUME NEW c \in Tabs, NEW route \in Routes, Present(c, route)
      PROVE  Calm'
    BY <1>1, CalmPresent
<1>2. ASSUME NEW c \in Tabs, \/ Claim(c) \/ Mint(c) \/ Park(c)
                             \/ GraceFound(c) \/ GraceMissed(c) \/ Resolve(c)
      PROVE  Calm'
    BY <1>2, CalmClaim, CalmMint, CalmPark, CalmGrace, CalmResolve
<1>3. ASSUME NEW c \in Tabs, ExplainFailedClaim(c) PROVE Calm'
    <2>1. CASE row' = row
        BY <1>3, <2>1, CalmKept, DoneFacts
           DEF ExplainFailedClaim, Working, Rotating
    <2>2. ASSUME NEW reason \in {"ended", "reuse"}, RevokeFamily(reason)
          PROVE  Calm'
        BY <1>3, <2>2, CalmRevoke, DoneFacts DEF ExplainFailedClaim
    <2> QED BY <1>3, <2>1, <2>2 DEF ExplainFailedClaim
<1>4. ASSUME NEW c \in Tabs, Death(c) PROVE Calm'
    BY <1>4 DEF Death
<1>5. CASE Logout \/ RevokeSubject
    BY <1>5, CalmRevoke DEF Logout, RevokeSubject
<1>6. CASE Suspend \/ Reactivate \/ UNCHANGED vars
    BY <1>6, CalmKept DEF Suspend, Reactivate, vars
<1>7. CASE Tick
    <2>1. /\ UNCHANGED <<row, minted, parked, jar, request>>
          /\ \A c \in Tabs : ~InFlight(c)
        BY <1>7 DEF Tick
    <2>2. JarInv'
        BY <2>1 DEF Calm, JarInv, FreshSuccessor, Answered
    <2>3. OneWorker' /\ \A c \in Tabs : ~InFlight(c)'
        BY <2>1 DEF Calm, OneWorker, InFlight
    <2> QED BY <2>2, <2>3 DEF Calm
<1>8. ASSUME NEW n \in Tokens, GraceExpires(n) PROVE Calm'
    <2>1. /\ UNCHANGED <<row, minted, jar, request, realm, now>> /\ jar # n
          /\ parked' = [parked EXCEPT ![n] = 0]
          /\ \A c \in Tabs : InFlight(c) => request[c].token # n
        BY <1>8 DEF GraceExpires
    <2>2. parked'[n] = 0 /\ \A m \in Tokens : m # n => parked'[m] = parked[m]
        BY <2>1 DEF TypeOK
    <2>3. \A m \in Tokens : m # n => /\ Answered(m) => Answered(m)'
                                     /\ FreshSuccessor(m) => FreshSuccessor(m)'
        BY <2>1, <2>2 DEF Answered, FreshSuccessor
    <2>4. JarInv'
        BY <2>1, <2>2, <2>3 DEF Calm, JarInv, TypeOK
    <2>5. ASSUME NEW d \in Tabs, InFlight(d)' PROVE RequestInv(d)'
        <3>1. /\ RequestInv(d) /\ request[d].token \in Tokens
              /\ request[d].token # n
            BY <2>1, <2>5, RequestFacts DEF Calm, InFlight
        <3> QED BY <2>1, <2>2, <2>3, <3>1 DEF RequestInv, WithinWindows
    <2>6. OneWorker'
        BY <2>1 DEF Calm, OneWorker
    <2> QED BY <2>4, <2>5, <2>6 DEF Calm
<1> QED BY <1>1, <1>2, <1>3, <1>4, <1>5, <1>6, <1>7, <1>8 DEF Next, TabStep

\* A fault is never forgotten.
LEMMA FaultStays == TypeOK /\ [Next]_vars /\ faulted => faulted'
    BY DEF Next, TabStep, Present, Claim, Resolve, Mint, Park, GraceFound,
           GraceMissed, ExplainFailedClaim, Death, Logout, Suspend,
           RevokeSubject, Reactivate, Tick, GraceExpires, vars, TypeOK

\* Only explainFailedClaim revokes for reuse, and while nothing has failed no
\* request reaches that branch.
LEMMA ReuseStep ==
    ASSUME TypeOK, Calm, TogetherIsNotReuse, [Next]_vars, ~faulted, ~faulted'
    PROVE  TogetherIsNotReuse'
<1> DEFINE Clean == \A n \in 1..minted : row[n].revoked # "reuse"
<1>0. Clean
    BY DEF TogetherIsNotReuse
<1> SUFFICES Clean'
    BY DEF TogetherIsNotReuse
<1>1. CASE minted' = minted /\ RevokeFamily("ended")
    BY <1>0, <1>1, RevokeFacts DEF TypeOK, Tokens
<1>2. CASE UNCHANGED <<row, minted>>
    BY <1>0, <1>2
<1>3. ASSUME NEW c \in Tabs, Claim(c) PROVE Clean'
    <2>1. request[c].token \in Tokens
        BY RequestFacts
    <2>2. CASE row' = [row EXCEPT ![request[c].token].rotated = TRUE]
        <3>1. \A n \in Tokens : row'[n].revoked = row[n].revoked
            BY <2>1, <2>2 DEF TypeOK, Row
        <3> QED BY <1>0, <1>3, <3>1 DEF Claim, TypeOK, Tokens
    <2> QED BY <1>2, <1>3, <2>2 DEF Claim
<1>4. ASSUME NEW c \in Tabs, Mint(c) PROVE Clean'
    BY <1>0, <1>4 DEF Mint, FreshRow, TypeOK, Tokens
<1>5. ASSUME NEW c \in Tabs, ExplainFailedClaim(c) PROVE Clean'
    <2>1. RequestInv(c)
        BY <1>5 DEF ExplainFailedClaim, Calm, InFlight
    <2>2. ~(/\ realm \in request[c].route
            /\ row[request[c].token].revoked = "no"
            /\ row[request[c].token].rotated)
        BY <1>5, <2>1 DEF ExplainFailedClaim, RequestInv
    <2> QED BY <1>1, <1>2, <1>5, <2>2 DEF ExplainFailedClaim
<1>6. ASSUME NEW c \in Tabs, Resolve(c) PROVE Clean'
    BY <1>1, <1>2, <1>6 DEF Resolve
<1>7. ASSUME NEW c \in Tabs, \/ \E route \in Routes : Present(c, route)
                             \/ Park(c) \/ GraceFound(c) \/ GraceMissed(c)
                             \/ Death(c)
      PROVE  Clean'
    BY <1>2, <1>7 DEF Present, Park, GraceFound, GraceMissed, Death
<1>8. CASE Logout \/ RevokeSubject
    BY <1>1, <1>8 DEF Logout, RevokeSubject
<1>9. CASE \/ Suspend \/ Reactivate \/ Tick \/ UNCHANGED vars
           \/ \E n \in Tokens : GraceExpires(n)
    BY <1>2, <1>9 DEF Suspend, Reactivate, Tick, GraceExpires, vars
<1> QED BY <1>3, <1>4, <1>5, <1>6, <1>7, <1>8, <1>9 DEF Next, TabStep

TogetherInv == TypeOK /\ Chain /\ SessionInv /\ TogetherIsNotReuse

LEMMA TogetherInit == Init => TogetherInv
<1> SUFFICES ASSUME Init PROVE TogetherInv
    OBVIOUS
<1>1. TypeOK /\ Chain
    BY TypeInit, ChainInit
<1>2. JarInv
    BY DEF Init, JarInv, FreshSuccessor, Answered, FreshRow, Tokens
<1>3. OneWorker /\ \A c \in Tabs : ~InFlight(c)
    BY DEF Init, OneWorker, InFlight, Idle, Working, Rotating
<1>4. TogetherIsNotReuse
    BY DEF Init, TogetherIsNotReuse, FreshRow, Tokens
<1> QED BY <1>1, <1>2, <1>3, <1>4 DEF TogetherInv, SessionInv, Chain

LEMMA TogetherStep == TogetherInv /\ [Next]_vars => TogetherInv'
<1> SUFFICES ASSUME TogetherInv, [Next]_vars PROVE TogetherInv'
    OBVIOUS
<1>1. TypeOK' /\ Chain'
    BY TypeStep, ChainStep DEF TogetherInv
<1>2. CASE faulted'
    BY <1>1, <1>2 DEF TogetherInv, SessionInv, Chain, TogetherIsNotReuse
<1>3. CASE ~faulted'
    <2>1. ~faulted
        BY <1>3, FaultStays DEF TogetherInv
    <2>2. Calm
        BY <2>1 DEF TogetherInv, SessionInv, Calm
    <2>3. Calm'
        BY <1>3, <2>2, CalmStep DEF TogetherInv, Chain
    <2>4. TogetherIsNotReuse'
        BY <1>3, <2>1, <2>2, ReuseStep DEF TogetherInv
    <2> QED BY <1>1, <2>3, <2>4 DEF TogetherInv, SessionInv, Chain, Calm
<1> QED BY <1>2, <1>3

\* Whatever each request in flight relies on holds, for any number of tabs.
THEOREM RequestsAreAnswered == Spec => []SessionInv
<1>1. TogetherInv => SessionInv
    BY DEF TogetherInv
<1> QED BY TogetherInit, TogetherStep, <1>1, PTL DEF Spec

\* The grace window does what it is for: tabs that refresh together never burn
\* the family, for any number of tabs, unless a task is killed, Redis fails or
\* the browser comes back after the window.
THEOREM RefreshingTogetherIsSafe == Spec => []TogetherIsNotReuse
<1>1. TogetherInv => TogetherIsNotReuse
    BY DEF TogetherInv
<1> QED BY TogetherInit, TogetherStep, <1>1, PTL DEF Spec
=============================================================================
