-------------------------- MODULE ProvisioningProofs --------------------------
(* provisionRange for every size of range and pool, every roster and every *)
(* way its calls fail: clients are provisioned once, the range is handed   *)
(* out whole or not at all, and its sign-ins are counted exactly.          *)
EXTENDS Provisioning, FiniteSetTheorems, TLAPS

-----------------------------------------------------------------------------
(* The inductive invariant.                                                *)

\* Where a client has no session yet and is about to pay for one, and where
\* it has one.
SigningIn(t) == thread[t].pc \in {"login", "register", "relogin"}
SessionPC == {"mint", "consents", "remint", "bootstrap", "assign", "store"}
InSession(t) == thread[t].pc \in SessionPC

\* A thread that holds an offset holds it alone, until it is stored.
Claimed(t) == thread[t].pc \notin {"claim", "exit"}
ClaimsDistinct ==
    /\ \A t \in Thread : Claimed(t) => Off(t) < nextOffset /\ Off(t) \notin out
    /\ \A t, u \in Thread : Claimed(t) /\ Claimed(u) /\ Off(t) = Off(u) => t = u
    /\ \A t \in Thread : Working(t) => Off(t) < Count
    /\ \A o \in out : o < nextOffset
    /\ completed = Cardinality(out)
ClaimInv == TypeOK /\ ClaimsDistinct

\* While nothing failed every offset below nextOffset is stored or on its
\* way, and no thread leaves before the offsets are all claimed.
OutInstalled ==
    /\ out \subseteq installed
    /\ \A t \in Thread : At(t, "store") => Off(t) \in installed
NoneForgotten ==
    ~failed /\ ~stop =>
        /\ \A o \in Offset : o < nextOffset => o \in out \/ \E t \in Thread : Claimed(t) /\ Off(t) = o
        /\ \A t \in Thread : At(t, "exit") => Count <= nextOffset
WholeRange ==
    result = "clients" => ~failed /\ out = Offset /\ \A t \in Thread : At(t, "exit")
RangeInv == OutInstalled /\ NoneForgotten /\ WholeRange

\* The roster is decided before the pool starts.
RosterFirst ==
    /\ result = "begin" => \A t \in Thread : At(t, "claim")
    /\ result = "running" => RosterCovers
    /\ RosterCovers \/ \A t \in Thread : At(t, "claim")
    /\ \A t \in Thread : SigningIn(t) => Off(t) \notin roster

\* The clients that have a session, and the column their sign-ins go to.
Held == out \union {Off(t) : t \in {u \in Thread : InSession(u)}}
Paid == IF RunStarted THEN tally.midRun ELSE tally.before
Unpaid == IF RunStarted THEN tally.before ELSE tally.midRun
TallyFollows ==
    /\ Unpaid = 0
    /\ rosterFile /\ required => Paid = 0
    /\ ~failed => /\ tally.reused = Cardinality(Held \intersect roster)
                  /\ Paid = Cardinality(Held \ roster)
TallyInv == RosterFirst /\ TallyFollows

\* A second login is only tried on an account that exists, unless the API
\* refused an earlier call for another reason.
ReloginExists ==
    \A t \in Thread : At(t, "relogin") => account[Off(t)] # "absent" \/ Off(t) \in limited
RejectInv == ReloginExists /\ RejectedIsTurnedAway

-----------------------------------------------------------------------------
(* The type invariant by groups of variables.                              *)

ThreadState == [pc : ThreadPC, off : Nat, tries : 0 .. MaxTries - 1]

ConfigTyped ==
    /\ rosterFile \in BOOLEAN /\ required \in BOOLEAN
    /\ roster \in SUBSET Offset /\ appTokens \in BOOLEAN
PoolTyped ==
    /\ nextOffset \in Nat /\ completed \in 0 .. Count /\ out \in SUBSET Offset
    /\ stop \in BOOLEAN /\ result \in {"begin", "running", "empty", "clients"}
ErrorTyped == failed \in BOOLEAN /\ firstError \in Errors
ThreadTyped == thread \in [Thread -> ThreadState]
TallyTyped == tally \in [reused : Nat, before : Nat, midRun : Nat]
ApiTyped ==
    /\ account \in [Offset -> Accounts]
    /\ consented \in SUBSET Offset /\ installed \in SUBSET Offset
    /\ limited \in SUBSET Offset

\* The type invariant is the conjunction of its groups, before and after a step.
LEMMA TypeGroups ==
    LET Groups == ConfigTyped /\ PoolTyped /\ ErrorTyped /\ ThreadTyped /\ TallyTyped /\ ApiTyped
    IN  (TypeOK <=> Groups) /\ (TypeOK' <=> Groups')
BY DEF TypeOK, ConfigTyped, PoolTyped, ErrorTyped, ThreadTyped, ThreadState, TallyTyped, ApiTyped

-----------------------------------------------------------------------------
(* What a thread's step does, as far as the invariants tell steps apart.   *)

Moves(t, pc) ==
    /\ ThreadTyped'
    /\ \A u \in Thread : u # t => thread'[u] = thread[u]
    /\ thread'[t].pc = pc /\ thread'[t].off = thread[t].off

\* A thread that goes on to its next call changes nothing else of itself.
LEMMA GoMoves ==
    ASSUME ThreadTyped, NEW t \in Thread, NEW pc \in ThreadPC, Go(t, pc)
    PROVE  Moves(t, pc)
<1>1. 0 \in 0 .. MaxTries - 1
  BY ProvisioningAssumption
<1>2. [thread[t] EXCEPT !.pc = pc, !.tries = 0] \in ThreadState
  BY <1>1 DEF ThreadTyped, ThreadState
<1>3. thread' = [thread EXCEPT ![t] = [thread[t] EXCEPT !.pc = pc, !.tries = 0]]
  BY DEF Go
<1>4. ThreadTyped' /\ (\A u \in Thread : u # t => thread'[u] = thread[u])
      /\ thread'[t] = [thread[t] EXCEPT !.pc = pc, !.tries = 0]
  BY <1>2, <1>3 DEF ThreadTyped
<1> QED
  BY <1>4 DEF Moves, ThreadTyped, ThreadState

\* A call ends the client, moves it on, or gives it a session: the roster's,
\* or one it paid for.
Quiet == UNCHANGED <<failed, firstError, tally>>
Thrown(t) ==
    /\ Moves(t, "exit") /\ failed' = TRUE /\ UNCHANGED tally
    /\ \/ firstError' = firstError
       \/ firstError' \in Errors \ {"rejected"}
       \/ /\ At(t, "relogin") /\ firstError' = "rejected"
          /\ account[Off(t)] # "ours" \/ Off(t) \in limited'
Onward(t, pc) ==
    /\ Moves(t, pc) /\ Quiet
    /\ pc \in SessionPC <=> InSession(t)
    /\ pc \in {"login", "register", "relogin"} => SigningIn(t) \/ Off(t) \notin roster
    /\ pc = "relogin" => At(t, "relogin") \/ account[Off(t)] # "absent" \/ Off(t) \in limited'
    /\ pc = "store" => Off(t) \in installed'
Reused(t, pc) ==
    /\ At(t, "session") /\ Off(t) \in roster /\ Moves(t, pc)
    /\ tally' = [tally EXCEPT !.reused = @ + 1]
    /\ UNCHANGED <<failed, firstError>>
Bought(t) ==
    /\ SigningIn(t) /\ Moves(t, "mint")
    /\ tally' = IF RunStarted THEN [tally EXCEPT !.midRun = @ + 1]
                              ELSE [tally EXCEPT !.before = @ + 1]
    /\ UNCHANGED <<failed, firstError>>

ApiGrows ==
    /\ ApiTyped' /\ installed \subseteq installed' /\ limited \subseteq limited'
    /\ \A o \in Offset : account'[o] = account[o] \/ (account[o] = "absent" /\ account'[o] = "ours")

CallStep(t) ==
    \/ TakeSession(t) \/ Login(t) \/ Register(t) \/ Relogin(t)
    \/ Mint(t) \/ RecordConsents(t) \/ Remint(t) \/ Bootstrap(t) \/ Assign(t)
    \/ Refused(t) \/ TransportFails(t)

CallEffect(t) ==
    /\ Working(t) /\ UNCHANGED <<config, poolVars>> /\ ApiGrows
    /\ \/ Thrown(t)
       \/ \E pc \in ThreadPC \ {"claim", "check", "exit"} : Onward(t, pc)
       \/ \E pc \in SessionPC \ {"store"} : Reused(t, pc)
       \/ Bought(t)

\* An API that is left alone forgets nothing.
LEMMA ApiStays ==
    ASSUME ApiTyped, UNCHANGED apiVars
    PROVE  ApiGrows
BY DEF ApiTyped, ApiGrows, apiVars

\* A call that throws ends the client at hand and nothing else.
LEMMA ThrowEffect ==
    ASSUME ThreadTyped, NEW t \in Thread, NEW error \in Errors, Throw(t, error), UNCHANGED tally,
           error = "rejected" => /\ At(t, "relogin")
                                 /\ account[Off(t)] # "ours" \/ Off(t) \in limited'
    PROVE  Thrown(t)
BY GoMoves DEF Throw, Thrown, ThreadPC

\* Whatever call a thread makes, it moves on, throws, or has its session.
LEMMA CallEffects ==
    ASSUME TypeOK, NEW t \in Thread, CallStep(t), Off(t) \in Offset
    PROVE  CallEffect(t)
<1>0. ThreadTyped /\ TallyTyped /\ ApiTyped /\ ErrorTyped
  BY TypeGroups
<1> USE DEF At
<1>1. ASSUME NEW pc \in ThreadPC, Go(t, pc)
      PROVE  Moves(t, pc)
  BY <1>0, <1>1, GoMoves
<1>2. ASSUME NEW error \in Errors \ {"rejected"}, Throw(t, error), UNCHANGED tally
      PROVE  Thrown(t)
  BY <1>0, <1>2, ThrowEffect
<1>3. ASSUME TakeSession(t)
      PROVE  CallEffect(t)
  <2>1. Working(t) /\ UNCHANGED <<config, poolVars>> /\ ApiGrows /\ thread[t].pc = "session"
    BY <1>0, <1>3, ApiStays DEF TakeSession, Working
  <2>2. CASE Off(t) \in roster \intersect Misnamed
    BY <1>2, <1>3, <2>1, <2>2 DEF TakeSession, CallEffect, Errors
  <2>3. CASE Off(t) \in roster \ Misnamed
    <3>1. PICK pc \in {"bootstrap", "mint"} : Go(t, pc)
      BY <1>3, <2>3 DEF TakeSession
    <3>2. Reused(t, pc)
      BY <1>1, <1>3, <2>1, <2>3, <3>1 DEF TakeSession, Reused, ThreadPC, CallPC
    <3> QED
      BY <2>1, <3>2 DEF CallEffect, SessionPC
  <2>4. CASE Off(t) \notin roster
    <3>1. Onward(t, "login")
      BY <1>1, <1>3, <2>1, <2>4 DEF TakeSession, Onward, Quiet, ThreadPC, CallPC, InSession, SessionPC
    <3> QED
      BY <2>1, <3>1 DEF CallEffect, ThreadPC, CallPC
  <2> QED
    BY <2>2, <2>3, <2>4
<1>4. ASSUME SignedIn(t), SigningIn(t), UNCHANGED <<failed, firstError>>
      PROVE  Bought(t)
  BY <1>1, <1>4 DEF SignedIn, Bought, ThreadPC, CallPC
<1>5. ASSUME Login(t)
      PROVE  CallEffect(t)
  <2>1. Working(t) /\ SigningIn(t) /\ UNCHANGED <<config, poolVars>> /\ ApiGrows /\ thread[t].pc = "login"
    BY <1>0, <1>5 DEF Login, Working, SigningIn, ApiGrows, ApiTyped
  <2>2. CASE SignedIn(t)
    BY <1>4, <1>5, <2>1, <2>2 DEF Login, CallEffect
  <2>3. CASE Go(t, "register") /\ UNCHANGED tally
    <3>1. Onward(t, "register")
      BY <1>1, <1>5, <2>1, <2>3 DEF Login, Onward, Quiet, ThreadPC, CallPC, InSession, SessionPC
    <3> QED
      BY <2>1, <3>1 DEF CallEffect, ThreadPC, CallPC
  <2> QED
    BY <1>5, <2>2, <2>3 DEF Login
<1>6. ASSUME Register(t)
      PROVE  CallEffect(t)
  <2>1. Working(t) /\ SigningIn(t) /\ UNCHANGED <<config, poolVars>> /\ thread[t].pc = "register"
    BY <1>6 DEF Register, Working, SigningIn
  <2>2. ApiGrows
    BY <1>0, <1>6 DEF Register, MayRegister, ApiGrows, ApiTyped, Accounts
  <2>3. CASE SignedIn(t)
    BY <1>4, <1>6, <2>1, <2>2, <2>3 DEF Register, CallEffect
  <2>4. CASE Go(t, "relogin") /\ UNCHANGED tally /\ (account[Off(t)] # "absent" \/ Off(t) \in limited')
    <3>1. Onward(t, "relogin")
      BY <1>1, <1>6, <2>1, <2>4 DEF Register, Onward, Quiet, ThreadPC, CallPC, InSession, SessionPC
    <3> QED
      BY <2>1, <2>2, <3>1 DEF CallEffect, ThreadPC, CallPC
  <2> QED
    BY <1>6, <2>3, <2>4 DEF Register
<1>7. ASSUME Relogin(t)
      PROVE  CallEffect(t)
  <2>1. Working(t) /\ SigningIn(t) /\ UNCHANGED <<config, poolVars>> /\ ApiGrows
    BY <1>0, <1>7 DEF Relogin, Working, SigningIn, ApiGrows, ApiTyped
  <2>2. CASE SignedIn(t) /\ UNCHANGED <<failed, firstError>>
    BY <1>4, <2>1, <2>2 DEF CallEffect
  <2>3. CASE /\ Throw(t, "rejected") /\ UNCHANGED tally
             /\ account[Off(t)] # "ours" \/ Off(t) \in limited'
    BY <1>0, <1>7, <2>1, <2>3, ThrowEffect DEF Relogin, CallEffect, Errors
  <2> QED
    BY <1>7, <2>2, <2>3 DEF Relogin
<1>8. ASSUME Mint(t) \/ Remint(t)
      PROVE  CallEffect(t)
  <2>1. Working(t) /\ InSession(t) /\ UNCHANGED <<config, poolVars, tally>> /\ ApiGrows
    BY <1>0, <1>8, ApiStays DEF Mint, Remint, Working, InSession, SessionPC
  <2>2. CASE Throw(t, "forbidden")
    BY <1>2, <2>1, <2>2 DEF CallEffect, Errors
  <2>3. CASE ~Throw(t, "forbidden")
    <3>1. PICK pc \in {"consents", "bootstrap"} : Go(t, pc) /\ UNCHANGED <<failed, firstError>>
      BY <1>8, <2>3 DEF Mint, Remint
    <3>2. Onward(t, pc)
      BY <1>1, <2>1, <3>1 DEF Onward, Quiet, ThreadPC, CallPC, SessionPC
    <3> QED
      BY <2>1, <3>2 DEF CallEffect, ThreadPC, CallPC
  <2> QED
    BY <2>2, <2>3
<1>9. ASSUME RecordConsents(t) \/ Bootstrap(t) \/ Assign(t)
      PROVE  CallEffect(t)
  <2>1. Working(t) /\ InSession(t) /\ UNCHANGED <<config, poolVars, tally, failed, firstError>>
    BY <1>9 DEF RecordConsents, Bootstrap, Assign, Working, InSession, SessionPC
  <2>2. ApiGrows
    BY <1>0, <1>9 DEF RecordConsents, Bootstrap, Assign, ApiGrows, ApiTyped, apiVars
  <2>3. PICK pc \in {"remint", "assign", "store"} :
            Go(t, pc) /\ (pc = "store" => installed' = installed \union {Off(t)})
    BY <1>9 DEF RecordConsents, Bootstrap, Assign
  <2>4. Onward(t, pc)
    BY <1>1, <2>1, <2>3 DEF Onward, Quiet, ThreadPC, CallPC, SessionPC
  <2> QED
    BY <2>1, <2>2, <2>4 DEF CallEffect, ThreadPC, CallPC
<1>10. ASSUME TakesEffect(t)
       PROVE  ApiGrows
  <2>1. PICK e \in Effects(t) : account' = e[1] /\ consented' = e[2] /\ installed' = e[3]
    BY <1>10 DEF TakesEffect
  <2>2. \/ UNCHANGED <<account, consented, installed>>
        \/ /\ account[Off(t)] = "absent" /\ account' = [account EXCEPT ![Off(t)] = "ours"]
           /\ UNCHANGED <<consented, installed>>
        \/ UNCHANGED <<account, installed>> /\ consented' = consented \union {Off(t)}
        \/ UNCHANGED <<account, consented>> /\ installed' = installed \union {Off(t)}
    BY <2>1 DEF Effects, MayRegister
  <2> QED
    BY <1>0, <1>10, <2>2 DEF TakesEffect, ApiGrows, ApiTyped, Accounts
<1>11. ASSUME Refused(t)
       PROVE  CallEffect(t)
  <2>1. Working(t) /\ UNCHANGED <<config, poolVars, tally>> /\ ApiGrows
    BY <1>10, <1>11 DEF Refused, Working, CallPC
  <2> QED
    BY <1>2, <1>11, <2>1 DEF Refused, CallEffect, Errors
<1>12. ASSUME TransportFails(t)
       PROVE  CallEffect(t)
  <2>1. Working(t) /\ UNCHANGED <<config, poolVars, tally>> /\ thread[t].pc \in CallPC
    BY <1>12 DEF TransportFails, Working, CallPC
  <2>2. ApiGrows
    BY <1>10, <1>12 DEF TransportFails
  <2>3. CASE LastTry(t)
    BY <1>2, <1>12, <2>1, <2>2, <2>3 DEF TransportFails, CallEffect, Errors
  <2>4. CASE ~LastTry(t)
    <3>1. Quiet /\ thread' = [thread EXCEPT ![t].tries = @ + 1]
      BY <1>12, <2>4 DEF TransportFails, Quiet
    <3>2. thread[t].tries + 1 \in 0 .. MaxTries - 1
      BY <1>0, <2>4, ProvisioningAssumption DEF LastTry, ThreadTyped, ThreadState
    <3>3. Moves(t, thread[t].pc)
      BY <1>0, <3>1, <3>2 DEF Moves, ThreadTyped, ThreadState
    <3>4. Onward(t, thread[t].pc)
      BY <2>1, <3>1, <3>3 DEF Onward, InSession, SigningIn, CallPC
    <3> QED
      BY <2>1, <2>2, <3>4 DEF CallEffect, ThreadPC, CallPC
  <2> QED
    BY <2>3, <2>4
<1> QED
  BY <1>3, <1>5, <1>6, <1>7, <1>8, <1>9, <1>11, <1>12 DEF CallStep

-----------------------------------------------------------------------------
(* Each client is provisioned by one thread.                               *)

\* The steps that touch neither the threads nor the range.
AsideStep ==
    \/ Begin \/ JoinAll \/ SetStop \/ Over \/ \E o \in Offset : CreatedElsewhere(o)

\* The steps, grouped by what they may change.
LEMMA NextCases ==
    ASSUME [Next]_vars
    PROVE  \/ \E t \in Thread : Claim(t) \/ Check(t) \/ Store(t) \/ CallStep(t)
           \/ AsideStep \/ UNCHANGED vars
BY DEF Next, ThreadStep, CallStep, AsideStep

\* The start, the join, a stop and accounts made elsewhere leave the threads of
\* the pool and their results alone.
LEMMA AsideFrame ==
    ASSUME AsideStep \/ UNCHANGED vars
    PROVE  /\ UNCHANGED <<config, nextOffset, completed, failed, firstError, thread, out, tally,
                          consented, installed>>
           /\ stop => stop'
BY DEF AsideStep, Begin, JoinAll, SetStop, Over, CreatedElsewhere, vars, apiVars

\* The range has Count clients.
LEMMA OffsetFinite == IsFiniteSet(Offset) /\ Cardinality(Offset) = Count
BY FS_Interval, ProvisioningAssumption DEF Offset

\* A part of the range has at most Count clients.
LEMMA OutCounted ==
    ASSUME NEW S \in SUBSET Offset
    PROVE  IsFiniteSet(S) /\ Cardinality(S) \in 0 .. Count
BY OffsetFinite, FS_Subset, FS_CardinalityType, ProvisioningAssumption

\* A thread at work is on a client of the range.
LEMMA WorkingOffset ==
    ASSUME ClaimInv, NEW t \in Thread, Working(t)
    PROVE  Off(t) \in Offset
BY TypeGroups, ProvisioningAssumption DEF ClaimInv, ClaimsDistinct, ThreadTyped, ThreadState, Off, Offset

\* Initially no client is claimed.
LEMMA ClaimInitInv == Init => ClaimInv
<1> SUFFICES ASSUME Init
             PROVE  ClaimInv
  OBVIOUS
<1>0. Count \in Nat \ {0} /\ MaxTries \in Nat \ {0}
  BY ProvisioningAssumption
<1>1. ConfigTyped
  BY DEF Init, ConfigTyped
<1>2. PoolTyped
  <2>1. nextOffset \in Nat /\ completed \in 0 .. Count /\ out \in SUBSET Offset
    BY <1>0 DEF Init
  <2> QED
    BY <2>1 DEF Init, PoolTyped
<1>3. ErrorTyped
  BY DEF Init, ErrorTyped, Errors
<1>4. ThreadTyped
  <2>1. [pc |-> "claim", off |-> 0, tries |-> 0] \in ThreadState
    BY <1>0 DEF ThreadState, ThreadPC
  <2> QED
    BY <2>1 DEF Init, ThreadTyped
<1>5. TallyTyped
  BY DEF Init, TallyTyped
<1>6. ApiTyped
  BY DEF Init, ApiTyped
<1>7. ClaimsDistinct
  BY FS_EmptySet DEF Init, ClaimsDistinct, Claimed, Working
<1> QED
  BY <1>1, <1>2, <1>3, <1>4, <1>5, <1>6, <1>7, TypeGroups DEF ClaimInv

\* fetch_add hands out a client that no thread has had.
LEMMA ClaimClaims ==
    ASSUME ClaimInv, NEW t \in Thread, Claim(t)
    PROVE  ClaimInv'
<1>0. ConfigTyped /\ PoolTyped /\ ErrorTyped /\ ThreadTyped /\ TallyTyped /\ ApiTyped
  BY TypeGroups DEF ClaimInv
<1>1. [pc |-> "check", off |-> nextOffset, tries |-> 0] \in ThreadState
  BY <1>0, ProvisioningAssumption DEF ThreadState, ThreadPC, PoolTyped
<1>2. /\ ThreadTyped' /\ \A u \in Thread : u # t => thread'[u] = thread[u]
      /\ thread'[t].pc = "check" /\ thread'[t].off = nextOffset
  BY <1>0, <1>1 DEF Claim, ThreadTyped
<1>3. nextOffset \in Nat /\ nextOffset' = nextOffset + 1 /\ UNCHANGED <<out, completed>>
  BY <1>0 DEF Claim, Advance, PoolTyped
<1>4. PoolTyped'
  BY <1>0, <1>3 DEF Claim, PoolTyped
<1>5. TypeOK'
  BY <1>0, <1>2, <1>4, TypeGroups DEF Claim, config, ConfigTyped, ErrorTyped, TallyTyped, ApiTyped, apiVars
<1>6. \A u \in Thread : Off(u) \in Nat
  BY <1>0 DEF ThreadTyped, ThreadState, Off
<1>7. \A o \in out : o \in Nat
  BY <1>0 DEF PoolTyped, Offset
<1>8. ClaimsDistinct'
  BY <1>2, <1>3, <1>6, <1>7 DEF ClaimInv, ClaimsDistinct, Claimed, Working, Off
<1> QED
  BY <1>5, <1>8 DEF ClaimInv

\* A thread that stops early keeps what it claimed.
LEMMA CheckClaims ==
    ASSUME ClaimInv, NEW t \in Thread, Check(t)
    PROVE  ClaimInv'
<1>0. ConfigTyped /\ PoolTyped /\ ErrorTyped /\ ThreadTyped /\ TallyTyped /\ ApiTyped
  BY TypeGroups DEF ClaimInv
<1>1. PICK pc \in {"exit", "session"} : Go(t, pc) /\ (pc = "session" => Off(t) < Count)
  BY <1>0, ProvisioningAssumption DEF Check, ThreadTyped, ThreadState, Off
<1>2. Moves(t, pc) /\ At(t, "check")
  BY <1>0, <1>1, GoMoves DEF Check, ThreadPC
<1>3. UNCHANGED <<config, poolVars, failed, firstError, tally, apiVars>>
  BY DEF Check
<1>4. TypeOK'
  BY <1>0, <1>2, <1>3, TypeGroups DEF Moves, config, poolVars, apiVars, ConfigTyped, PoolTyped,
     ErrorTyped, TallyTyped, ApiTyped
<1>5. ClaimsDistinct'
  BY <1>1, <1>2, <1>3 DEF Moves, poolVars, ClaimInv, ClaimsDistinct, Claimed, Working, Off, At
<1> QED
  BY <1>4, <1>5 DEF ClaimInv

\* A client that is stored is given up by its thread.
LEMMA StoreClaims ==
    ASSUME ClaimInv, NEW t \in Thread, Store(t)
    PROVE  ClaimInv'
<1>0. ConfigTyped /\ PoolTyped /\ ErrorTyped /\ ThreadTyped /\ TallyTyped /\ ApiTyped
  BY TypeGroups DEF ClaimInv
<1>1. Moves(t, "claim") /\ At(t, "store")
  BY <1>0, GoMoves DEF Store, ThreadPC
<1>2. Claimed(t) /\ Working(t)
  BY <1>1 DEF At, Claimed, Working
<1>3. Off(t) \in Offset /\ Off(t) \notin out /\ Off(t) < nextOffset
  BY <1>2, WorkingOffset DEF ClaimInv, ClaimsDistinct
<1>4. out' = out \union {Off(t)} /\ completed' = completed + 1 /\ UNCHANGED nextOffset
  BY DEF Store
<1>5. out' \in SUBSET Offset
  BY <1>0, <1>3, <1>4 DEF PoolTyped
<1>6. completed' = Cardinality(out') /\ completed' \in 0 .. Count
  <2>1. completed = Cardinality(out)
    BY DEF ClaimInv, ClaimsDistinct
  <2>2. IsFiniteSet(out)
    BY <1>0, OutCounted DEF PoolTyped
  <2>3. completed' = Cardinality(out')
    BY <1>3, <1>4, <2>1, <2>2, FS_AddElement
  <2> QED
    BY <1>5, <2>3, OutCounted
<1>7. TypeOK'
  <2>1. PoolTyped'
    BY <1>0, <1>5, <1>6 DEF Store, PoolTyped
  <2> QED
    BY <1>0, <1>1, <2>1, TypeGroups DEF Moves, Store, config, apiVars, ConfigTyped, ErrorTyped,
       TallyTyped, ApiTyped
<1>8. ClaimsDistinct'
  <2>1. \A u \in Thread : u # t /\ Claimed(u) => Off(u) # Off(t)
    BY <1>2 DEF ClaimInv, ClaimsDistinct
  <2> QED
    BY <1>1, <1>3, <1>4, <1>6, <2>1 DEF Moves, ClaimInv, ClaimsDistinct, Claimed, Working, Off
<1> QED
  BY <1>7, <1>8 DEF ClaimInv

\* The calls for a client leave the claims alone.
LEMMA CallClaims ==
    ASSUME ClaimInv, NEW t \in Thread, CallEffect(t)
    PROVE  ClaimInv'
<1>0. ConfigTyped /\ PoolTyped /\ ErrorTyped /\ ThreadTyped /\ TallyTyped /\ ApiTyped
  BY TypeGroups DEF ClaimInv
<1>1. Working(t) /\ UNCHANGED <<config, poolVars>> /\ ApiTyped'
  BY DEF CallEffect, ApiGrows
<1>2. PICK pc \in ThreadPC \ {"claim", "check"} : Moves(t, pc)
  BY DEF CallEffect, Thrown, Onward, Reused, Bought, ThreadPC, CallPC, SessionPC
<1>3. ErrorTyped'
  <2>1. Thrown(t) => ErrorTyped'
    BY <1>0 DEF Thrown, ErrorTyped, Errors
  <2> QED
    BY <1>0, <2>1 DEF CallEffect, Onward, Quiet, Reused, Bought, ErrorTyped
<1>4. TallyTyped'
  <2>1. [tally EXCEPT !.reused = @ + 1] \in [reused : Nat, before : Nat, midRun : Nat]
    BY <1>0 DEF TallyTyped
  <2>2. [tally EXCEPT !.midRun = @ + 1] \in [reused : Nat, before : Nat, midRun : Nat]
    BY <1>0 DEF TallyTyped
  <2>3. [tally EXCEPT !.before = @ + 1] \in [reused : Nat, before : Nat, midRun : Nat]
    BY <1>0 DEF TallyTyped
  <2>4. \/ UNCHANGED tally \/ tally' = [tally EXCEPT !.reused = @ + 1]
        \/ tally' = [tally EXCEPT !.midRun = @ + 1] \/ tally' = [tally EXCEPT !.before = @ + 1]
    BY DEF CallEffect, Thrown, Onward, Quiet, Reused, Bought
  <2> QED
    BY <1>0, <2>1, <2>2, <2>3, <2>4 DEF TallyTyped
<1>5. TypeOK'
  BY <1>0, <1>1, <1>2, <1>3, <1>4, TypeGroups DEF Moves, config, poolVars, ConfigTyped, PoolTyped
<1>6. ClaimsDistinct'
  BY <1>1, <1>2 DEF Moves, poolVars, ClaimInv, ClaimsDistinct, Claimed, Working, Off
<1> QED
  BY <1>5, <1>6 DEF ClaimInv

\* Every step keeps the claims distinct.
LEMMA ClaimInvNext == ClaimInv /\ [Next]_vars => ClaimInv'
<1> SUFFICES ASSUME ClaimInv, [Next]_vars
             PROVE  ClaimInv'
  OBVIOUS
<1>0. ConfigTyped /\ PoolTyped /\ ErrorTyped /\ ThreadTyped /\ TallyTyped /\ ApiTyped
  BY TypeGroups DEF ClaimInv
<1>1. ASSUME NEW t \in Thread, CallStep(t)
      PROVE  ClaimInv'
  <2>1. Working(t)
    BY <1>1 DEF CallStep, TakeSession, Login, Register, Relogin, Mint, RecordConsents, Remint,
       Bootstrap, Assign, Refused, TransportFails, Working, CallPC, At
  <2> QED
    BY <1>1, <2>1, WorkingOffset, CallEffects, CallClaims DEF ClaimInv
<1>2. CASE AsideStep \/ UNCHANGED vars
  <2>1. PoolTyped' /\ ApiTyped'
    BY <1>0, <1>2 DEF AsideStep, Begin, JoinAll, Outcome, SetStop, Over, CreatedElsewhere, vars,
       apiVars, PoolTyped, ApiTyped, Accounts
  <2>2. TypeOK'
    BY <1>0, <1>2, <2>1, AsideFrame, TypeGroups DEF config, ConfigTyped, ErrorTyped, ThreadTyped,
       TallyTyped
  <2> QED
    BY <1>2, <2>2, AsideFrame DEF ClaimInv, ClaimsDistinct, Claimed, Working, Off
<1> QED
  BY <1>1, <1>2, NextCases, ClaimClaims, CheckClaims, StoreClaims

\* The claims are distinct in every reachable state.
LEMMA ClaimInvHolds == Spec => []ClaimInv
BY ClaimInitInv, ClaimInvNext, PTL DEF Spec

\* What the other invariants need of a step.
LEMMA NextEffects ==
    ASSUME ClaimInv, [Next]_vars
    PROVE  \/ \E t \in Thread : Claim(t) \/ Check(t) \/ Store(t) \/ CallEffect(t)
           \/ AsideStep \/ UNCHANGED vars
<1>1. ASSUME NEW t \in Thread, CallStep(t)
      PROVE  CallEffect(t)
  <2>1. Working(t)
    BY <1>1 DEF CallStep, TakeSession, Login, Register, Relogin, Mint, RecordConsents, Remint,
       Bootstrap, Assign, Refused, TransportFails, Working, CallPC, At
  <2> QED
    BY <1>1, <2>1, WorkingOffset, CallEffects DEF ClaimInv
<1> QED
  BY <1>1, NextCases

-----------------------------------------------------------------------------
(* The range is handed out whole or not at all.                            *)

\* Initially nothing is stored and nothing is missing.
LEMMA RangeInitInv == Init => RangeInv
BY ProvisioningAssumption DEF Init, RangeInv, OutInstalled, NoneForgotten, WholeRange, At, Offset

\* A thread that moves: the pool has not been joined.
LEMMA NotJoined ==
    ASSUME RangeInv, NEW t \in Thread, ~At(t, "exit")
    PROVE  result # "clients"
BY DEF RangeInv, WholeRange

\* A client that is claimed is in its thread's hands.
LEMMA ClaimRange ==
    ASSUME ClaimInv, RangeInv, NEW t \in Thread, Claim(t)
    PROVE  RangeInv'
<1>0. PoolTyped /\ ThreadTyped
  BY TypeGroups DEF ClaimInv
<1>1. /\ \A u \in Thread : u # t => thread'[u] = thread[u]
      /\ thread[t].pc = "claim" /\ thread'[t].pc = "check" /\ thread'[t].off = nextOffset
  BY <1>0 DEF Claim, ThreadTyped, At
<1>2. nextOffset \in Nat /\ nextOffset' = nextOffset + 1 /\ Count \in Nat
      /\ UNCHANGED <<out, failed, stop, installed, result>>
  BY <1>0, ProvisioningAssumption DEF Claim, Advance, PoolTyped, apiVars
<1>3. OutInstalled'
  BY <1>1, <1>2 DEF RangeInv, OutInstalled, At, Off
<1>4. NoneForgotten'
  <2> SUFFICES ASSUME ~failed, ~stop
               PROVE  /\ \A o \in Offset : o < nextOffset' =>
                             o \in out' \/ \E u \in Thread : Claimed(u)' /\ Off(u)' = o
                      /\ \A u \in Thread : At(u, "exit")' => Count <= nextOffset'
    BY <1>2 DEF NoneForgotten
  <2>1. ASSUME NEW o \in Offset, o < nextOffset'
        PROVE  o \in out' \/ \E u \in Thread : Claimed(u)' /\ Off(u)' = o
    <3>1. CASE o = nextOffset
      BY <1>1, <3>1 DEF Claimed, Off
    <3>2. CASE o # nextOffset
      <4>1. o < nextOffset
        BY <1>2, <2>1, <3>2 DEF Offset
      <4>2. o \in out \/ \E u \in Thread : Claimed(u) /\ Off(u) = o
        BY <4>1 DEF RangeInv, NoneForgotten
      <4> QED
        BY <1>1, <1>2, <4>2 DEF Claimed, Off
    <3> QED
      BY <3>1, <3>2
  <2>2. ASSUME NEW u \in Thread, At(u, "exit")'
        PROVE  Count <= nextOffset'
    BY <1>1, <1>2, <2>2 DEF RangeInv, NoneForgotten, At
  <2> QED
    BY <2>1, <2>2
<1>5. WholeRange'
  BY <1>1, <1>2, NotJoined DEF At, WholeRange
<1> QED
  BY <1>3, <1>4, <1>5 DEF RangeInv

\* A thread that gives its client up does so after a failure or a stop.
LEMMA CheckRange ==
    ASSUME ClaimInv, RangeInv, NEW t \in Thread, Check(t)
    PROVE  RangeInv'
<1>0. ThreadTyped /\ PoolTyped
  BY TypeGroups DEF ClaimInv
<1>1. PICK pc \in {"exit", "session"} :
          Go(t, pc) /\ (pc = "exit" => Off(t) >= Count \/ failed \/ stop)
  BY <1>0, ProvisioningAssumption DEF Check, ThreadTyped, ThreadState, Off
<1>2. Moves(t, pc) /\ thread[t].pc = "check"
  BY <1>0, <1>1, GoMoves DEF Check, ThreadPC, At
<1>3. UNCHANGED <<nextOffset, out, failed, stop, installed, result>>
  BY DEF Check, poolVars, apiVars
<1>4. OutInstalled'
  BY <1>2, <1>3 DEF Moves, RangeInv, OutInstalled, At, Off
<1>5. Off(t) \in Nat /\ Off(t) < nextOffset /\ nextOffset \in Nat /\ Count \in Nat
  BY <1>0, <1>2, ProvisioningAssumption DEF ClaimInv, ClaimsDistinct, Claimed, ThreadTyped,
     ThreadState, Off, PoolTyped
<1>6. NoneForgotten'
  <2> SUFFICES ASSUME ~failed, ~stop
               PROVE  /\ \A o \in Offset : o < nextOffset =>
                             o \in out \/ \E u \in Thread : Claimed(u)' /\ Off(u)' = o
                      /\ \A u \in Thread : At(u, "exit")' => Count <= nextOffset
    BY <1>3 DEF NoneForgotten
  <2>1. pc = "exit" => Off(t) \notin Offset /\ Count <= nextOffset
    BY <1>1, <1>5 DEF Offset
  <2>2. \A u \in Thread : At(u, "exit")' => Count <= nextOffset
    BY <1>2, <2>1 DEF Moves, At, RangeInv, NoneForgotten
  <2>3. ASSUME NEW o \in Offset, o < nextOffset
        PROVE  o \in out \/ \E u \in Thread : Claimed(u)' /\ Off(u)' = o
    <3>1. o \in out \/ \E u \in Thread : Claimed(u) /\ Off(u) = o
      BY <2>3 DEF RangeInv, NoneForgotten
    <3> QED
      BY <1>2, <2>1, <3>1 DEF Moves, Claimed, Off
  <2> QED
    BY <2>2, <2>3
<1>7. WholeRange'
  BY <1>2, <1>3, NotJoined DEF At, WholeRange
<1> QED
  BY <1>4, <1>6, <1>7 DEF RangeInv

\* A client is stored once its session is installed.
LEMMA StoreRange ==
    ASSUME ClaimInv, RangeInv, NEW t \in Thread, Store(t)
    PROVE  RangeInv'
<1>0. ThreadTyped
  BY TypeGroups DEF ClaimInv
<1>1. Moves(t, "claim") /\ thread[t].pc = "store"
  BY <1>0, GoMoves DEF Store, ThreadPC, At
<1>2. out' = out \union {Off(t)} /\ UNCHANGED <<nextOffset, failed, stop, installed, result>>
  BY DEF Store, apiVars
<1>3. OutInstalled'
  BY <1>1, <1>2 DEF Moves, RangeInv, OutInstalled, At, Off
<1>4. NoneForgotten'
  BY <1>1, <1>2 DEF Moves, RangeInv, NoneForgotten, Claimed, At, Off
<1>5. WholeRange'
  BY <1>1, <1>2, NotJoined DEF At, WholeRange
<1> QED
  BY <1>3, <1>4, <1>5 DEF RangeInv

\* A call that throws makes the whole range fail.
LEMMA CallRange ==
    ASSUME ClaimInv, RangeInv, NEW t \in Thread, CallEffect(t)
    PROVE  RangeInv'
<1>1. /\ Working(t) /\ installed \subseteq installed'
      /\ UNCHANGED <<nextOffset, out, stop, result>>
  BY DEF CallEffect, ApiGrows, poolVars
<1>2. PICK pc \in ThreadPC \ {"claim", "check"} :
          /\ Moves(t, pc)
          /\ pc = "exit" => failed'
          /\ pc # "exit" => UNCHANGED failed
          /\ pc = "store" => Off(t) \in installed'
  BY DEF CallEffect, Thrown, Onward, Quiet, Reused, Bought, ThreadPC, CallPC, SessionPC
<1>3. OutInstalled'
  BY <1>1, <1>2 DEF Moves, RangeInv, OutInstalled, At, Off
<1>4. NoneForgotten'
  <2>1. CASE pc = "exit"
    BY <1>2, <2>1 DEF NoneForgotten
  <2>2. CASE pc # "exit"
    <3>1. \A u \in Thread : Claimed(u) => Claimed(u)' /\ Off(u)' = Off(u)
      BY <1>1, <1>2, <2>2 DEF Moves, Claimed, Off
    <3>2. \A u \in Thread : At(u, "exit")' => At(u, "exit")
      BY <1>2, <2>2 DEF Moves, At
    <3> QED
      BY <1>1, <1>2, <2>2, <3>1, <3>2 DEF RangeInv, NoneForgotten
  <2> QED
    BY <2>1, <2>2
<1>5. WholeRange'
  BY <1>1, NotJoined DEF Working, At, WholeRange
<1> QED
  BY <1>3, <1>4, <1>5 DEF RangeInv

\* A stop may leave clients out, and is reported.
LEMMA AsideRange ==
    ASSUME ClaimInv, RangeInv, AsideStep \/ UNCHANGED vars
    PROVE  RangeInv'
<1>0. UNCHANGED <<nextOffset, failed, thread, out, installed>> /\ (stop => stop')
  BY AsideFrame
<1>1. OutInstalled'
  BY <1>0 DEF RangeInv, OutInstalled, At, Off
<1>2. NoneForgotten'
  <2>1. stop \in BOOLEAN /\ stop' \in BOOLEAN
    BY ClaimInvNext, TypeGroups DEF ClaimInv, PoolTyped, Next, AsideStep
  <2> QED
    BY <1>0, <2>1 DEF RangeInv, NoneForgotten, Claimed, At, Off
<1>3. WholeRange'
  <2>1. CASE JoinAll /\ result' = "clients"
    <3>1. ~stop /\ ~failed /\ \A t \in Thread : At(t, "exit")
      BY <2>1 DEF JoinAll, Outcome
    <3>2. Count <= nextOffset
      BY <3>1, ProvisioningAssumption DEF RangeInv, NoneForgotten
    <3>3. Offset \subseteq out
      <4> SUFFICES ASSUME NEW o \in Offset
                   PROVE  o \in out
        OBVIOUS
      <4>1. o < nextOffset
        BY <3>2, TypeGroups, ProvisioningAssumption DEF ClaimInv, PoolTyped, Offset
      <4> QED
        BY <3>1, <4>1 DEF RangeInv, NoneForgotten, Claimed, At
    <3>4. out = Offset
      BY <3>3, TypeGroups DEF ClaimInv, PoolTyped
    <3> QED
      BY <1>0, <3>1, <3>4 DEF WholeRange, At
  <2>2. CASE ~(JoinAll /\ result' = "clients")
    <3>1. result' = "clients" => result = "clients"
      BY <2>2 DEF AsideStep, Begin, JoinAll, SetStop, Over, CreatedElsewhere, vars
    <3> QED
      BY <1>0, <3>1 DEF RangeInv, WholeRange, At
  <2> QED
    BY <2>1, <2>2
<1> QED
  BY <1>1, <1>2, <1>3 DEF RangeInv

\* Every step keeps the range whole or the failure reported.
LEMMA RangeInvNext == ClaimInv /\ RangeInv /\ [Next]_vars => RangeInv'
BY NextEffects, ClaimRange, CheckRange, StoreRange, CallRange, AsideRange

\* The range is whole, or the failure reported, in every reachable state.
LEMMA RangeInvHolds == Spec => []RangeInv
BY ClaimInvHolds, RangeInitInv, RangeInvNext, PTL DEF Spec

-----------------------------------------------------------------------------
(* A rejected client was turned away.                                      *)

\* Initially nothing was rejected.
LEMMA RejectInitInv == Init => RejectInv
BY DEF Init, RejectInv, ReloginExists, RejectedIsTurnedAway, At

\* The platform's accounts are only made, and what it refused stays refused.
AccountsGrow ==
    /\ limited \subseteq limited'
    /\ \A o \in Offset : account'[o] = account[o] \/ (account[o] = "absent" /\ account'[o] = "ours")

\* A rejection stays explained while accounts are only made, and a second
\* sign-in is tried only for an account that exists or was refused.
LEMMA RejectKept ==
    ASSUME ClaimInv, RejectInv, AccountsGrow,
           \A t \in Thread : At(t, "relogin")' =>
               \/ thread'[t] = thread[t]
               \/ /\ Off(t) \in Offset /\ Off(t)' = Off(t)
                  /\ account[Off(t)] # "absent" \/ Off(t) \in limited',
           \/ firstError' = firstError \/ firstError' # "rejected"
           \/ \E o \in Offset : account[o] = "foreign" \/ o \in limited'
    PROVE  RejectInv'
<1>1. ReloginExists'
  <2> SUFFICES ASSUME NEW t \in Thread, At(t, "relogin")'
               PROVE  account'[Off(t)'] # "absent" \/ Off(t)' \in limited'
    BY DEF ReloginExists
  <2>1. Off(t)' = Off(t) /\ Off(t) \in Offset /\ (account[Off(t)] # "absent" \/ Off(t) \in limited')
    <3>1. CASE thread'[t] = thread[t]
      BY <3>1, WorkingOffset DEF RejectInv, ReloginExists, AccountsGrow, At, Off, Working
    <3> QED
      BY <3>1
  <2> QED
    BY <2>1 DEF AccountsGrow
<1>2. RejectedIsTurnedAway'
  BY DEF RejectInv, RejectedIsTurnedAway, AccountsGrow
<1> QED
  BY <1>1, <1>2 DEF RejectInv

\* Every step keeps rejections explained.
LEMMA RejectInvNext == ClaimInv /\ RejectInv /\ [Next]_vars => RejectInv'
<1> SUFFICES ASSUME ClaimInv, RejectInv, [Next]_vars
             PROVE  RejectInv'
  OBVIOUS
<1>0. ThreadTyped /\ ApiTyped
  BY TypeGroups DEF ClaimInv
<1>1. ASSUME NEW t \in Thread, Claim(t) \/ Check(t) \/ Store(t)
      PROVE  RejectInv'
  <2>1. /\ \A u \in Thread : u # t => thread'[u] = thread[u]
        /\ thread'[t].pc # "relogin" /\ UNCHANGED <<account, limited, firstError>>
    <3>1. CASE Claim(t)
      BY <1>0, <3>1 DEF Claim, ThreadTyped, apiVars
    <3>2. ASSUME NEW pc \in {"exit", "session", "claim"}, Go(t, pc)
          PROVE  (\A u \in Thread : u # t => thread'[u] = thread[u]) /\ thread'[t].pc # "relogin"
      BY <1>0, <3>2, GoMoves DEF Moves, ThreadPC
    <3>3. CASE Check(t) \/ Store(t)
      BY <3>2, <3>3 DEF Check, Store, apiVars
    <3> QED
      BY <1>1, <3>1, <3>3
  <2>2. AccountsGrow
    BY <2>1 DEF AccountsGrow
  <2> QED
    BY <2>1, <2>2, RejectKept DEF At
<1>2. ASSUME NEW t \in Thread, CallEffect(t)
      PROVE  RejectInv'
  <2>1. Off(t) \in Offset /\ account[Off(t)] \in Accounts
    BY <1>0, <1>2, WorkingOffset DEF CallEffect, ApiTyped
  <2>2. AccountsGrow
    BY <1>2 DEF CallEffect, ApiGrows, AccountsGrow
  <2>3. PICK pc \in ThreadPC :
            /\ Moves(t, pc)
            /\ pc = "relogin" =>
                   At(t, "relogin") \/ account[Off(t)] # "absent" \/ Off(t) \in limited'
    BY <1>2 DEF CallEffect, Thrown, Onward, Reused, Bought, ThreadPC, CallPC, SessionPC
  <2>4. \A u \in Thread : At(u, "relogin")' =>
            \/ thread'[u] = thread[u]
            \/ /\ Off(u) \in Offset /\ Off(u)' = Off(u)
               /\ account[Off(u)] # "absent" \/ Off(u) \in limited'
    BY <2>1, <2>2, <2>3 DEF Moves, At, Off, RejectInv, ReloginExists, AccountsGrow
  <2>5. \/ firstError' = firstError \/ firstError' # "rejected"
        \/ \E o \in Offset : account[o] = "foreign" \/ o \in limited'
    <3>1. At(t, "relogin") /\ account[Off(t)] # "ours" =>
              account[Off(t)] = "foreign" \/ Off(t) \in limited'
      BY <2>1, <2>2 DEF RejectInv, ReloginExists, Accounts, AccountsGrow
    <3> QED
      BY <1>2, <2>1, <3>1 DEF CallEffect, Thrown, Onward, Quiet, Reused, Bought
  <2> QED
    BY <2>2, <2>4, <2>5, RejectKept
<1>3. CASE AsideStep \/ UNCHANGED vars
  <2>1. AccountsGrow
    BY <1>0, <1>3 DEF AccountsGrow, AsideStep, Begin, JoinAll, SetStop, Over, CreatedElsewhere,
       vars, apiVars, ApiTyped
  <2> QED
    BY <1>3, <2>1, AsideFrame, RejectKept
<1> QED
  BY <1>1, <1>2, <1>3, NextEffects

-----------------------------------------------------------------------------
(* The sign-ins are counted exactly.                                       *)

\* Initially every thread is about to claim.
LEMMA RosterInit == Init => RosterFirst
BY DEF Init, RosterFirst, At, SigningIn

\* Every step keeps sign-ins to clients that the roster does not cover.
LEMMA RosterNext == ClaimInv /\ RosterFirst /\ [Next]_vars => RosterFirst'
<1> SUFFICES ASSUME ClaimInv, RosterFirst, [Next]_vars
             PROVE  RosterFirst'
  OBVIOUS
<1>0. ThreadTyped
  BY TypeGroups DEF ClaimInv
<1>1. ASSUME NEW t \in Thread, NEW pc, \A u \in Thread : u # t => thread'[u] = thread[u],
             thread'[t].pc = pc, UNCHANGED <<config, result>>,
             pc \in {"login", "register", "relogin"} => Off(t)' \notin roster,
             RosterCovers, result # "begin"
      PROVE  RosterFirst'
  BY <1>1 DEF RosterFirst, RosterCovers, SigningIn, At, Off, config
<1>2. ASSUME NEW t \in Thread, Claim(t)
      PROVE  RosterFirst'
  <2>1. /\ \A u \in Thread : u # t => thread'[u] = thread[u]
        /\ thread'[t].pc = "check" /\ UNCHANGED <<config, result>>
    BY <1>0, <1>2 DEF Claim, ThreadTyped
  <2>2. RosterCovers /\ result # "begin"
    BY <1>2 DEF Claim, RosterFirst
  <2> QED
    BY <1>1, <2>1, <2>2
<1>3. ASSUME NEW t \in Thread, ~At(t, "claim")
      PROVE  RosterCovers /\ result # "begin"
  BY <1>3 DEF RosterFirst
<1>4. ASSUME NEW t \in Thread, Check(t) \/ Store(t)
      PROVE  RosterFirst'
  <2>1. PICK pc \in {"exit", "session", "claim"} : Go(t, pc)
    BY <1>4 DEF Check, Store
  <2>2. Moves(t, pc) /\ UNCHANGED <<config, result>> /\ ~At(t, "claim")
    BY <1>0, <1>4, <2>1, GoMoves DEF Check, Store, poolVars, ThreadPC, At
  <2> QED
    BY <1>1, <1>3, <2>2 DEF Moves
<1>5. ASSUME NEW t \in Thread, CallEffect(t)
      PROVE  RosterFirst'
  <2>1. PICK pc \in ThreadPC : /\ Moves(t, pc)
                               /\ pc \in {"login", "register", "relogin"} => Off(t) \notin roster
    BY <1>5 DEF CallEffect, Thrown, Onward, Reused, Bought, ThreadPC, CallPC, SessionPC, RosterFirst
  <2>2. UNCHANGED <<config, result>> /\ ~At(t, "claim")
    BY <1>5 DEF CallEffect, poolVars, Working, At
  <2>3. Off(t)' = Off(t)
    BY <2>1 DEF Moves, Off
  <2> QED
    BY <1>1, <1>3, <2>1, <2>2, <2>3 DEF Moves
<1>6. CASE AsideStep \/ UNCHANGED vars
  <2>1. UNCHANGED <<config, thread>>
    BY <1>6, AsideFrame
  <2>2. (result' = "begin" => result = "begin") /\ (result' = "running" => RosterCovers)
    BY <1>6 DEF AsideStep, Begin, JoinAll, Outcome, SetStop, Over, CreatedElsewhere, vars, RosterFirst
  <2> QED
    BY <2>1, <2>2 DEF RosterFirst, RosterCovers, SigningIn, At, Off, config
<1> QED
  BY <1>2, <1>4, <1>5, <1>6, NextEffects

\* The clients with a session are clients of the range.
LEMMA HeldTyped ==
    ASSUME ClaimInv
    PROVE  Held \in SUBSET Offset
<1>1. \A t \in Thread : InSession(t) => Off(t) \in Offset
  BY WorkingOffset DEF InSession, SessionPC, Working
<1> QED
  BY <1>1, TypeGroups DEF ClaimInv, PoolTyped, Held

\* The session a thread has just got is a new one.
LEMMA HeldGrows ==
    ASSUME ClaimInv, NEW t \in Thread, Working(t), ~InSession(t), UNCHANGED out,
           NEW pc \in SessionPC, Moves(t, pc)
    PROVE  Held' = Held \union {Off(t)} /\ Off(t) \notin Held
<1>1. \A u \in Thread : InSession(u)' <=> u = t \/ InSession(u)
  BY DEF Moves, InSession
<1>2. \A u \in Thread : Off(u)' = Off(u)
  BY DEF Moves, Off
<1>3. Off(t) \notin Held
  <2>1. Off(t) \notin out /\ \A u \in Thread : InSession(u) => Off(u) # Off(t)
    BY DEF ClaimInv, ClaimsDistinct, Claimed, Working, InSession, SessionPC
  <2> QED
    BY <2>1 DEF Held
<1> QED
  BY <1>1, <1>2, <1>3 DEF Held

\* Initially nothing is tallied.
LEMMA TallyInit == Init => TallyFollows
<1> SUFFICES ASSUME Init
             PROVE  TallyFollows
  OBVIOUS
<1>1. Held = {}
  BY DEF Init, Held, InSession, SessionPC
<1>2. Cardinality(Held \intersect roster) = 0 /\ Cardinality(Held \ roster) = 0
  BY <1>1, FS_EmptySet
<1> QED
  BY <1>2 DEF Init, TallyFollows, Paid, Unpaid

\* A step that neither tallies nor makes a session keeps the tally.
LEMMA TallyKept ==
    ASSUME TallyFollows, UNCHANGED <<config, tally>>, failed' \/ (Held' = Held /\ UNCHANGED failed)
    PROVE  TallyFollows'
BY DEF TallyFollows, Paid, Unpaid, config

\* A session from the roster is tallied as a sign-in.
LEMMA ReusedTally ==
    ASSUME ClaimInv, TallyFollows, NEW t \in Thread, NEW pc \in SessionPC, Reused(t, pc),
           UNCHANGED <<config, out>>
    PROVE  TallyFollows'
<1>0. TallyTyped
  BY TypeGroups DEF ClaimInv
<1>1. Held' = Held \union {Off(t)} /\ Off(t) \notin Held /\ Off(t) \in roster
  BY HeldGrows DEF Reused, At, Working, InSession, SessionPC
<1>2. UNCHANGED roster
  BY DEF config
<1>3. IsFiniteSet(Held \intersect roster) /\ IsFiniteSet(Held \ roster)
  BY HeldTyped, OutCounted
<1>4. Cardinality(Held' \intersect roster') = Cardinality(Held \intersect roster) + 1
  <2>1. Held' \intersect roster' = (Held \intersect roster) \union {Off(t)} /\ Off(t) \notin Held \intersect roster
    BY <1>1, <1>2
  <2> QED
    BY <1>3, <2>1, FS_AddElement
<1>5. Held' \ roster' = Held \ roster
  BY <1>1, <1>2
<1>6. tally'.reused = tally.reused + 1 /\ tally'.before = tally.before /\ tally'.midRun = tally.midRun
  BY <1>0 DEF Reused, TallyTyped
<1>7. Paid' = Paid /\ Unpaid' = Unpaid /\ UNCHANGED <<failed, rosterFile, required>>
  BY <1>6 DEF Paid, Unpaid, Reused, config
<1> QED
  BY <1>4, <1>5, <1>6, <1>7 DEF TallyFollows

\* A session that was made is tallied as what it was made by.
LEMMA BoughtTally ==
    ASSUME ClaimInv, RosterFirst, TallyFollows, NEW t \in Thread, Bought(t),
           UNCHANGED <<config, out>>
    PROVE  TallyFollows'
<1>0. TallyTyped
  BY TypeGroups DEF ClaimInv
<1>1. Working(t) /\ ~InSession(t) /\ Off(t) \notin roster /\ ~At(t, "claim")
  BY DEF Bought, SigningIn, Working, InSession, SessionPC, RosterFirst, At
<1>2. Held' = Held \union {Off(t)} /\ Off(t) \notin Held /\ Off(t) \in Offset
  BY <1>1, HeldGrows, WorkingOffset DEF Bought, SessionPC
<1>3. UNCHANGED <<roster, rosterFile, required, failed>>
  BY DEF config, Bought
<1>4. IsFiniteSet(Held \intersect roster) /\ IsFiniteSet(Held \ roster)
  BY HeldTyped, OutCounted
<1>5. Cardinality(Held' \ roster') = Cardinality(Held \ roster) + 1
  <2>1. Held' \ roster' = (Held \ roster) \union {Off(t)} /\ Off(t) \notin Held \ roster
    BY <1>1, <1>2, <1>3
  <2> QED
    BY <1>4, <2>1, FS_AddElement
<1>6. Held' \intersect roster' = Held \intersect roster
  BY <1>1, <1>2, <1>3
<1>7. Paid' = Paid + 1 /\ Unpaid' = Unpaid /\ tally'.reused = tally.reused
  BY <1>0, ProvisioningAssumption DEF Bought, TallyTyped, Paid, Unpaid
<1>8. ~(rosterFile /\ required)
  BY <1>1, <1>2 DEF RosterFirst, RosterCovers
<1> QED
  BY <1>3, <1>5, <1>6, <1>7, <1>8 DEF TallyFollows

\* Every step keeps the tally.
LEMMA TallyNext == ClaimInv /\ TallyInv /\ [Next]_vars => TallyFollows'
<1> SUFFICES ASSUME ClaimInv, TallyInv, [Next]_vars
             PROVE  TallyFollows'
  OBVIOUS
<1>0. ThreadTyped /\ RosterFirst /\ TallyFollows
  BY TypeGroups DEF ClaimInv, TallyInv
<1>1. ASSUME NEW t \in Thread, UNCHANGED out, \A u \in Thread : u # t => thread'[u] = thread[u],
             InSession(t)' <=> InSession(t), InSession(t) => Off(t)' = Off(t)
      PROVE  Held' = Held
  BY <1>1 DEF Held, InSession, Off
<1>2. ASSUME NEW t \in Thread, Claim(t)
      PROVE  TallyFollows'
  <2>1. /\ \A u \in Thread : u # t => thread'[u] = thread[u]
        /\ thread[t].pc = "claim" /\ thread'[t].pc = "check"
    BY <1>0, <1>2 DEF Claim, ThreadTyped, At
  <2>2. UNCHANGED <<config, tally, failed, out>>
    BY <1>2 DEF Claim
  <2>3. Held' = Held
    BY <1>1, <2>1, <2>2 DEF InSession, SessionPC
  <2> QED
    BY <1>0, <2>2, <2>3, TallyKept
<1>3. ASSUME NEW t \in Thread, Check(t)
      PROVE  TallyFollows'
  <2>1. PICK pc \in {"exit", "session"} : Go(t, pc)
    BY <1>3 DEF Check
  <2>2. Moves(t, pc) /\ UNCHANGED <<config, tally, failed, out>> /\ thread[t].pc = "check"
    BY <1>0, <1>3, <2>1, GoMoves DEF Check, poolVars, ThreadPC, At
  <2>3. Held' = Held
    BY <1>1, <2>2 DEF Moves, InSession, SessionPC
  <2> QED
    BY <1>0, <2>2, <2>3, TallyKept
<1>4. ASSUME NEW t \in Thread, Store(t)
      PROVE  TallyFollows'
  <2>1. Moves(t, "claim") /\ InSession(t) /\ out' = out \union {Off(t)} /\ UNCHANGED <<config, tally, failed>>
    BY <1>0, <1>4, GoMoves DEF Store, ThreadPC, At, InSession, SessionPC
  <2>2. \A u \in Thread : InSession(u)' <=> u # t /\ InSession(u)
    BY <2>1 DEF Moves, InSession, SessionPC
  <2>3. \A u \in Thread : Off(u)' = Off(u)
    BY <2>1 DEF Moves, Off
  <2>4. Held' = Held
    BY <2>1, <2>2, <2>3 DEF Held
  <2> QED
    BY <1>0, <2>1, <2>4, TallyKept
<1>5. ASSUME NEW t \in Thread, CallEffect(t)
      PROVE  TallyFollows'
  <2>1. UNCHANGED <<config, out>>
    BY <1>5 DEF CallEffect, poolVars
  <2>2. CASE Thrown(t)
    BY <1>0, <2>1, <2>2, TallyKept DEF Thrown
  <2>3. ASSUME NEW pc \in ThreadPC, Onward(t, pc)
        PROVE  TallyFollows'
    <3>1. Held' = Held
      BY <1>1, <2>1, <2>3 DEF Onward, Moves, InSession, Off
    <3> QED
      BY <1>0, <2>1, <2>3, <3>1, TallyKept DEF Onward, Quiet
  <2>4. ASSUME NEW pc \in SessionPC, Reused(t, pc)
        PROVE  TallyFollows'
    BY <1>0, <2>1, <2>4, ReusedTally
  <2>5. CASE Bought(t)
    BY <1>0, <2>1, <2>5, BoughtTally
  <2> QED
    BY <1>5, <2>2, <2>3, <2>4, <2>5 DEF CallEffect
<1>6. CASE AsideStep \/ UNCHANGED vars
  <2>1. UNCHANGED <<config, tally, failed, out, thread>>
    BY <1>6, AsideFrame
  <2>2. Held' = Held
    BY <2>1 DEF Held, InSession, Off
  <2> QED
    BY <1>0, <2>1, <2>2, TallyKept
<1> QED
  BY <1>2, <1>3, <1>4, <1>5, <1>6, NextEffects

\* The tally follows the sessions in every reachable state.
LEMMA TallyInvHolds == Spec => []TallyInv
<1>1. Init => TallyInv
  BY RosterInit, TallyInit DEF TallyInv
<1>2. ClaimInv /\ TallyInv /\ [Next]_vars => TallyInv'
  BY RosterNext, TallyNext DEF TallyInv
<1> QED
  BY <1>1, <1>2, ClaimInvHolds, PTL DEF Spec

-----------------------------------------------------------------------------
(* The theorems.                                                           *)

\* Every state is typed: in particular no call is tried more than MaxTries
\* times, and the offsets stored are offsets of the range.
THEOREM ProvisioningTypeCorrect == Spec => []TypeOK
BY ClaimInvHolds, PTL DEF ClaimInv

\* However many threads race for nextOffset, and wherever they fail, no
\* client is provisioned by two of them and none is stored twice.
THEOREM ClientsHaveOneThread == Spec => []OneThreadPerClient
<1>1. ClaimInv => OneThreadPerClient
  BY DEF ClaimInv, ClaimsDistinct, OneThreadPerClient, Claimed, Working
<1> QED
  BY <1>1, ClaimInvHolds, PTL

\* The range that provisionRange returns is complete, and every client in it
\* is assigned to a Buddy.
THEOREM RangeIsWhole == Spec => []AllOrNothing
<1>1. RangeInv => AllOrNothing
  BY DEF RangeInv, WholeRange, OutInstalled, AllOrNothing
<1> QED
  BY <1>1, RangeInvHolds, PTL

\* A range that came back whole has one sign-in per client in the right
\* column of the tally, and a required roster means that none was paid for.
THEOREM TallyIsExact == Spec => []TallyExact
<1>1. ClaimInv /\ RangeInv /\ TallyInv => TallyExact
  <2> SUFFICES ASSUME ClaimInv, RangeInv, TallyInv
               PROVE  TallyExact
    OBVIOUS
  <2>0. TallyTyped /\ ConfigTyped /\ RunStarted \in BOOLEAN
    BY TypeGroups, ProvisioningAssumption DEF ClaimInv
  <2>1. ASSUME result = "clients"
        PROVE  tally.reused = Cardinality(roster) /\ Paid = Count - Cardinality(roster)
    <3>1. ~failed /\ out = Offset /\ \A t \in Thread : ~InSession(t)
      BY <2>1 DEF RangeInv, WholeRange, At, InSession, SessionPC
    <3>2. Held = Offset
      BY <3>1 DEF Held
    <3>3. Held \intersect roster = roster
      BY <2>0, <3>2 DEF ConfigTyped
    <3>4. Cardinality(Offset \ roster) = Cardinality(Offset) - Cardinality(roster)
      <4>1. Offset \intersect roster = roster /\ IsFiniteSet(Offset)
        BY <2>0, OffsetFinite DEF ConfigTyped
      <4> QED
        BY <4>1, FS_Difference
    <3> QED
      BY <3>1, <3>2, <3>3, <3>4, OffsetFinite DEF TallyInv, TallyFollows
  <2>2. Unpaid = 0 /\ (rosterFile /\ required => Paid = 0)
    BY DEF TallyInv, TallyFollows
  <2> QED
    BY <2>0, <2>1, <2>2 DEF TallyExact, Paid, Unpaid, TallyTyped
<1> QED
  BY <1>1, ClaimInvHolds, RangeInvHolds, TallyInvHolds, PTL

\* A client is given up as rejected only when its account is somebody else's or
\* the API refused one of its sign-in calls for another reason, whatever
\* answers were lost and whoever else registered accounts between the calls.
THEOREM RejectionIsTurnedAway == Spec => []RejectedIsTurnedAway
<1>1. RejectInv => RejectedIsTurnedAway
  BY DEF RejectInv
<1> QED
  BY <1>1, RejectInitInv, RejectInvNext, ClaimInvHolds, PTL DEF Spec
=============================================================================
