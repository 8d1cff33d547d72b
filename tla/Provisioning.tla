----------------------------- MODULE Provisioning -----------------------------
(***************************************************************************)
(* Provisioner::provisionRange: a pool of threads claims the offsets of a  *)
(* range one by one and takes each client through sign-in, app token,      *)
(* bootstrap and Buddy assignment against the platform APIs.  The range is *)
(* handed out whole or not at all.                                         *)
(*                                                                         *)
(* The APIs are external: what they know of an account is `account',       *)
(* `consented' and `installed'.  Every GraphQL call goes through           *)
(* requestWithRetry, and its answer may be lost after it took effect.  A   *)
(* sign-in call may also be refused for a reason that is not the account:  *)
(* the rate limit per address, or a tier that is closed to new accounts.   *)
(***************************************************************************)
EXTENDS Integers, FiniteSets

CONSTANTS
    Thread,             \* min(provisionConcurrency, count) provisioning threads
    Count,              \* clients to provision
    Misnamed,           \* offsets whose roster entry, if any, names another email
    RunStarted,         \* markRunStarted was called: sign-ins count as mid-run
    NeedsToken,         \* external: the tier is staff-only and no token is configured
    Entitled,           \* external: offsets whose account may mint an app token
    MaxTries            \* transport failures that give a call up (3)

Offset == 0 .. Count - 1

ASSUME ProvisioningAssumption ==
    /\ IsFiniteSet(Thread) /\ Thread # {}
    /\ Count \in Nat \ {0}
    /\ Misnamed \subseteq Offset /\ Entitled \subseteq Offset
    /\ {RunStarted, NeedsToken} \subseteq BOOLEAN
    /\ MaxTries \in Nat \ {0}

VARIABLES
    rosterFile, required,           \* LT_ROSTER_FILE is set, LT_ROSTER_REQUIRED
    roster, appTokens,              \* the roster the constructor read: offsets it
                                    \* covers, and its kind
    nextOffset, completed, failed,  \* the shared atomics
    firstError,                     \* under logMutex
    thread,                         \* per thread: pc, offset, failed tries of its call
    out,                            \* the offsets stored in the result vector
    tally,                          \* SignInTally
    stop,                           \* the caller's stop flag
    result,                         \* running, empty or clients
    account, consented, installed,  \* external: the platform's record of each client
    limited                         \* external: the clients one of whose sign-in calls was
                                    \* refused for a reason that is not the account

config == <<rosterFile, required, roster, appTokens>>
apiVars == <<account, consented, installed, limited>>
vars == <<config, nextOffset, completed, failed, firstError, thread, out, tally, stop,
          result, apiVars>>

Accounts == {"absent", "ours", "foreign"}
CallPC == {"login", "register", "relogin", "mint", "consents", "remint", "bootstrap", "assign"}
ThreadPC == CallPC \union {"claim", "check", "session", "store", "exit"}
Errors == {"none", "misnamed", "transport", "rejected", "forbidden", "refused"}

Off(t) == thread[t].off
At(t, pc) == thread[t].pc = pc
Go(t, pc) == thread' = [thread EXCEPT ![t] = [@ EXCEPT !.pc = pc, !.tries = 0]]

\* A handler threw: the first error is kept and this thread is done.
Throw(t, error) ==
    /\ failed' = TRUE
    /\ firstError' = IF failed THEN firstError ELSE error
    /\ Go(t, "exit")

poolVars == <<nextOffset, completed, out, stop, result>>

-----------------------------------------------------------------------------
(* The range.                                                              *)

\* A required roster that does not cover the range refuses it outright.
RosterCovers == rosterFile /\ required => roster = Offset

Begin ==
    /\ result = "begin"
    /\ result' = IF RosterCovers THEN "running" ELSE "empty"
    /\ UNCHANGED <<config, nextOffset, completed, failed, firstError, thread, out, tally, stop, apiVars>>

\* nextOffset.fetch_add(1).
SlipAdvance == nextOffset' \in {nextOffset, nextOffset + 1}
Advance == nextOffset' = nextOffset + 1

Claim(t) ==
    /\ result = "running" /\ At(t, "claim")
    /\ Advance
    /\ thread' = [thread EXCEPT ![t] = [pc |-> "check", off |-> nextOffset, tries |-> 0]]
    /\ UNCHANGED <<config, completed, failed, firstError, out, tally, stop, result, apiVars>>

Check(t) ==
    /\ At(t, "check")
    /\ Go(t, IF Off(t) >= Count \/ failed \/ stop THEN "exit" ELSE "session")
    /\ UNCHANGED <<config, poolVars, failed, firstError, tally, apiVars>>

\* The client is complete: it is stored at its own offset.
Store(t) ==
    /\ At(t, "store")
    /\ out' = out \union {Off(t)}
    /\ completed' = completed + 1
    /\ Go(t, "claim")
    /\ UNCHANGED <<config, nextOffset, failed, firstError, tally, stop, result, apiVars>>

\* After the joins: a stop or a failure hands out nothing.
SlipOutcome == IF stop THEN "empty" ELSE "clients"
Outcome == IF stop \/ failed THEN "empty" ELSE "clients"

JoinAll ==
    /\ result = "running"
    /\ \A t \in Thread : At(t, "exit")
    /\ result' = Outcome
    /\ UNCHANGED <<config, nextOffset, completed, failed, firstError, thread, out, tally, stop, apiVars>>

\* A signal or POST /v1/shutdown, at any time; the flag is never cleared.
SetStop ==
    /\ ~stop
    /\ stop' = TRUE
    /\ UNCHANGED <<config, nextOffset, completed, failed, firstError, thread, out, tally, result, apiVars>>

-----------------------------------------------------------------------------
(* Sign-in.                                                                *)

\* rosterAppToken or rosterSession; a client without an entry signs in.
TakeSession(t) ==
    /\ At(t, "session")
    /\ IF Off(t) \in roster \intersect Misnamed
       THEN Throw(t, "misnamed") /\ UNCHANGED tally
       ELSE /\ IF Off(t) \in roster
               THEN /\ tally' = [tally EXCEPT !.reused = @ + 1]
                    /\ Go(t, IF appTokens THEN "bootstrap" ELSE "mint")
               ELSE Go(t, "login") /\ UNCHANGED tally
            /\ UNCHANGED <<failed, firstError>>
    /\ UNCHANGED <<config, poolVars, apiVars>>

\* signIn returned a session: it is counted where it was paid for.
SlipSignedIn(t) ==
    /\ tally' = [tally EXCEPT !.before = @ + 1]
    /\ Go(t, "mint")
SignedIn(t) ==
    /\ tally' = IF RunStarted THEN [tally EXCEPT !.midRun = @ + 1]
                              ELSE [tally EXCEPT !.before = @ + 1]
    /\ Go(t, "mint")

\* "Fall through: most likely the account does not exist yet" - or the API
\* refused the call for another reason, which the code does not look at.
Login(t) ==
    /\ At(t, "login")
    /\ \/ account[Off(t)] = "ours" /\ SignedIn(t) /\ UNCHANGED limited
       \/ /\ account[Off(t)] # "ours"
          /\ Go(t, "register") /\ UNCHANGED <<tally, limited>>
       \/ /\ limited' = limited \union {Off(t)}
          /\ Go(t, "register") /\ UNCHANGED tally
    /\ UNCHANGED <<config, poolVars, failed, firstError, account, consented, installed>>

MayRegister(t) == account[Off(t)] = "absent" /\ ~NeedsToken

Register(t) ==
    /\ At(t, "register")
    /\ \/ /\ MayRegister(t)
          /\ SignedIn(t) /\ account' = [account EXCEPT ![Off(t)] = "ours"] /\ UNCHANGED limited
       \/ /\ account[Off(t)] # "absent"
          /\ Go(t, "relogin") /\ UNCHANGED <<tally, account, limited>>
       \/ /\ limited' = limited \union {Off(t)}
          /\ Go(t, "relogin") /\ UNCHANGED <<tally, account>>
    /\ UNCHANGED <<config, poolVars, failed, firstError, consented, installed>>

\* "Try login once more; if that also fails, surface an actionable error."
SlipRelogin(t) ==
    /\ At(t, "relogin")
    /\ Throw(t, "rejected")
    /\ UNCHANGED <<config, poolVars, tally, apiVars>>
Relogin(t) ==
    /\ At(t, "relogin")
    /\ \/ account[Off(t)] = "ours" /\ SignedIn(t) /\ UNCHANGED <<failed, firstError, limited>>
       \/ account[Off(t)] # "ours" /\ Throw(t, "rejected") /\ UNCHANGED <<tally, limited>>
       \/ limited' = limited \union {Off(t)} /\ Throw(t, "rejected") /\ UNCHANGED tally
    /\ UNCHANGED <<config, poolVars, account, consented, installed>>

-----------------------------------------------------------------------------
(* App token, bootstrap, assignment.                                       *)

\* mintAppToken: refused until the consents are stored, and for an account
\* that is not entitled to the app.
Mint(t) ==
    /\ At(t, "mint")
    /\ IF Off(t) \notin consented
       THEN Go(t, "consents") /\ UNCHANGED <<failed, firstError>>
       ELSE IF Off(t) \in Entitled
            THEN Go(t, "bootstrap") /\ UNCHANGED <<failed, firstError>>
            ELSE Throw(t, "forbidden")
    /\ UNCHANGED <<config, poolVars, tally, apiVars>>

RecordConsents(t) ==
    /\ At(t, "consents")
    /\ consented' = consented \union {Off(t)}
    /\ Go(t, "remint")
    /\ UNCHANGED <<config, poolVars, failed, firstError, tally, account, installed, limited>>

Remint(t) ==
    /\ At(t, "remint")
    /\ IF Off(t) \in Entitled
       THEN Go(t, "bootstrap") /\ UNCHANGED <<failed, firstError>>
       ELSE Throw(t, "forbidden")
    /\ UNCHANGED <<config, poolVars, tally, apiVars>>

Bootstrap(t) ==
    /\ At(t, "bootstrap")
    /\ Go(t, "assign")
    /\ UNCHANGED <<config, poolVars, failed, firstError, tally, apiVars>>

Assign(t) ==
    /\ At(t, "assign")
    /\ installed' = installed \union {Off(t)}
    /\ Go(t, "store")
    /\ UNCHANGED <<config, poolVars, failed, firstError, tally, account, consented, limited>>

-----------------------------------------------------------------------------
(* Calls that fail.                                                        *)

\* A call without a usable answer: it never arrived, or it took effect.
Effects(t) ==
    {<<account, consented, installed>>} \union
    (IF At(t, "register") /\ MayRegister(t)
     THEN {<<[account EXCEPT ![Off(t)] = "ours"], consented, installed>>} ELSE {}) \union
    (IF At(t, "consents") THEN {<<account, consented \union {Off(t)}, installed>>} ELSE {}) \union
    (IF At(t, "assign") THEN {<<account, consented, installed \union {Off(t)}>>} ELSE {})

TakesEffect(t) ==
    /\ \E e \in Effects(t) : account' = e[1] /\ consented' = e[2] /\ installed' = e[3]
    /\ UNCHANGED limited

\* A refusal other than the ones above (a revoked session, say), an answer that
\* lacks what the code takes from it (of a sign-in call too: that is no
\* GraphQLError), or an app-token roster that names no Game API: thrown at once.
Refused(t) ==
    /\ \/ thread[t].pc \in CallPC
       \/ At(t, "session") /\ appTokens /\ Off(t) \in roster
    /\ Throw(t, "refused")
    /\ TakesEffect(t)
    /\ UNCHANGED <<config, poolVars, tally>>

\* requestWithRetry after a transport failure.
SlipLastTry(t) == thread[t].tries + 1 > MaxTries
LastTry(t) == thread[t].tries + 1 >= MaxTries

SlipTransportFails(t) ==
    /\ thread[t].pc \in CallPC
    /\ thread' = [thread EXCEPT ![t].tries = (@ + 1) % MaxTries]
    /\ UNCHANGED <<config, poolVars, failed, firstError, tally, apiVars>>
TransportFails(t) ==
    /\ thread[t].pc \in CallPC
    /\ TakesEffect(t)
    /\ IF LastTry(t)
       THEN Throw(t, "transport")
       ELSE /\ thread' = [thread EXCEPT ![t].tries = @ + 1]
            /\ UNCHANGED <<failed, firstError>>
    /\ UNCHANGED <<config, poolVars, tally>>

\* Somebody else (another generator with the same pattern) registers an account.
CreatedElsewhere(o) ==
    /\ account[o] = "absent"
    /\ account' = [account EXCEPT ![o] = "ours"]
    /\ UNCHANGED <<config, nextOffset, completed, failed, firstError, thread, out, tally, stop,
                   result, consented, installed, limited>>

Over == result \in {"empty", "clients"} /\ UNCHANGED vars

-----------------------------------------------------------------------------
Init ==
    /\ rosterFile \in BOOLEAN /\ required \in BOOLEAN /\ appTokens \in BOOLEAN
    /\ roster \in IF rosterFile THEN SUBSET Offset ELSE {{}}
    /\ appTokens => rosterFile
    /\ nextOffset = 0 /\ completed = 0 /\ failed = FALSE /\ firstError = "none"
    /\ thread = [t \in Thread |-> [pc |-> "claim", off |-> 0, tries |-> 0]]
    /\ out = {}
    /\ tally = [reused |-> 0, before |-> 0, midRun |-> 0]
    /\ stop \in BOOLEAN
    /\ result = "begin"
    /\ account \in [Offset -> Accounts]
    /\ consented \in SUBSET Offset
    /\ installed = {} /\ limited = {}

ThreadStep(t) ==
    \/ Claim(t) \/ Check(t) \/ Store(t)
    \/ TakeSession(t) \/ Login(t) \/ Register(t) \/ Relogin(t)
    \/ Mint(t) \/ RecordConsents(t) \/ Remint(t) \/ Bootstrap(t) \/ Assign(t)
    \/ Refused(t) \/ TransportFails(t)

Next ==
    \/ Begin \/ JoinAll \/ SetStop
    \/ \E t \in Thread : ThreadStep(t)
    \/ \E o \in Offset : CreatedElsewhere(o)
    \/ Over

Spec == Init /\ [][Next]_vars

\* Every thread keeps running: each call ends, with an answer or a timeout.
FairSpec == Spec /\ WF_vars(Begin \/ JoinAll) /\ \A t \in Thread : WF_vars(ThreadStep(t))

-----------------------------------------------------------------------------
(* Properties.                                                             *)

\* Every variable has its type; no call is tried more than MaxTries times.
TypeOK ==
    /\ rosterFile \in BOOLEAN /\ required \in BOOLEAN
    /\ roster \in SUBSET Offset /\ appTokens \in BOOLEAN
    /\ nextOffset \in Nat /\ completed \in 0 .. Count
    /\ failed \in BOOLEAN /\ firstError \in Errors
    /\ thread \in [Thread -> [pc : ThreadPC, off : Nat, tries : 0 .. MaxTries - 1]]
    /\ out \in SUBSET Offset
    /\ tally \in [reused : Nat, before : Nat, midRun : Nat]
    /\ stop \in BOOLEAN /\ result \in {"begin", "running", "empty", "clients"}
    /\ account \in [Offset -> Accounts]
    /\ consented \in SUBSET Offset /\ installed \in SUBSET Offset
    /\ limited \in SUBSET Offset

\* The vector the caller gets is complete: every slot was filled by a client
\* that holds a session on a Buddy, although threads leave their loop at
\* whatever offset they see a failure or the stop.
AllOrNothing == result = "clients" => out = Offset /\ out \subseteq installed

\* No two threads provision the same client, so none is counted twice and no
\* slot of the vector is written by two threads.
Working(t) == thread[t].pc \notin {"claim", "check", "exit"}
OneThreadPerClient ==
    /\ \A t, u \in Thread : Working(t) /\ Working(u) /\ Off(t) = Off(u) => t = u
    /\ \A t \in Thread : Working(t) => Off(t) \notin out
    /\ completed = Cardinality(out)

\* A range that comes back whole has paid one sign-in per client, in the
\* column of the summary it belongs to; with LT_ROSTER_FILE and
\* LT_ROSTER_REQUIRED no client ever pays for one ("no password is required":
\* none could be made), also while the range is under way.
TallyExact ==
    /\ result = "clients" =>
           /\ tally.reused = Cardinality(roster)
           /\ tally[IF RunStarted THEN "midRun" ELSE "before"] = Count - Cardinality(roster)
           /\ tally[IF RunStarted THEN "before" ELSE "midRun"] = 0
    /\ rosterFile /\ required => tally.before + tally.midRun = 0

\* signIn gives a client up as rejected only after the API turned it away: the
\* account is somebody else's, or a sign-in call was refused for another
\* reason.  A register answer that was lost, and an account that another
\* generator made between the calls, never end there by themselves: the second
\* login signs in.
RejectedIsTurnedAway ==
    firstError = "rejected" => \E o \in Offset : account[o] = "foreign" \/ o \in limited

\* provisionRange returns, whatever fails and whenever the stop comes.
PoolEnds == <>(result \in {"empty", "clients"})

-----------------------------------------------------------------------------
(* What the code says and does not hold: no run checks it.                 *)

\* Provisioner.cpp:280-286, "the account exists but this password is
\* rejected".  signIn says so of every refusal of its second login: under the
\* rate limit, and on a staff-only tier without a token, the account may be
\* one with this password, or may not exist.
RejectedMeansForeign ==
    firstError = "rejected" => \E o \in Offset : account[o] = "foreign"
=============================================================================
