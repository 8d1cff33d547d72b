------------------------------- MODULE FleetWait -------------------------------
(***************************************************************************)
(* One step of a ladder as cks-loadtest-ctl drives it: `add --count' to    *)
(* every host of the fleet, then `wait --active-delta' until each has      *)
(* provisioned and ramped the new clients.  The two are separate commands, *)
(* and every request is fanned out to the hosts concurrently, while the    *)
(* hosts (ControlPlane, SessionControl) go on by themselves, and may be    *)
(* restarted under it: a fresh process that knows nothing of the add.      *)
(***************************************************************************)
EXTENDS Integers, FiniteSets

CONSTANTS
    Host,       \* generators of the fleet
    Start,      \* LT_CLIENTS: clients a generator starts with
    Before,     \* clients each host runs before the step
    Delta,      \* clients added per host
    ActiveDeltas,   \* what `wait' may be told with --active-delta; 0, the default: just idle
    MaxRestarts     \* bound: restarts in a behaviour

ASSUME FleetAssumption ==
    /\ IsFiniteSet(Host)
    /\ Start \in Nat /\ Before \in Nat /\ Start <= Before /\ Delta \in Nat \ {0}
    /\ ActiveDeltas \subseteq Nat /\ 0 \in ActiveDeltas /\ MaxRestarts \in Nat

VARIABLES
    used, busy, addError,   \* what /v1/status reports of a host's adds
    given,                  \* the new clients are with the workers
    ramped,                 \* how many of the new clients are live
    settling,               \* old clients between two assignments (WAITING)
    pc, rc,                 \* the driver: command at hand, exit code
    delta,                  \* --active-delta
    asked,                  \* hosts whose answer to the current fan-out is in
    base,                   \* baseUsed and baseLive
    status,                 \* the rows of the poll at hand
    restarted,              \* history: hosts restarted since they were sent the add
                            \* (FleetLadder: since they opened the rung)
    unseen,                 \* history: hosts restarted since their row was last read
    restarts                \* restarts so far (for the bound)

hostVars == <<used, busy, addError, given, ramped, settling>>
driverVars == <<pc, rc, delta, asked, base, status>>
histVars == <<restarted, unseen, restarts>>
vars == <<hostVars, driverVars, histVars>>

Running == -1      \* no exit code yet
Status == [used : Nat, live : Nat, busy : BOOLEAN, error : BOOLEAN]
NoStatus == [used |-> 0, live |-> 0, busy |-> FALSE, error |-> FALSE]

\* The clients a host has besides the new ones.
Old(h) == IF given[h] /\ ~busy[h] THEN used[h] - Delta ELSE used[h]

\* statusJson: active plus suspended, which leaves out the clients in WAITING.
Live(h) == Old(h) - settling[h] + ramped[h]
StatusOf(h) == [used |-> used[h], live |-> Live(h), busy |-> busy[h], error |-> addError[h]]

-----------------------------------------------------------------------------
(* The hosts, as the driver sees them.                                     *)

\* provisionRange ended: the clients are distributed, or the add failed.
Provision(h, ok) ==
    /\ busy[h] /\ ~given[h]
    /\ IF ok
       THEN given' = [given EXCEPT ![h] = TRUE] /\ UNCHANGED <<busy, addError>>
       ELSE /\ busy' = [busy EXCEPT ![h] = FALSE]
            /\ addError' = [addError EXCEPT ![h] = TRUE]
            /\ UNCHANGED given
    /\ UNCHANGED <<used, ramped, settling, driverVars, histVars>>

Publish(h) ==
    /\ busy[h] /\ given[h]
    /\ used' = [used EXCEPT ![h] = @ + Delta]
    /\ busy' = [busy EXCEPT ![h] = FALSE]
    /\ UNCHANGED <<addError, given, ramped, settling, driverVars, histVars>>

\* A new client is activated (or suspended): it counts as live.
SlipRamp(h) ==
    /\ given[h]
    /\ ramped' = [ramped EXCEPT ![h] = @ + 1]
    /\ UNCHANGED <<used, busy, addError, given, settling, driverVars, histVars>>
Ramp(h) ==
    /\ given[h] /\ ramped[h] < Delta
    /\ ramped' = [ramped EXCEPT ![h] = @ + 1]
    /\ UNCHANGED <<used, busy, addError, given, settling, driverVars, histVars>>

\* An old client takes a refreshed assignment and waits for it to settle.
Settle(h) ==
    /\ settling[h] < Old(h)
    /\ settling' = [settling EXCEPT ![h] = @ + 1]
    /\ UNCHANGED <<used, busy, addError, given, ramped, driverVars, histVars>>

Settled(h) ==
    /\ settling[h] > 0
    /\ settling' = [settling EXCEPT ![h] = @ - 1]
    /\ UNCHANGED <<used, busy, addError, given, ramped, driverVars, histVars>>

\* The service is stopped and started (README, "Stop the machine's package
\* manager from restarting the generator"): its clients are activated anew.
RestartHost(h) ==
    /\ restarts < MaxRestarts
    /\ restarts' = restarts + 1
    /\ restarted' = restarted \union {h} /\ unseen' = unseen \union {h}
    /\ used' = [used EXCEPT ![h] = Start] /\ settling' = [settling EXCEPT ![h] = Start]
    /\ busy' = [busy EXCEPT ![h] = FALSE] /\ addError' = [addError EXCEPT ![h] = FALSE]
    /\ given' = [given EXCEPT ![h] = FALSE] /\ ramped' = [ramped EXCEPT ![h] = 0]
    /\ UNCHANGED driverVars

-----------------------------------------------------------------------------
(* The driver.                                                             *)

\* failIfAny: a row that is not what the command expects ends it.
Fail == pc' = "done" /\ rc' = 1

\* add: a host accepts its share, or refuses it or is not reached; `heard' is
\* whether its 202 is back within 30 s.
PostAdd(h, accepted, heard) ==
    /\ pc = "add" /\ h \notin asked
    /\ heard => accepted
    /\ busy' = [busy EXCEPT ![h] = accepted]
    /\ restarted' = IF accepted THEN restarted \ {h} ELSE restarted
    /\ asked' = asked \union {h}
    /\ rc' = IF heard THEN rc ELSE 1
    /\ UNCHANGED <<used, addError, given, ramped, settling, pc, delta, base, status, unseen, restarts>>

AddDone ==
    /\ pc = "add" /\ asked = Host
    /\ asked' = {}
    /\ pc' = IF rc # Running THEN "done" ELSE IF delta > 0 THEN "base" ELSE "poll"
    /\ UNCHANGED <<hostVars, histVars, rc, delta, base, status>>

\* wait --active-delta: the baseline, when the command starts.
ReadBase(h) ==
    /\ pc = "base" /\ h \notin asked
    /\ base' = [base EXCEPT ![h] = StatusOf(h)]
    /\ asked' = asked \union {h}
    /\ UNCHANGED <<hostVars, histVars, pc, rc, delta, status>>

BaseDone ==
    /\ pc = "base" /\ asked = Host
    /\ asked' = {}
    /\ pc' = "poll"
    /\ UNCHANGED <<hostVars, histVars, rc, delta, base, status>>

ReadStatus(h) ==
    /\ pc = "poll" /\ h \notin asked
    /\ status' = [status EXCEPT ![h] = StatusOf(h)]
    /\ asked' = asked \union {h} /\ unseen' = unseen \ {h}
    /\ UNCHANGED <<hostVars, pc, rc, delta, base, restarted, restarts>>

\* A request of a fan-out that fails (refused connection, HTTP error).
RequestFails ==
    /\ pc \in {"base", "poll"} /\ asked # Host
    /\ Fail
    /\ UNCHANGED <<hostVars, histVars, delta, asked, base, status>>

SlipIdle == \E h \in Host : ~status[h].busy
Idle == \A h \in Host : ~status[h].busy
Grown == delta > 0 => \A h \in Host : /\ status[h].used >= base[h].used + delta
                                      /\ status[h].live >= base[h].live + delta

\* The end of a round; `late' is whether the deadline has passed.
SlipRoundEnd(late) ==
    /\ pc = "poll" /\ asked = Host
    /\ asked' = {}
    /\ IF \E h \in Host : status[h].error THEN Fail
       ELSE IF Idle /\ Grown THEN pc' = "done" /\ rc' = 0
       ELSE UNCHANGED <<pc, rc>>
    /\ UNCHANGED <<hostVars, histVars, delta, base, status>>
RoundEnd(late) ==
    /\ pc = "poll" /\ asked = Host
    /\ asked' = {}
    /\ IF \E h \in Host : status[h].error THEN Fail
       ELSE IF Idle /\ Grown THEN pc' = "done" /\ rc' = 0
       ELSE IF late THEN pc' = "done" /\ rc' = 3
       ELSE UNCHANGED <<pc, rc>>
    /\ UNCHANGED <<hostVars, histVars, delta, base, status>>

-----------------------------------------------------------------------------
Init ==
    /\ used = [h \in Host |-> Before]
    /\ busy = [h \in Host |-> FALSE]
    /\ addError = [h \in Host |-> FALSE]
    /\ given = [h \in Host |-> FALSE]
    /\ ramped = [h \in Host |-> 0]
    /\ settling = [h \in Host |-> 0]
    /\ pc = "add" /\ rc = Running /\ delta \in ActiveDeltas
    /\ asked = {}
    /\ base = [h \in Host |-> NoStatus]
    /\ status = [h \in Host |-> NoStatus]
    /\ restarted = {} /\ unseen = {} /\ restarts = 0

HostStep(h) ==
    \/ \E ok \in BOOLEAN : Provision(h, ok)
    \/ Publish(h) \/ Ramp(h) \/ Settle(h) \/ Settled(h)

DriverStep ==
    \/ \E h \in Host : \/ \E accepted, heard \in BOOLEAN : PostAdd(h, accepted, heard)
                       \/ ReadBase(h) \/ ReadStatus(h)
    \/ AddDone \/ BaseDone \/ RequestFails

Next ==
    \/ \E h \in Host : HostStep(h)
    \/ DriverStep
    \/ \E late \in BOOLEAN : RoundEnd(late)

Spec == Init /\ [][Next]_vars

-----------------------------------------------------------------------------
(* Properties.                                                             *)

\* Every variable has its type.
TypeOK ==
    /\ used \in [Host -> {Start, Start + Delta, Before, Before + Delta}] /\ busy \in [Host -> BOOLEAN]
    /\ addError \in [Host -> BOOLEAN] /\ given \in [Host -> BOOLEAN]
    /\ ramped \in [Host -> 0 .. Delta] /\ settling \in [Host -> 0 .. Before]
    /\ pc \in {"add", "base", "poll", "done"} /\ rc \in {Running, 0, 1, 3}
    /\ delta \in ActiveDeltas /\ asked \in SUBSET Host
    /\ base \in [Host -> Status] /\ status \in [Host -> Status]
    /\ restarted \subseteq Host /\ unseen \subseteq Host /\ restarts \in 0 .. MaxRestarts

\* A wait that succeeds leaves every host with its add behind it: none is still
\* provisioning and none has silently kept its old population, although the
\* rows of a poll are read at different times.  With --active-delta the only
\* exception is a host that was restarted after its last row was read; without,
\* a host that was restarted at any time since it was sent the add, because a
\* fresh process is as idle as one that is done.
ReturnMeansProvisioned ==
    [][rc' = 0 /\ rc # 0 =>
         \A h \in Host \ (IF delta > 0 THEN unseen ELSE restarted) : given'[h] /\ ~busy'[h]]_vars

-----------------------------------------------------------------------------
(* README: "wait returns when each host has provisioned AND ramped the new *)
(* clients".                                                               *)

\* It returns success only then.  (Without --active-delta it does not look, and
\* not even the add need be there: a restarted host answers that it is idle.)
ReturnMeansRamped == rc = 0 => \A h \in Host : ramped[h] = Delta

\* It times out only if some host was late: not when all of them had
\* finished before the polling began.
TimeoutMeansLate ==
    rc = 3 => \E h \in Host : base[h].used < Before + Delta \/ base[h].live < Before + Delta
=============================================================================
