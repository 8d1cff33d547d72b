----------------------------- MODULE FleetLadder -----------------------------
(***************************************************************************)
(* One rung of a ladder over a fleet: add and wait (FleetWait), then       *)
(* `rung-open' to every host, the measurement, `rung-close' to every host  *)
(* and the merge of their windows into the fleet's (mergeFleetStats).  A   *)
(* request of a fan-out, or its answer, may be lost, and a generator may   *)
(* be restarted under the driver, which leaves a fresh process in an       *)
(* unnamed window of its own.                                              *)
(*                                                                         *)
(* Time is counted in ticks of which a second has Second; the hosts'       *)
(* clocks agree.                                                           *)
(***************************************************************************)
EXTENDS FleetWait

CONSTANTS
    OldId,      \* the rung before, whose window the hosts are still in
    NewId,      \* --id of the rung
    NoId,       \* the unnamed window of a generator that was just started
    Second,     \* ticks in a second
    MaxTime     \* bound: ticks in a behaviour

ASSUME LadderAssumption ==
    /\ OldId # NewId /\ NoId # NewId /\ OldId # NoId
    /\ Second \in Nat \ {0} /\ MaxTime \in Nat

VARIABLES
    now,        \* the time
    window,     \* per host: rungId_ and the time markWindow was called
    cmd,        \* the command at hand: wait, open, steady, close, merge, end
    told,       \* hosts the current fan-out is done with
    openRc, closeRc,    \* exit codes of rung-open and rung-close
    answers,    \* the snapshots rung-close got: id, open, duration of a host's window
    fleet       \* the merge so far

rungVars == <<now, window, cmd, told, openRc, closeRc, answers, fleet>>
ladderVars == <<vars, rungVars>>

NoAnswer == [id |-> NoId, open |-> 0, taken |-> 0]
NoFleet == [id |-> NoId, openSec |-> 0, duration |-> 0, hosts |-> {}, disagree |-> FALSE]

\* open_epoch_sec, which is cut to whole seconds; 0 stands for no window.
EpochSec(t) == t \div Second
Duration(a) == a.taken - a.open

-----------------------------------------------------------------------------
(* The hosts.                                                              *)

\* At any time, also between add and wait and between two polls: start ends in
\* markWindow("").
Restart(h) ==
    /\ cmd # "end"
    /\ RestartHost(h)
    /\ window' = [window EXCEPT ![h] = [id |-> NoId, open |-> now]]
    /\ UNCHANGED <<now, cmd, told, openRc, closeRc, answers, fleet>>

Tick ==
    /\ cmd \in {"open", "steady", "close"} /\ now < MaxTime
    /\ now' = now + 1
    /\ UNCHANGED <<vars, window, cmd, told, openRc, closeRc, answers, fleet>>

-----------------------------------------------------------------------------
(* The driver.                                                             *)

\* The next command begins; the memory of wait's process is gone, and restarts
\* are counted anew.
BeginRung ==
    /\ cmd = "wait" /\ pc = "done"
    /\ cmd' = "open"
    /\ base' = [h \in Host |-> NoStatus] /\ status' = [h \in Host |-> NoStatus]
    /\ asked' = {} /\ delta' = 0
    /\ restarted' = {} /\ unseen' = {}
    /\ UNCHANGED <<hostVars, pc, rc, restarts, now, window, told, openRc, closeRc,
                   answers, fleet>>

\* An add that the wait gave up on goes on, and may be over when the rung is
\* opened.  (What else the hosts do no longer matters to the driver.)
HostGoesOn(h) ==
    /\ cmd = "open" /\ (Publish(h) \/ \E ok \in BOOLEAN : Provision(h, ok))
    /\ UNCHANGED rungVars

\* rung-open to one host: openRung is refused (409) while an add runs; `heard'
\* is whether the answer is back within 30 s.
OpenRung(h, served, heard) ==
    /\ cmd = "open" /\ h \notin told
    /\ heard => served
    /\ told' = told \union {h}
    /\ window' = IF served /\ ~busy[h] THEN [window EXCEPT ![h] = [id |-> NewId, open |-> now]]
                 ELSE window
    /\ restarted' = IF served /\ ~busy[h] THEN restarted \ {h} ELSE restarted
    /\ openRc' = IF heard /\ ~busy[h] THEN openRc ELSE 1
    /\ UNCHANGED <<hostVars, driverVars, unseen, restarts, now, cmd, closeRc, answers, fleet>>

OpenDone ==
    /\ cmd = "open" /\ told = Host
    /\ cmd' = "steady" /\ told' = {}
    /\ openRc' = IF openRc = Running THEN 0 ELSE openRc
    /\ UNCHANGED <<vars, now, window, closeRc, answers, fleet>>

\* The measurement is over.
Measured ==
    /\ cmd = "steady" /\ cmd' = "close"
    /\ UNCHANGED <<vars, now, window, told, openRc, closeRc, answers, fleet>>

\* rung-close to one host: closeRung reports the window the host is in,
\* whichever it is, and leaves it open; a row without an answer is left out.
CloseRung(h, heard) ==
    /\ cmd = "close" /\ h \notin told
    /\ told' = told \union {h}
    /\ answers' = IF heard
                  THEN [answers EXCEPT ![h] = [id |-> window[h].id, open |-> window[h].open,
                                               taken |-> now]]
                  ELSE answers
    /\ closeRc' = IF heard THEN closeRc ELSE 1
    /\ UNCHANGED <<vars, now, window, cmd, openRc, fleet>>

CloseDone ==
    /\ cmd = "close" /\ told = Host
    /\ cmd' = "merge"
    /\ UNCHANGED <<vars, now, window, told, openRc, closeRc, answers, fleet>>

-----------------------------------------------------------------------------
(* mergeFleetStats: one host's window after the other.                     *)

Answered == {h \in Host : answers[h] # NoAnswer}

\* The earliest opening, 0 standing for none; the longest duration.
Earliest(sec) == IF sec # 0 /\ (fleet.openSec = 0 \/ sec < fleet.openSec)
                 THEN sec ELSE fleet.openSec
SlipLongest(d) == IF fleet.hosts = {} \/ d < fleet.duration THEN d ELSE fleet.duration
Longest(d) == IF d > fleet.duration THEN d ELSE fleet.duration

\* The first host names the rung, and every other is held against it.
SlipDisagrees(id) == id # NoId /\ fleet.hosts # {} /\ id # fleet.id
Disagrees(id) == fleet.hosts # {} /\ id # fleet.id

MergeNext(h) ==
    /\ cmd = "merge" /\ h \in Answered \ fleet.hosts
    /\ LET a == answers[h]
       IN  fleet' = [id |-> IF fleet.hosts = {} THEN a.id ELSE fleet.id,
                     openSec |-> Earliest(EpochSec(a.open)),
                     duration |-> Longest(Duration(a)),
                     hosts |-> fleet.hosts \union {h},
                     disagree |-> fleet.disagree \/ Disagrees(a.id)]
    /\ UNCHANGED <<vars, now, window, cmd, told, openRc, closeRc, answers>>

\* The summary is written in any case; a disagreement fails the command.
MergeDone ==
    /\ cmd = "merge" /\ fleet.hosts = Answered
    /\ cmd' = "end" /\ told' = {}
    /\ closeRc' = IF closeRc # Running THEN closeRc ELSE IF fleet.disagree THEN 1 ELSE 0
    /\ UNCHANGED <<vars, now, window, openRc, answers, fleet>>

LadderDone == cmd = "end" /\ UNCHANGED ladderVars

-----------------------------------------------------------------------------
LadderInit ==
    /\ Init
    /\ now = Second
    /\ window = [h \in Host |-> [id |-> OldId, open |-> now]]
    /\ cmd = "wait" /\ told = {} /\ openRc = Running /\ closeRc = Running
    /\ answers = [h \in Host |-> NoAnswer] /\ fleet = NoFleet

WaitStep == cmd = "wait" /\ Next /\ UNCHANGED rungVars

RungStep ==
    \/ BeginRung \/ OpenDone \/ Measured \/ CloseDone \/ MergeDone
    \/ \E h \in Host : \/ \E served, heard \in BOOLEAN : OpenRung(h, served, heard)
                       \/ \E heard \in BOOLEAN : CloseRung(h, heard)
                       \/ MergeNext(h)

LadderNext ==
    \/ WaitStep \/ RungStep \/ Tick \/ LadderDone
    \/ \E h \in Host : HostGoesOn(h) \/ Restart(h)

LadderSpec == LadderInit /\ [][LadderNext]_ladderVars

\* Every command is given time: its requests end within 30 s, its deadline
\* passes, and the operator ends the measurement.
FairLadderSpec ==
    /\ LadderSpec
    /\ WF_ladderVars(DriverStep /\ UNCHANGED rungVars)
    /\ SF_ladderVars(RoundEnd(TRUE) /\ UNCHANGED rungVars)
    /\ WF_ladderVars(RungStep)

-----------------------------------------------------------------------------
(* Properties.                                                             *)

\* Every variable has its type.
LadderTypeOK ==
    /\ TypeOK
    /\ now \in Nat
    /\ window \in [Host -> [id : {OldId, NewId, NoId}, open : Nat]]
    /\ cmd \in {"wait", "open", "steady", "close", "merge", "end"} /\ told \subseteq Host
    /\ openRc \in {Running, 0, 1} /\ closeRc \in {Running, 0, 1}
    /\ answers \in [Host -> [id : {OldId, NewId, NoId}, open : Nat, taken : Nat]]
    /\ fleet \in [id : {OldId, NewId, NoId}, openSec : Nat, duration : Nat,
                  hosts : SUBSET Host, disagree : BOOLEAN]

\* A rung-close that exits 0 has summed one rung over the whole fleet: every
\* host answered, from one and the same window, and if rung-open exited 0 too
\* that is the rung it opened, unless every host was restarted since.  A host
\* that missed the open, or lost its window to a restart, fails the command.
CloseMeansOneRung ==
    closeRc = 0 =>
        /\ Answered = Host
        /\ \A h \in Host : answers[h].id = fleet.id
        /\ openRc = 0 => fleet.id = NewId \/ restarted = Host

\* Stats.cpp: "the two together bound the interval every host was inside".
\* The earliest opening with the longest duration: no window opened before the
\* fleet's, and whatever time every window covers lies in the fleet's, to
\* within the second the opening is cut to, however far apart the hosts opened
\* and closed.
FleetWindowCovers ==
    cmd = "end" /\ Answered # {} =>
        /\ \A h \in Answered : Second * fleet.openSec <= answers[h].open
        /\ \E h \in Answered : answers[h].taken < Second * fleet.openSec + fleet.duration + Second

\* The commands of a rung end, whatever is lost or restarted.
LadderEnds == <>(cmd = "end")

-----------------------------------------------------------------------------
(* What the comments and the README say and the code contradicts.          *)

\* Stats.cpp: "the fleet window is the union of the hosts' windows".
WindowIsUnion ==
    cmd = "end" => \A h \in Answered : answers[h].taken < Second * fleet.openSec + fleet.duration + Second

\* Stats.cpp: "a host that missed the call entirely reports 0 and is skipped
\* rather than dragging the start to the epoch".
MissedHostSkipped ==
    cmd = "end" /\ NewId = fleet.id =>
        \A h \in Answered : answers[h].id # NewId => EpochSec(answers[h].open) > fleet.openSec

\* README: `rung-close --id r3': the id is not looked at.
CloseNamesRung == closeRc = 0 => fleet.id = NewId
=============================================================================
