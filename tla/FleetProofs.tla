------------------------------ MODULE FleetProofs ------------------------------
(* One rung over a fleet, for every number of hosts, every order of their  *)
(* answers, lost requests and restarts: a wait that succeeds has waited    *)
(* for every add, a rung-close that succeeds has summed one rung, and the  *)
(* merged window covers what every host was inside.                        *)
EXTENDS FleetLadder, TLAPS

-----------------------------------------------------------------------------
(* The inductive invariant: the add and the wait.                          *)

\* A host's counters tell where its add is.
AddTraced == \A h \in Host :
    /\ used[h] \in IF given[h] /\ ~busy[h] THEN {Start + Delta, Before + Delta} ELSE {Start, Before}
    /\ addError[h] => ~busy[h] /\ ~given[h]
    /\ settling[h] <= Old(h)

Accepted(h) == busy[h] \/ given[h] \/ addError[h]

\* A row without error or activity is that of a host whose add is published,
\* or of one that was restarted and, if the row is not older than that, shows
\* the population a generator starts with.
RowTold(h) ==
    ~status[h].busy /\ ~status[h].error =>
        \/ given[h] /\ ~busy[h]
        \/ h \in restarted /\ (h \in unseen \/ status[h].used = Start)

\* A host that was restarted, or not asked yet, is untouched; once all have
\* accepted, each other has its add on the way or behind it.
AddAsked ==
    /\ cmd # "wait" => pc = "done"
    /\ pc \in {"add", "base", "poll"} =>
           /\ rc \in {Running, 1}
           /\ \A h \in restarted : ~Accepted(h) /\ used[h] = Start
    /\ pc = "add" => \A h \in Host :
           /\ h \notin asked => ~Accepted(h)
           /\ h \in asked /\ rc = Running => Accepted(h) \/ h \in restarted
    /\ pc \in {"base", "poll"} => \A h \in Host : Accepted(h) \/ h \in restarted
    /\ pc = "base" => \A h \in asked : Start <= base[h].used
    /\ pc = "poll" => /\ delta > 0 => \A h \in Host : Start <= base[h].used
                      /\ \A h \in asked : RowTold(h)

WaitInv == TypeOK /\ AddTraced /\ AddAsked

-----------------------------------------------------------------------------
(* The inductive invariant: the rung.                                      *)

WindowType == [id : {OldId, NewId, NoId}, open : Nat]
AnswerType == [id : {OldId, NewId, NoId}, open : Nat, taken : Nat]
FleetType == [id : {OldId, NewId, NoId}, openSec : Nat, duration : Nat,
              hosts : SUBSET Host, disagree : BOOLEAN]

RungTyped ==
    /\ now \in Nat
    /\ window \in [Host -> WindowType]
    /\ cmd \in {"wait", "open", "steady", "close", "merge", "end"} /\ told \subseteq Host
    /\ openRc \in {Running, 0, 1} /\ closeRc \in {Running, 0, 1}
    /\ answers \in [Host -> AnswerType]
    /\ fleet \in FleetType

\* No window is older than the first second, so none is taken for no answer.
ClockInv ==
    /\ Second <= now
    /\ \A h \in Host : Second <= window[h].open /\ window[h].open <= now
    /\ \A h \in Host : answers[h] # NoAnswer =>
           Second <= answers[h].open /\ answers[h].open <= answers[h].taken

\* If no rung-open failed, a host is in the new window or was restarted.
Opened(h) == cmd # "wait" /\ (cmd = "open" => h \in told)
OpenInv ==
    /\ cmd \in {"wait", "steady"} => told = {}
    /\ \A h \in Host : openRc # 1 /\ h \notin restarted =>
           /\ Opened(h) => window[h].id = NewId
           /\ answers[h] # NoAnswer => answers[h].id = NewId

\* If no rung-close failed, the hosts that were told have answered.
CloseInv ==
    /\ cmd \in {"wait", "open", "steady"} => Answered = {} /\ closeRc = Running
    /\ cmd = "close" => Answered \subseteq told /\ (closeRc # 1 => Answered = told)
    /\ cmd \in {"merge", "end"} => (closeRc # 1 => Answered = Host)
    /\ closeRc = 0 => cmd = "end"

\* The merge so far: one id unless it says otherwise, the earliest opening
\* (which is some host's) and the longest duration.
MergeInv ==
    /\ cmd \notin {"merge", "end"} => fleet = NoFleet
    /\ fleet.hosts \subseteq Answered
    /\ cmd = "end" => fleet.hosts = Answered
    /\ closeRc = 0 => ~fleet.disagree
    /\ fleet.hosts = {} => fleet = NoFleet
    /\ ~fleet.disagree => \A h \in fleet.hosts : answers[h].id = fleet.id
    /\ \A h \in fleet.hosts : /\ fleet.openSec <= EpochSec(answers[h].open)
                              /\ Duration(answers[h]) <= fleet.duration
    /\ fleet.hosts # {} => \E h \in fleet.hosts : fleet.openSec = EpochSec(answers[h].open)

RungInv == RungTyped /\ ClockInv /\ OpenInv /\ CloseInv /\ MergeInv
FleetInv == WaitInv /\ RungInv

-----------------------------------------------------------------------------
(* The add and the wait.                                                   *)

HostTyped ==
    /\ used \in [Host -> {Start, Start + Delta, Before, Before + Delta}] /\ busy \in [Host -> BOOLEAN]
    /\ addError \in [Host -> BOOLEAN] /\ given \in [Host -> BOOLEAN]
    /\ ramped \in [Host -> 0 .. Delta] /\ settling \in [Host -> 0 .. Before]
DriverTyped ==
    /\ pc \in {"add", "base", "poll", "done"} /\ rc \in {Running, 0, 1, 3}
    /\ delta \in ActiveDeltas /\ asked \in SUBSET Host
    /\ base \in [Host -> Status] /\ status \in [Host -> Status]
HistTyped ==
    restarted \subseteq Host /\ unseen \subseteq Host /\ restarts \in 0 .. MaxRestarts

\* The type invariants are the conjunctions of their groups.
LEMMA TypeGroups ==
    /\ TypeOK <=> HostTyped /\ DriverTyped /\ HistTyped
    /\ TypeOK' <=> HostTyped' /\ DriverTyped' /\ HistTyped'
    /\ LadderTypeOK <=> TypeOK /\ RungTyped
BY DEF TypeOK, HostTyped, DriverTyped, HistTyped, LadderTypeOK, RungTyped, WindowType, AnswerType,
       FleetType

\* The numbers of clients, as the proofs use them.
LEMMA Sizes == Start \in Nat /\ Before \in Nat /\ Start <= Before /\ Delta \in Nat \ {0}
               /\ ActiveDeltas \subseteq Nat /\ 0 \in ActiveDeltas /\ MaxRestarts \in Nat
BY FleetAssumption

\* The clients a host has besides the new ones are what it started or ran with.
LEMMA OldClients ==
    ASSUME AddTraced, NEW h \in Host
    PROVE  Old(h) \in {Start, Before}
<1>1. CASE given[h] /\ ~busy[h]
  BY <1>1, Sizes DEF AddTraced, Old
<1>2. CASE ~(given[h] /\ ~busy[h])
  BY <1>2 DEF AddTraced, Old
<1> QED
  BY <1>1, <1>2

\* What a host answers to status is well formed and its own.
LEMMA StatusTyped ==
    ASSUME HostTyped, AddTraced, NEW h \in Host
    PROVE  /\ StatusOf(h) \in Status
           /\ StatusOf(h).busy = busy[h] /\ StatusOf(h).error = addError[h]
           /\ StatusOf(h).used = used[h] /\ Start <= used[h]
<1>1. used[h] \in Nat /\ Start <= used[h]
  BY Sizes DEF HostTyped
<1>2. Live(h) \in Nat
  <2>1. settling[h] \in 0 .. Before /\ ramped[h] \in 0 .. Delta /\ settling[h] <= Old(h)
    BY DEF HostTyped, AddTraced
  <2>2. Old(h) \in Nat
    BY OldClients, Sizes
  <2> QED
    BY <2>1, <2>2, Sizes DEF Live
<1>3. busy[h] \in BOOLEAN /\ addError[h] \in BOOLEAN
  BY DEF HostTyped
<1> QED
  BY <1>1, <1>2, <1>3 DEF StatusOf, Status

\* A host's own step moves its add forward and no other's.
LEMMA HostAdds ==
    ASSUME WaitInv, NEW h \in Host, Publish(h) \/ \E ok \in BOOLEAN : Provision(h, ok)
    PROVE  /\ HostTyped' /\ AddTraced' /\ UNCHANGED <<driverVars, histVars>>
           /\ \A k \in Host : Accepted(k)' <=> Accepted(k)
           /\ \A k \in Host : ~Accepted(k) => used'[k] = used[k]
           /\ \A k \in Host : given[k] /\ ~busy[k] => given'[k] /\ ~busy'[k]
<1>1. HostTyped /\ AddTraced /\ Start \in Nat /\ Before \in Nat /\ Delta \in Nat \ {0}
  BY TypeGroups, Sizes DEF WaitInv
<1>2. CASE Publish(h)
  <2>1. busy[h] /\ given[h] /\ used[h] \in {Start, Before} /\ ~addError[h]
    BY <1>1, <1>2 DEF Publish, AddTraced
  <2>2. /\ used' = [used EXCEPT ![h] = used[h] + Delta] /\ busy' = [busy EXCEPT ![h] = FALSE]
        /\ UNCHANGED <<addError, given, ramped, settling, driverVars, histVars>>
    BY <1>2 DEF Publish
  <2>3. used[h] + Delta \in {Start + Delta, Before + Delta}
    BY <2>1
  <2>4. HostTyped'
    BY <1>1, <2>2, <2>3 DEF HostTyped
  <2>5. used'[h] = used[h] + Delta /\ ~busy'[h] /\ \A k \in Host \ {h} : used'[k] = used[k] /\ busy'[k] = busy[k]
    BY <1>1, <2>2 DEF HostTyped
  <2>6. \A k \in Host : Old(k)' = Old(k)
    <3>1. Old(h)' = Old(h)
      BY <1>1, <2>1, <2>2, <2>5 DEF Old
    <3>2. \A k \in Host \ {h} : Old(k)' = Old(k)
      BY <2>2, <2>5 DEF Old
    <3> QED
      BY <3>1, <3>2
  <2>7. AddTraced'
    <3>1. ASSUME NEW k \in Host
          PROVE  used'[k] \in IF given'[k] /\ ~busy'[k] THEN {Start + Delta, Before + Delta}
                              ELSE {Start, Before}
      BY <1>1, <2>1, <2>2, <2>3, <2>5 DEF AddTraced
    <3>2. ASSUME NEW k \in Host
          PROVE  (addError'[k] => ~busy'[k] /\ ~given'[k]) /\ settling'[k] <= Old(k)'
      BY <1>1, <2>1, <2>2, <2>5, <2>6 DEF AddTraced
    <3> QED
      BY <3>1, <3>2 DEF AddTraced
  <2>8. \A k \in Host : Accepted(k)' <=> Accepted(k)
    BY <2>1, <2>2, <2>5 DEF Accepted
  <2>9. \A k \in Host : ~Accepted(k) => used'[k] = used[k]
    BY <2>1, <2>5 DEF Accepted
  <2> QED
    BY <2>2, <2>4, <2>5, <2>7, <2>8, <2>9
<1>3. ASSUME NEW ok \in BOOLEAN, Provision(h, ok)
      PROVE  /\ HostTyped' /\ AddTraced' /\ UNCHANGED <<driverVars, histVars>>
             /\ \A k \in Host : Accepted(k)' <=> Accepted(k)
             /\ \A k \in Host : ~Accepted(k) => used'[k] = used[k]
             /\ \A k \in Host : given[k] /\ ~busy[k] => given'[k] /\ ~busy'[k]
  <2>1. busy[h] /\ ~given[h] /\ UNCHANGED <<used, ramped, settling, driverVars, histVars>>
    BY <1>3 DEF Provision
  <2>2. CASE ok
    <3>1. given' = [given EXCEPT ![h] = TRUE] /\ UNCHANGED <<busy, addError>>
      BY <1>3, <2>2 DEF Provision
    <3>2. HostTyped'
      BY <1>1, <2>1, <3>1 DEF HostTyped
    <3>3. given'[h] /\ \A k \in Host \ {h} : given'[k] = given[k]
      BY <1>1, <3>1 DEF HostTyped
    <3>4. \A k \in Host : Old(k)' = Old(k) /\ (given'[k] /\ ~busy'[k] <=> given[k] /\ ~busy[k])
      BY <2>1, <3>1, <3>3 DEF Old
    <3>5. AddTraced'
      BY <1>1, <2>1, <3>1, <3>3, <3>4 DEF AddTraced
    <3> QED
      BY <1>1, <2>1, <3>1, <3>2, <3>3, <3>5 DEF Accepted
  <2>3. CASE ~ok
    <3>1. /\ busy' = [busy EXCEPT ![h] = FALSE] /\ addError' = [addError EXCEPT ![h] = TRUE]
          /\ UNCHANGED given
      BY <1>3, <2>3 DEF Provision
    <3>2. HostTyped'
      BY <1>1, <2>1, <3>1 DEF HostTyped
    <3>3. ~busy'[h] /\ addError'[h]
          /\ \A k \in Host \ {h} : busy'[k] = busy[k] /\ addError'[k] = addError[k]
      BY <1>1, <3>1 DEF HostTyped
    <3>4. \A k \in Host : Old(k)' = Old(k) /\ (given'[k] /\ ~busy'[k] <=> given[k] /\ ~busy[k])
      BY <2>1, <3>1, <3>3 DEF Old
    <3>5. AddTraced'
      BY <1>1, <2>1, <3>1, <3>3, <3>4 DEF AddTraced
    <3> QED
      BY <1>1, <2>1, <3>1, <3>2, <3>3, <3>5 DEF Accepted
  <2> QED
    BY <2>2, <2>3
<1> QED
  BY <1>2, <1>3

\* What the other steps of a host change tells nothing about its add.
LEMMA HostLives ==
    ASSUME WaitInv, NEW h \in Host, Ramp(h) \/ Settle(h) \/ Settled(h)
    PROVE  HostTyped' /\ AddTraced' /\ UNCHANGED <<used, busy, addError, given, driverVars, histVars>>
<1>1. HostTyped /\ AddTraced /\ Start \in Nat /\ Before \in Nat /\ Start <= Before /\ Delta \in Nat
  BY TypeGroups, Sizes DEF WaitInv
<1>2. ramped[h] \in 0 .. Delta /\ settling[h] \in 0 .. Before /\ Old(h) \in {Start, Before}
  BY <1>1, OldClients DEF HostTyped
<1>3. CASE Ramp(h)
  <2>1. ramped[h] + 1 \in 0 .. Delta
    BY <1>1, <1>2, <1>3 DEF Ramp
  <2>2. HostTyped' /\ UNCHANGED <<used, busy, addError, given, settling, driverVars, histVars>>
    BY <1>1, <1>3, <2>1 DEF Ramp, HostTyped
  <2> QED
    BY <1>1, <2>2 DEF AddTraced, Old
<1>4. ASSUME NEW n \in 0 .. Before, n <= Old(h), settling' = [settling EXCEPT ![h] = n],
             UNCHANGED <<used, busy, addError, given, ramped, driverVars, histVars>>
      PROVE  HostTyped' /\ AddTraced'
  <2>1. HostTyped'
    BY <1>1, <1>4 DEF HostTyped
  <2>2. settling'[h] = n /\ \A k \in Host \ {h} : settling'[k] = settling[k]
    BY <1>1, <1>4 DEF HostTyped
  <2>3. \A k \in Host : Old(k)' = Old(k)
    BY <1>4 DEF Old
  <2>4. \A k \in Host : settling'[k] <= Old(k)'
    BY <1>1, <1>4, <2>2, <2>3 DEF AddTraced
  <2>5. AddTraced'
    BY <1>1, <1>4, <2>4 DEF AddTraced
  <2> QED
    BY <2>1, <2>5
<1>5. CASE Settle(h)
  <2>1. settling[h] + 1 \in 0 .. Before /\ settling[h] + 1 <= Old(h)
    BY <1>1, <1>2, <1>5 DEF Settle
  <2> QED
    BY <1>4, <1>5, <2>1 DEF Settle
<1>6. CASE Settled(h)
  <2>1. settling[h] - 1 \in 0 .. Before /\ settling[h] - 1 <= Old(h)
    <3>1. settling[h] <= Old(h)
      BY <1>1 DEF AddTraced
    <3> QED
      BY <1>1, <1>2, <1>6, <3>1 DEF Settled
  <2> QED
    BY <1>4, <1>6, <2>1 DEF Settled
<1> QED
  BY <1>3, <1>5, <1>6

\* A step in which the hosts only go on keeps what the driver knows.
LEMMA KnowledgeKept ==
    ASSUME WaitInv, UNCHANGED <<driverVars, histVars>>, cmd' = cmd,
           HostTyped', AddTraced', \A k \in Host : Accepted(k)' <=> Accepted(k),
           \A k \in Host : ~Accepted(k) => used'[k] = used[k],
           \A k \in Host : given[k] /\ ~busy[k] => given'[k] /\ ~busy'[k]
    PROVE  WaitInv'
<1>1. DriverTyped /\ HistTyped /\ AddAsked
  BY TypeGroups DEF WaitInv
<1>2. DriverTyped' /\ HistTyped'
  BY <1>1 DEF DriverTyped, HistTyped, driverVars, histVars
<1>3. AddAsked'
  <2>1. (cmd # "wait" => pc = "done")'
    BY <1>1 DEF AddAsked, driverVars
  <2>2. (pc \in {"add", "base", "poll"} =>
             /\ rc \in {Running, 1}
             /\ \A h \in restarted : ~Accepted(h) /\ used[h] = Start)'
    BY <1>1 DEF AddAsked, HistTyped, driverVars, histVars
  <2>3. (pc = "add" => \A h \in Host :
             /\ h \notin asked => ~Accepted(h)
             /\ h \in asked /\ rc = Running => Accepted(h) \/ h \in restarted)'
    BY <1>1 DEF AddAsked, driverVars, histVars
  <2>4. (pc \in {"base", "poll"} => \A h \in Host : Accepted(h) \/ h \in restarted)'
    BY <1>1 DEF AddAsked, driverVars, histVars
  <2>5. (/\ pc = "base" => \A h \in asked : Start <= base[h].used
         /\ pc = "poll" => (delta > 0 => \A h \in Host : Start <= base[h].used))'
    BY <1>1 DEF AddAsked, driverVars
  <2>6. (pc = "poll" => \A h \in asked : RowTold(h))'
    BY <1>1 DEF AddAsked, RowTold, DriverTyped, driverVars, histVars
  <2> QED
    BY <2>1, <2>2, <2>3, <2>4, <2>5, <2>6 DEF AddAsked
<1> QED
  BY <1>2, <1>3, TypeGroups DEF WaitInv

\* A host's step keeps what wait relies on.
LEMMA WaitHost ==
    ASSUME WaitInv, NEW h \in Host, HostStep(h), cmd' = cmd
    PROVE  WaitInv'
<1>1. CASE Publish(h) \/ \E ok \in BOOLEAN : Provision(h, ok)
  BY <1>1, HostAdds, KnowledgeKept
<1>2. CASE Ramp(h) \/ Settle(h) \/ Settled(h)
  <2>1. HostTyped' /\ AddTraced' /\ UNCHANGED <<used, busy, addError, given, driverVars, histVars>>
    BY <1>2, HostLives
  <2>2. \A k \in Host : Accepted(k)' <=> Accepted(k)
    BY <2>1 DEF Accepted
  <2> QED
    BY <2>1, <2>2, KnowledgeKept
<1> QED
  BY <1>1, <1>2 DEF HostStep

\* A restart keeps what wait relies on: the host is as if it had not been asked.
LEMMA WaitRestart ==
    ASSUME WaitInv, NEW h \in Host, RestartHost(h), cmd' = cmd
    PROVE  WaitInv'
<1>1. HostTyped /\ DriverTyped /\ HistTyped /\ AddTraced /\ AddAsked
  BY TypeGroups DEF WaitInv
<1>2. /\ used' = [used EXCEPT ![h] = Start] /\ settling' = [settling EXCEPT ![h] = Start]
      /\ busy' = [busy EXCEPT ![h] = FALSE] /\ addError' = [addError EXCEPT ![h] = FALSE]
      /\ given' = [given EXCEPT ![h] = FALSE] /\ ramped' = [ramped EXCEPT ![h] = 0]
      /\ restarted' = restarted \union {h} /\ unseen' = unseen \union {h}
      /\ restarts < MaxRestarts /\ restarts' = restarts + 1
      /\ UNCHANGED driverVars
  BY DEF RestartHost
<1>3. HostTyped'
  BY <1>1, <1>2, Sizes DEF HostTyped
<1>4. DriverTyped'
  BY <1>1, <1>2 DEF DriverTyped, driverVars
<1>5. HistTyped'
  BY <1>1, <1>2, Sizes DEF HistTyped
<1>6. /\ used'[h] = Start /\ settling'[h] = Start /\ ~busy'[h] /\ ~addError'[h] /\ ~given'[h]
      /\ \A k \in Host \ {h} :
             /\ used'[k] = used[k] /\ settling'[k] = settling[k] /\ busy'[k] = busy[k]
             /\ addError'[k] = addError[k] /\ given'[k] = given[k]
  BY <1>1, <1>2 DEF HostTyped
<1>7. Old(h)' = Start /\ \A k \in Host \ {h} : Old(k)' = Old(k)
  BY <1>6 DEF Old
<1>8. AddTraced'
  <2>1. ASSUME NEW k \in Host, k # h
        PROVE  /\ used'[k] \in IF given'[k] /\ ~busy'[k] THEN {Start + Delta, Before + Delta}
                               ELSE {Start, Before}
               /\ addError'[k] => ~busy'[k] /\ ~given'[k]
               /\ settling'[k] <= Old(k)'
    BY <1>1, <1>6, <1>7, <2>1 DEF AddTraced
  <2>2. settling'[h] <= Old(h)'
    BY <1>6, <1>7, Sizes
  <2> QED
    BY <1>6, <2>1, <2>2 DEF AddTraced
<1>9. ~Accepted(h)' /\ \A k \in Host \ {h} : Accepted(k)' <=> Accepted(k)
  BY <1>6 DEF Accepted
<1>10. AddAsked'
  <2>1. (cmd # "wait" => pc = "done")'
    BY <1>1, <1>2 DEF AddAsked, driverVars
  <2>2. (pc \in {"add", "base", "poll"} =>
             /\ rc \in {Running, 1}
             /\ \A k \in restarted : ~Accepted(k) /\ used[k] = Start)'
    BY <1>1, <1>2, <1>6, <1>9 DEF AddAsked, HistTyped, driverVars
  <2>3. (pc = "add" => \A k \in Host :
             /\ k \notin asked => ~Accepted(k)
             /\ k \in asked /\ rc = Running => Accepted(k) \/ k \in restarted)'
    BY <1>1, <1>2, <1>9 DEF AddAsked, driverVars
  <2>4. (pc \in {"base", "poll"} => \A k \in Host : Accepted(k) \/ k \in restarted)'
    BY <1>1, <1>2, <1>9 DEF AddAsked, driverVars
  <2>5. (/\ pc = "base" => \A k \in asked : Start <= base[k].used
         /\ pc = "poll" => (delta > 0 => \A k \in Host : Start <= base[k].used))'
    BY <1>1, <1>2 DEF AddAsked, driverVars
  <2>6. (pc = "poll" => \A k \in asked : RowTold(k))'
    <3> SUFFICES ASSUME pc = "poll", NEW k \in asked
                 PROVE  RowTold(k)'
      BY <1>2 DEF driverVars
    <3>1. k \in Host /\ RowTold(k)
      BY <1>1 DEF AddAsked, DriverTyped
    <3>2. CASE k = h
      BY <1>2, <3>2 DEF RowTold
    <3>3. CASE k # h
      BY <1>2, <1>6, <3>1, <3>3 DEF RowTold, driverVars
    <3> QED
      BY <3>2, <3>3
  <2> QED
    BY <2>1, <2>2, <2>3, <2>4, <2>5, <2>6 DEF AddAsked
<1> QED
  BY <1>3, <1>4, <1>5, <1>8, <1>10, TypeGroups DEF WaitInv

\* The driver's step keeps what wait relies on.
LEMMA WaitDriver ==
    ASSUME WaitInv, DriverStep \/ \E late \in BOOLEAN : RoundEnd(late), cmd = "wait", cmd' = cmd
    PROVE  WaitInv'
<1>1. HostTyped /\ DriverTyped /\ HistTyped /\ AddTraced /\ AddAsked
  BY TypeGroups DEF WaitInv
<1>2. ASSUME NEW h \in Host, NEW accepted \in BOOLEAN, NEW heard \in BOOLEAN,
             PostAdd(h, accepted, heard)
      PROVE  WaitInv'
  <2>1. /\ pc = "add" /\ h \notin asked /\ busy' = [busy EXCEPT ![h] = accepted]
        /\ asked' = asked \union {h} /\ rc' = (IF heard THEN rc ELSE 1) /\ (heard => accepted)
        /\ restarted' = (IF accepted THEN restarted \ {h} ELSE restarted)
        /\ UNCHANGED <<used, addError, given, ramped, settling, pc, delta, base, status, unseen, restarts>>
    BY <1>2 DEF PostAdd
  <2>2. HostTyped' /\ DriverTyped' /\ HistTyped'
    BY <1>1, <2>1 DEF HostTyped, DriverTyped, HistTyped
  <2>3. ~busy[h] /\ ~given[h] /\ ~addError[h]
    BY <1>1, <2>1 DEF AddAsked, Accepted
  <2>4. busy'[h] = accepted /\ \A k \in Host \ {h} : busy'[k] = busy[k]
    BY <1>1, <2>1 DEF HostTyped
  <2>5. \A k \in Host : Old(k)' = Old(k) /\ (given'[k] /\ ~busy'[k] <=> given[k] /\ ~busy[k])
    BY <2>1, <2>3, <2>4 DEF Old
  <2>6. AddTraced'
    BY <1>1, <2>1, <2>3, <2>4, <2>5 DEF AddTraced
  <2>7. /\ \A k \in Host \ {h} : Accepted(k)' <=> Accepted(k)
        /\ Accepted(h)' <=> accepted
    BY <2>1, <2>3, <2>4 DEF Accepted
  <2>8. rc \in {Running, 1} /\ Running # 1 /\ \A k \in restarted : ~Accepted(k) /\ used[k] = Start
    BY <1>1, <2>1 DEF AddAsked, Running
  <2>9. AddAsked'
    <3>1. (pc \in {"add", "base", "poll"} =>
               /\ rc \in {Running, 1}
               /\ \A k \in restarted : ~Accepted(k) /\ used[k] = Start)'
      BY <1>1, <2>1, <2>7, <2>8 DEF HistTyped
    <3>2. (\A k \in Host : /\ k \notin asked => ~Accepted(k)
                           /\ k \in asked /\ rc = Running => Accepted(k) \/ k \in restarted)'
      BY <1>1, <2>1, <2>7, <2>8 DEF AddAsked
    <3> QED
      BY <1>1, <2>1, <3>1, <3>2 DEF AddAsked
  <2> QED
    BY <2>2, <2>6, <2>9, TypeGroups DEF WaitInv
<1>3. ASSUME UNCHANGED <<hostVars, restarted, restarts>>, unseen' \in SUBSET unseen, DriverTyped', AddAsked'
      PROVE  WaitInv'
  <2>1. HostTyped' /\ HistTyped' /\ AddTraced'
    BY <1>1, <1>3 DEF HostTyped, HistTyped, AddTraced, Old, hostVars
  <2> QED
    BY <1>3, <2>1, TypeGroups DEF WaitInv
<1>4. CASE AddDone
  <2>1. /\ pc = "add" /\ asked = Host /\ asked' = {}
        /\ pc' = IF rc # Running THEN "done" ELSE IF delta > 0 THEN "base" ELSE "poll"
        /\ UNCHANGED <<hostVars, histVars, rc, delta, base, status>>
    BY <1>4 DEF AddDone
  <2>2. DriverTyped'
    BY <1>1, <2>1 DEF DriverTyped
  <2>3. \A k \in Host : Accepted(k)' <=> Accepted(k)
    BY <2>1 DEF Accepted, hostVars
  <2>4. pc' = "poll" => ~(delta' > 0)
    BY <2>1
  <2>5. AddAsked'
    BY <1>1, <2>1, <2>3, <2>4 DEF AddAsked, HistTyped, hostVars, histVars
  <2> QED
    BY <1>3, <2>1, <2>2, <2>5 DEF histVars
<1>5. ASSUME NEW h \in Host, ReadBase(h)
      PROVE  WaitInv'
  <2>1. /\ pc = "base" /\ base' = [base EXCEPT ![h] = StatusOf(h)] /\ asked' = asked \union {h}
        /\ UNCHANGED <<hostVars, histVars, pc, rc, delta, status>>
    BY <1>5 DEF ReadBase
  <2>2. DriverTyped'
    BY <1>1, <2>1, StatusTyped DEF DriverTyped
  <2>3. \A k \in Host : Accepted(k)' <=> Accepted(k)
    BY <2>1 DEF Accepted, hostVars
  <2>4. base'[h].used = used[h] /\ Start <= used[h] /\ \A k \in Host \ {h} : base'[k] = base[k]
    BY <1>1, <2>1, StatusTyped DEF DriverTyped
  <2>5. \A k \in asked' : Start <= base'[k].used
    BY <1>1, <2>1, <2>4 DEF AddAsked, DriverTyped
  <2>6. AddAsked'
    BY <1>1, <2>1, <2>3, <2>5 DEF AddAsked, HistTyped, hostVars, histVars
  <2> QED
    BY <1>3, <2>1, <2>2, <2>6 DEF histVars
<1>6. CASE BaseDone
  <2>1. /\ pc = "base" /\ asked = Host /\ asked' = {} /\ pc' = "poll"
        /\ UNCHANGED <<hostVars, histVars, rc, delta, base, status>>
    BY <1>6 DEF BaseDone
  <2>2. DriverTyped'
    BY <1>1, <2>1 DEF DriverTyped
  <2>3. \A k \in Host : Accepted(k)' <=> Accepted(k)
    BY <2>1 DEF Accepted, hostVars
  <2>4. AddAsked'
    BY <1>1, <2>1, <2>3 DEF AddAsked, HistTyped, hostVars, histVars
  <2> QED
    BY <1>3, <2>1, <2>2, <2>4 DEF histVars
<1>7. ASSUME NEW h \in Host, ReadStatus(h)
      PROVE  WaitInv'
  <2>1. /\ pc = "poll" /\ status' = [status EXCEPT ![h] = StatusOf(h)] /\ asked' = asked \union {h}
        /\ unseen' = unseen \ {h}
        /\ UNCHANGED <<hostVars, restarted, restarts, pc, rc, delta, base>>
    BY <1>7 DEF ReadStatus
  <2>2. DriverTyped'
    BY <1>1, <2>1, StatusTyped DEF DriverTyped
  <2>3. \A k \in Host : Accepted(k)' <=> Accepted(k)
    BY <2>1 DEF Accepted, hostVars
  <2>4. /\ status'[h].busy = busy[h] /\ status'[h].error = addError[h] /\ status'[h].used = used[h]
        /\ \A k \in Host \ {h} : status'[k] = status[k]
    BY <1>1, <2>1, StatusTyped DEF DriverTyped
  <2>5. h \in restarted => used[h] = Start
    BY <1>1, <2>1 DEF AddAsked
  <2>6. h \notin restarted => Accepted(h)
    BY <1>1, <2>1 DEF AddAsked
  <2>7. RowTold(h)'
    BY <2>1, <2>4, <2>5, <2>6 DEF RowTold, Accepted, hostVars
  <2>8. ASSUME NEW k \in asked', k # h
        PROVE  RowTold(k)'
    <3>1. k \in Host /\ RowTold(k)
      BY <1>1, <2>1, <2>8 DEF AddAsked, DriverTyped
    <3> QED
      BY <2>1, <2>4, <2>8, <3>1 DEF RowTold, hostVars
  <2>9. AddAsked'
    <3>1. (pc \in {"add", "base", "poll"} =>
               /\ rc \in {Running, 1}
               /\ \A k \in restarted : ~Accepted(k) /\ used[k] = Start)'
      BY <1>1, <2>1, <2>3 DEF AddAsked, HistTyped, hostVars
    <3> QED
      BY <1>1, <2>1, <2>3, <2>7, <2>8, <3>1 DEF AddAsked
  <2> QED
    BY <1>3, <2>1, <2>2, <2>9
<1>8. ASSUME pc' = "done", rc' \in {0, 1, 3}, asked' \in SUBSET Host,
             UNCHANGED <<hostVars, histVars, delta, base, status>>
      PROVE  WaitInv'
  <2>1. DriverTyped'
    BY <1>1, <1>8 DEF DriverTyped
  <2>2. AddAsked'
    BY <1>8 DEF AddAsked
  <2> QED
    BY <1>3, <1>8, <2>1, <2>2 DEF histVars
<1>9. CASE RequestFails
  BY <1>1, <1>8, <1>9 DEF RequestFails, Fail, DriverTyped
<1>10. ASSUME NEW late \in BOOLEAN, RoundEnd(late)
       PROVE  WaitInv'
  <2>1. asked' = {} /\ UNCHANGED <<hostVars, histVars, delta, base, status>> /\ pc = "poll"
    BY <1>10 DEF RoundEnd
  <2>2. (pc' = "done" /\ rc' \in {0, 1, 3}) \/ (pc' = pc /\ rc' = rc)
    BY <1>10 DEF RoundEnd, Fail
  <2>3. CASE pc' = pc /\ rc' = rc
    <3>1. DriverTyped'
      BY <1>1, <2>1, <2>3 DEF DriverTyped
    <3>2. \A k \in Host : Accepted(k)' <=> Accepted(k)
      BY <2>1 DEF Accepted, hostVars
    <3>3. AddAsked'
      BY <1>1, <2>1, <2>3, <3>2 DEF AddAsked, HistTyped, hostVars, histVars
    <3> QED
      BY <1>3, <2>1, <3>1, <3>3 DEF histVars
  <2> QED
    BY <1>8, <2>1, <2>2, <2>3
<1> QED
  BY <1>2, <1>4, <1>5, <1>6, <1>7, <1>9, <1>10 DEF DriverStep

\* The steps of the ladder that touch the hosts or the driver's memory.
LEMMA WaitLadder ==
    ASSUME FleetInv, [LadderNext]_ladderVars
    PROVE  WaitInv'
<1>1. WaitInv /\ HostTyped /\ DriverTyped /\ HistTyped /\ AddTraced /\ AddAsked
  BY TypeGroups DEF FleetInv, WaitInv
<1>2. CASE WaitStep
  BY <1>1, <1>2, WaitHost, WaitDriver DEF WaitStep, Next, rungVars
<1>3. ASSUME UNCHANGED <<hostVars, restarts>>, pc = "done", pc' = pc,
             restarted' \in SUBSET restarted, unseen' \in SUBSET unseen, DriverTyped'
      PROVE  WaitInv'
  <2>1. HostTyped' /\ HistTyped' /\ AddTraced'
    BY <1>1, <1>3 DEF HostTyped, HistTyped, AddTraced, Old, hostVars
  <2>2. AddAsked'
    BY <1>3 DEF AddAsked
  <2> QED
    BY <1>3, <2>1, <2>2, TypeGroups DEF WaitInv
<1>4. CASE BeginRung
  <2>1. /\ pc = "done" /\ pc' = pc /\ rc' = rc /\ delta' = 0 /\ asked' = {}
        /\ base' = [h \in Host |-> NoStatus] /\ status' = [h \in Host |-> NoStatus]
        /\ restarted' = {} /\ unseen' = {} /\ UNCHANGED <<hostVars, restarts>>
    BY <1>4 DEF BeginRung
  <2>2. NoStatus \in Status
    BY DEF NoStatus, Status
  <2>3. DriverTyped'
    BY <1>1, <2>1, <2>2, Sizes DEF DriverTyped
  <2> QED
    BY <1>3, <2>1, <2>3
<1>5. ASSUME NEW h \in Host, HostGoesOn(h)
      PROVE  WaitInv'
  BY <1>1, <1>5, WaitHost DEF HostGoesOn, HostStep, rungVars
<1>6. ASSUME NEW h \in Host, Restart(h)
      PROVE  WaitInv'
  BY <1>1, <1>6, WaitRestart DEF Restart
<1>7. ASSUME UNCHANGED vars, cmd = "wait" => cmd' = cmd
      PROVE  WaitInv'
  <2>1. TypeOK' /\ AddTraced'
    BY <1>1, <1>7, TypeGroups DEF HostTyped, DriverTyped, HistTyped, AddTraced, Old,
                                  vars, hostVars, driverVars, histVars
  <2>2. AddAsked'
    BY <1>1, <1>7 DEF AddAsked, RowTold, Accepted, vars, hostVars, driverVars, histVars
  <2> QED
    BY <2>1, <2>2 DEF WaitInv
<1>8. CASE OpenDone \/ Measured \/ CloseDone \/ MergeDone \/ Tick \/ LadderDone \/ UNCHANGED ladderVars
  BY <1>7, <1>8 DEF OpenDone, Measured, CloseDone, MergeDone, Tick, LadderDone, ladderVars, rungVars
<1>9. ASSUME NEW h \in Host, (\E heard \in BOOLEAN : CloseRung(h, heard)) \/ MergeNext(h)
      PROVE  WaitInv'
  BY <1>7, <1>9 DEF CloseRung, MergeNext
<1>10. ASSUME NEW h \in Host, NEW served \in BOOLEAN, NEW heard \in BOOLEAN, OpenRung(h, served, heard)
       PROVE  WaitInv'
  <2>1. /\ cmd = "open" /\ UNCHANGED <<hostVars, driverVars, unseen, restarts>>
        /\ restarted' \in SUBSET restarted
    BY <1>10 DEF OpenRung
  <2>2. pc = "done" /\ DriverTyped'
    BY <1>1, <2>1 DEF AddAsked, DriverTyped, driverVars
  <2> QED
    BY <1>3, <2>1, <2>2 DEF driverVars
<1> QED
  BY <1>2, <1>4, <1>5, <1>6, <1>8, <1>9, <1>10 DEF LadderNext, RungStep

-----------------------------------------------------------------------------
(* The rung.                                                               *)

\* open_epoch_sec is the second the opening lies in, and 0 only for a time
\* within the first.
LEMMA EpochBounds ==
    ASSUME NEW t \in Nat
    PROVE  /\ EpochSec(t) \in Nat /\ Second * EpochSec(t) \in Nat
           /\ Second * EpochSec(t) <= t /\ t < Second * EpochSec(t) + Second
           /\ Second <= t => EpochSec(t) # 0
<1>0. Second \in Nat \ {0}
  BY LadderAssumption
<1>1. EpochSec(t) \in Int /\ Second * EpochSec(t) <= t /\ t < Second * EpochSec(t) + Second
  BY <1>0 DEF EpochSec
<1>2. EpochSec(t) \in Nat
  BY <1>0 DEF EpochSec
<1> QED
  BY <1>0, <1>1, <1>2

\* The constants, as the proofs use them.
LEMMA Ids == OldId # NewId /\ NoId # NewId /\ OldId # NoId /\ Second \in Nat \ {0}
             /\ MaxTime \in Nat /\ Running # 1 /\ Running # 0
BY LadderAssumption DEF Running

\* A step that touches no rung keeps the rungs.
LEMMA RungUnchanged ==
    ASSUME RungInv, UNCHANGED rungVars, cmd # "wait" => restarted' = restarted
    PROVE  RungInv'
<1>1. Answered' = Answered
  BY DEF Answered, rungVars
<1>2. RungTyped' /\ ClockInv'
  BY DEF RungInv, RungTyped, ClockInv, rungVars
<1>3. OpenInv'
  <2>1. cmd = "wait" => \A h \in Host : ~Opened(h)' /\ answers'[h] = NoAnswer
    BY DEF RungInv, CloseInv, Answered, Opened, rungVars
  <2> QED
    BY <2>1 DEF RungInv, OpenInv, Opened, rungVars
<1>4. CloseInv'
  BY <1>1 DEF RungInv, CloseInv, rungVars
<1>5. MergeInv'
  BY <1>1 DEF RungInv, MergeInv, rungVars
<1> QED
  BY <1>2, <1>3, <1>4, <1>5 DEF RungInv

\* The steps that only go from one command to the next.
LEMMA RungPhases ==
    ASSUME RungInv, BeginRung \/ OpenDone \/ Measured \/ CloseDone
    PROVE  RungInv'
<1>0. RungTyped /\ ClockInv /\ OpenInv /\ CloseInv /\ MergeInv
  BY DEF RungInv
<1>1. /\ UNCHANGED <<now, window, closeRc, answers, fleet>>
      /\ cmd = "wait" \/ restarted' = restarted
      /\ openRc' = openRc \/ (openRc = Running /\ openRc' = 0)
      /\ \/ cmd = "wait" /\ cmd' = "open" /\ told' = told
         \/ cmd = "open" /\ cmd' = "steady" /\ told = Host /\ told' = {}
         \/ cmd = "steady" /\ cmd' = "close" /\ told' = told
         \/ cmd = "close" /\ cmd' = "merge" /\ told = Host /\ told' = told
  BY DEF BeginRung, OpenDone, Measured, CloseDone, vars, histVars
<1>2. Answered' = Answered
  BY <1>1 DEF Answered
<1>3. RungTyped'
  BY <1>0, <1>1 DEF RungTyped
<1>4. ClockInv'
  BY <1>0, <1>1 DEF ClockInv
<1>5. OpenInv'
  <2>1. openRc' # 1 => openRc # 1
    BY <1>1, Ids
  <2>2. \A h \in Host : Opened(h)' => Opened(h)
    BY <1>0, <1>1 DEF Opened, OpenInv
  <2>3. cmd = "wait" => \A h \in Host : ~Opened(h) /\ answers[h] = NoAnswer
    BY <1>0 DEF CloseInv, Answered, Opened
  <2> QED
    BY <1>0, <1>1, <2>1, <2>2, <2>3 DEF OpenInv
<1>6. CloseInv'
  BY <1>0, <1>1, <1>2, Ids DEF CloseInv, OpenInv
<1>7. MergeInv'
  BY <1>0, <1>1, <1>2 DEF MergeInv
<1> QED
  BY <1>3, <1>4, <1>5, <1>6, <1>7 DEF RungInv

\* Time passes inside the open windows.
LEMMA RungTicks ==
    ASSUME RungInv, Tick
    PROVE  RungInv'
<1>0. RungTyped /\ ClockInv /\ OpenInv /\ CloseInv /\ MergeInv
  BY DEF RungInv
<1>1. now' = now + 1 /\ UNCHANGED <<window, restarted, cmd, told, openRc, closeRc, answers, fleet>>
  BY DEF Tick, vars, histVars
<1>2. Answered' = Answered
  BY <1>1 DEF Answered
<1>3. RungTyped'
  BY <1>0, <1>1 DEF RungTyped
<1>4. ClockInv'
  <2>1. \A h \in Host : window[h].open \in Nat
    BY <1>0 DEF RungTyped, WindowType
  <2> QED
    BY <1>0, <1>1, <2>1, Ids DEF ClockInv, RungTyped
<1>5. OpenInv'
  BY <1>0, <1>1 DEF OpenInv, Opened
<1>6. CloseInv' /\ MergeInv'
  BY <1>0, <1>1, <1>2 DEF CloseInv, MergeInv
<1> QED
  BY <1>3, <1>4, <1>5, <1>6 DEF RungInv

\* A restart puts a host into an unnamed window, and remembers that it did.
LEMMA RungRestarts ==
    ASSUME RungInv, NEW h \in Host, Restart(h)
    PROVE  RungInv'
<1>0. RungTyped /\ ClockInv /\ OpenInv /\ CloseInv /\ MergeInv
  BY DEF RungInv
<1>1. /\ window' = [window EXCEPT ![h] = [id |-> NoId, open |-> now]]
      /\ restarted' = restarted \union {h}
      /\ UNCHANGED <<now, cmd, told, openRc, closeRc, answers, fleet>>
  BY DEF Restart, RestartHost
<1>2. Answered' = Answered
  BY <1>1 DEF Answered
<1>3. [id |-> NoId, open |-> now] \in WindowType
  BY <1>0 DEF RungTyped, WindowType
<1>4. window'[h] = [id |-> NoId, open |-> now] /\ \A k \in Host \ {h} : window'[k] = window[k]
  BY <1>0, <1>1 DEF RungTyped
<1>5. RungTyped'
  <2>1. window' \in [Host -> WindowType]
    BY <1>0, <1>1, <1>3 DEF RungTyped
  <2> QED
    BY <1>0, <1>1, <2>1 DEF RungTyped
<1>6. ClockInv'
  BY <1>0, <1>1, <1>4 DEF ClockInv, RungTyped
<1>7. OpenInv'
  BY <1>0, <1>1, <1>4 DEF OpenInv, Opened
<1>8. CloseInv' /\ MergeInv'
  BY <1>0, <1>1, <1>2 DEF CloseInv, MergeInv
<1> QED
  BY <1>5, <1>6, <1>7, <1>8 DEF RungInv

\* rung-open is served, lost or unheard by one host.
LEMMA RungOpens ==
    ASSUME RungInv, NEW h \in Host, NEW served \in BOOLEAN, NEW heard \in BOOLEAN,
           OpenRung(h, served, heard)
    PROVE  RungInv'
<1>0. RungTyped /\ ClockInv /\ OpenInv /\ CloseInv /\ MergeInv
  BY DEF RungInv
<1>1. /\ cmd = "open" /\ told' = told \union {h}
      /\ UNCHANGED <<now, cmd, closeRc, answers, fleet>>
  BY DEF OpenRung
<1>2. \/ /\ window' = [window EXCEPT ![h] = [id |-> NewId, open |-> now]]
         /\ restarted' = restarted \ {h} /\ openRc' \in {openRc, 1}
      \/ window' = window /\ restarted' = restarted /\ openRc' = 1
  BY DEF OpenRung
<1>3. Answered' = Answered /\ Answered = {}
  BY <1>0, <1>1 DEF Answered, CloseInv
<1>4. [id |-> NewId, open |-> now] \in WindowType
  BY <1>0 DEF RungTyped, WindowType
<1>5. /\ \A k \in Host \ {h} : window'[k] = window[k]
      /\ window'[h] = [id |-> NewId, open |-> now] \/ (window' = window /\ openRc' = 1)
  BY <1>0, <1>2 DEF RungTyped
<1>6. RungTyped'
  BY <1>0, <1>1, <1>2, <1>4 DEF RungTyped
<1>7. ClockInv'
  BY <1>0, <1>1, <1>5 DEF ClockInv, RungTyped
<1>8. OpenInv'
  <2>1. \A k \in Host : answers'[k] = NoAnswer
    BY <1>1, <1>3 DEF Answered
  <2>2. ASSUME NEW k \in Host, openRc' # 1, k \notin restarted', k \in told'
        PROVE  window'[k].id = NewId
    <3>1. CASE k = h
      BY <1>5, <2>2, <3>1
    <3>2. CASE k # h
      BY <1>0, <1>1, <1>2, <1>5, <2>2, <3>2 DEF OpenInv, Opened
    <3> QED
      BY <3>1, <3>2
  <2> QED
    BY <1>1, <2>1, <2>2 DEF OpenInv, Opened
<1>9. CloseInv' /\ MergeInv'
  BY <1>0, <1>1, <1>3 DEF CloseInv, MergeInv
<1> QED
  BY <1>6, <1>7, <1>8, <1>9 DEF RungInv

\* rung-close is answered with the window of the rung the host is on.
LEMMA RungCloses ==
    ASSUME RungInv, NEW h \in Host, NEW heard \in BOOLEAN, CloseRung(h, heard)
    PROVE  RungInv'
<1>0. RungTyped /\ ClockInv /\ OpenInv /\ CloseInv /\ MergeInv
  BY DEF RungInv
<1> DEFINE a == [id |-> window[h].id, open |-> window[h].open, taken |-> now]
<1>1. /\ cmd = "close" /\ h \notin told /\ told' = told \union {h}
      /\ UNCHANGED <<now, window, restarted, cmd, openRc, fleet>>
      /\ \/ heard /\ answers' = [answers EXCEPT ![h] = a] /\ closeRc' = closeRc
         \/ ~heard /\ answers' = answers /\ closeRc' = 1
  BY DEF CloseRung, vars, histVars
<1>2. /\ window[h] \in WindowType /\ a \in AnswerType /\ a.id = window[h].id
      /\ Second <= a.open /\ a.open <= a.taken /\ a.open \in Nat
  BY <1>0 DEF RungTyped, WindowType, AnswerType, ClockInv
<1>3. a # NoAnswer
  BY <1>2, Ids DEF NoAnswer
<1> HIDE DEF a
<1>4. /\ \A k \in Host \ {h} : answers'[k] = answers[k]
      /\ heard => answers'[h] = a
      /\ ~heard => answers' = answers
  BY <1>0, <1>1 DEF RungTyped
<1>5. fleet = NoFleet /\ fleet.hosts = {} /\ closeRc # 0
  BY <1>0, <1>1 DEF MergeInv, CloseInv, NoFleet
<1>6. RungTyped'
  BY <1>0, <1>1, <1>2 DEF RungTyped
<1>7. ClockInv'
  BY <1>0, <1>1, <1>2, <1>4 DEF ClockInv
<1>8. OpenInv'
  <2>1. openRc # 1 /\ h \notin restarted => a.id = NewId
    BY <1>0, <1>1, <1>2 DEF OpenInv, Opened
  <2> QED
    BY <1>0, <1>1, <1>4, <2>1 DEF OpenInv, Opened
<1>9. CloseInv'
  <2>1. heard => Answered' = Answered \union {h}
    BY <1>3, <1>4 DEF Answered
  <2>2. ~heard => Answered' = Answered
    BY <1>4 DEF Answered
  <2> QED
    BY <1>0, <1>1, <1>5, <2>1, <2>2 DEF CloseInv
<1>10. MergeInv'
  BY <1>0, <1>1, <1>5 DEF MergeInv, NoFleet
<1> QED
  BY <1>6, <1>7, <1>8, <1>9, <1>10 DEF RungInv

\* One more host in the merge.
LEMMA RungMerges ==
    ASSUME RungInv, NEW h \in Host, MergeNext(h)
    PROVE  RungInv'
<1>0. RungTyped /\ ClockInv /\ OpenInv /\ CloseInv /\ MergeInv
  BY DEF RungInv
<1> DEFINE a == answers[h]
           sec == EpochSec(a.open)
<1>1. /\ cmd = "merge" /\ h \in Answered \ fleet.hosts
      /\ fleet' = [id |-> IF fleet.hosts = {} THEN a.id ELSE fleet.id,
                   openSec |-> Earliest(sec), duration |-> Longest(Duration(a)),
                   hosts |-> fleet.hosts \union {h},
                   disagree |-> fleet.disagree \/ Disagrees(a.id)]
      /\ UNCHANGED <<now, window, restarted, cmd, told, openRc, closeRc, answers>>
  BY DEF MergeNext, vars, histVars
<1>2. /\ a \in AnswerType /\ a.id \in {OldId, NewId, NoId} /\ a.open \in Nat /\ a.taken \in Nat
      /\ Second <= a.open /\ a.open <= a.taken
  BY <1>0, <1>1 DEF RungTyped, AnswerType, ClockInv, Answered
<1>3. sec \in Nat /\ sec # 0 /\ Duration(a) \in Nat
  BY <1>2, EpochBounds DEF Duration
<1>4. /\ fleet \in FleetType /\ fleet.openSec \in Nat /\ fleet.duration \in Nat
      /\ fleet.hosts \in SUBSET Host /\ fleet.disagree \in BOOLEAN /\ fleet.id \in {OldId, NewId, NoId}
  BY <1>0 DEF RungTyped, FleetType
<1>5. Answered' = Answered
  BY <1>1 DEF Answered
<1>6. \A k \in fleet.hosts :
          EpochSec(answers[k].open) \in Nat /\ EpochSec(answers[k].open) # 0
          /\ Duration(answers[k]) \in Int
  <2> SUFFICES ASSUME NEW k \in fleet.hosts
               PROVE  EpochSec(answers[k].open) \in Nat /\ EpochSec(answers[k].open) # 0
                      /\ Duration(answers[k]) \in Int
    OBVIOUS
  <2>1. k \in Host /\ answers[k] # NoAnswer
    BY <1>0 DEF MergeInv, Answered
  <2>2. answers[k].open \in Nat /\ answers[k].taken \in Nat /\ Second <= answers[k].open
    BY <1>0, <2>1 DEF RungTyped, AnswerType, ClockInv
  <2> QED
    BY <2>2, EpochBounds DEF Duration
<1> HIDE DEF sec, a
<1>7. /\ Earliest(sec) \in Nat /\ Longest(Duration(a)) \in Nat
      /\ Earliest(sec) <= sec /\ Duration(a) <= Longest(Duration(a))
      /\ fleet.duration <= Longest(Duration(a))
      /\ fleet.openSec # 0 => Earliest(sec) <= fleet.openSec
      /\ Earliest(sec) = sec \/ (Earliest(sec) = fleet.openSec /\ fleet.openSec # 0)
  BY <1>3, <1>4 DEF Earliest, Longest
<1>8. /\ fleet'.openSec = Earliest(sec) /\ fleet'.duration = Longest(Duration(a))
      /\ fleet'.hosts = fleet.hosts \union {h}
      /\ fleet'.disagree = (fleet.disagree \/ Disagrees(a.id))
      /\ fleet'.id = IF fleet.hosts = {} THEN a.id ELSE fleet.id
  BY <1>1
<1>9. RungTyped'
  <2>1. fleet' \in FleetType
    BY <1>1, <1>2, <1>4, <1>7 DEF FleetType, Disagrees
  <2> QED
    BY <1>0, <1>1, <2>1 DEF RungTyped
<1>10. ClockInv' /\ OpenInv'
  BY <1>0, <1>1 DEF ClockInv, OpenInv, Opened
<1>11. CloseInv'
  BY <1>0, <1>1, <1>5 DEF CloseInv
<1>12. MergeInv'
  <2>1. fleet.hosts # {} => fleet.openSec # 0
    BY <1>0, <1>4, <1>6 DEF MergeInv
  <2>2. fleet'.hosts \subseteq Answered' /\ fleet'.hosts # {} /\ cmd' = "merge" /\ closeRc' # 0
    BY <1>0, <1>1, <1>5, <1>8 DEF MergeInv, CloseInv
  <2>3. ASSUME ~fleet'.disagree, NEW k \in fleet'.hosts
        PROVE  answers'[k].id = fleet'.id
    <3>1. ~fleet.disagree /\ ~Disagrees(a.id)
      BY <1>8, <2>3
    <3>2. CASE k = h
      BY <1>1, <1>8, <3>1, <3>2 DEF Disagrees, a
    <3>3. CASE k # h
      <4>1. k \in fleet.hosts /\ answers[k].id = fleet.id
        BY <1>0, <1>8, <2>3, <3>1, <3>3 DEF MergeInv
      <4> QED
        BY <1>1, <1>8, <4>1
    <3> QED
      BY <3>2, <3>3
  <2>4. ASSUME NEW k \in fleet'.hosts
        PROVE  /\ fleet'.openSec <= EpochSec(answers'[k].open)
               /\ Duration(answers'[k]) <= fleet'.duration
    <3>1. CASE k = h
      BY <1>1, <1>7, <1>8, <3>1 DEF a, sec
    <3>2. CASE k # h
      <4>1. k \in fleet.hosts
        BY <1>8, <2>4, <3>2
      <4>2. fleet.openSec <= EpochSec(answers[k].open) /\ Duration(answers[k]) <= fleet.duration
        BY <1>0, <4>1 DEF MergeInv
      <4>3. fleet'.openSec <= fleet.openSec /\ fleet.duration <= fleet'.duration
        BY <1>7, <1>8, <2>1, <4>1
      <4>4. answers'[k] = answers[k]
        BY <1>1
      <4>5. EpochSec(answers[k].open) \in Nat /\ Duration(answers[k]) \in Int
            /\ fleet'.openSec \in Nat /\ fleet'.duration \in Nat
        BY <1>6, <1>7, <1>8, <4>1
      <4> QED
        BY <1>4, <4>2, <4>3, <4>4, <4>5
    <3> QED
      BY <3>1, <3>2
  <2>5. \E k \in fleet'.hosts : fleet'.openSec = EpochSec(answers'[k].open)
    <3>1. CASE Earliest(sec) = sec
      BY <1>1, <1>8, <3>1 DEF a, sec
    <3>2. CASE Earliest(sec) = fleet.openSec /\ fleet.openSec # 0
      <4>1. fleet.hosts # {}
        BY <1>0, <3>2 DEF MergeInv, NoFleet
      <4>2. PICK k \in fleet.hosts : fleet.openSec = EpochSec(answers[k].open)
        BY <1>0, <4>1 DEF MergeInv
      <4> QED
        BY <1>1, <1>8, <3>2, <4>2
    <3> QED
      BY <1>7, <3>1, <3>2
  <2> QED
    BY <2>2, <2>3, <2>4, <2>5 DEF MergeInv
<1> QED
  BY <1>9, <1>10, <1>11, <1>12 DEF RungInv

\* The merge keeps the rungs.
LEMMA RungMerged ==
    ASSUME RungInv, MergeDone
    PROVE  RungInv'
<1>0. RungTyped /\ ClockInv /\ OpenInv /\ CloseInv /\ MergeInv
  BY DEF RungInv
<1>1. /\ cmd = "merge" /\ fleet.hosts = Answered /\ cmd' = "end" /\ told' = {}
      /\ closeRc' = IF closeRc # Running THEN closeRc ELSE IF fleet.disagree THEN 1 ELSE 0
      /\ UNCHANGED <<now, window, restarted, openRc, answers, fleet>>
  BY DEF MergeDone, vars, histVars
<1>2. Answered' = Answered /\ closeRc # 0
  BY <1>0, <1>1 DEF Answered, CloseInv
<1>3. RungTyped'
  BY <1>0, <1>1 DEF RungTyped
<1>4. ClockInv'
  BY <1>0, <1>1 DEF ClockInv
<1>5. OpenInv'
  BY <1>0, <1>1 DEF OpenInv, Opened
<1>6. CloseInv'
  BY <1>0, <1>1, <1>2, Ids DEF CloseInv
<1>7. MergeInv'
  BY <1>0, <1>1, <1>2 DEF MergeInv
<1> QED
  BY <1>3, <1>4, <1>5, <1>6, <1>7 DEF RungInv

\* Every step keeps the rungs.
LEMMA RungLadder ==
    ASSUME FleetInv, [LadderNext]_ladderVars
    PROVE  RungInv'
<1>0. RungInv
  BY DEF FleetInv
<1>1. CASE WaitStep \/ LadderDone \/ UNCHANGED ladderVars \/ \E h \in Host : HostGoesOn(h)
  <2>1. UNCHANGED rungVars
    BY <1>1 DEF WaitStep, LadderDone, HostGoesOn, ladderVars
  <2>2. cmd # "wait" => restarted' = restarted
    BY <1>1 DEF WaitStep, LadderDone, HostGoesOn, Publish, Provision, ladderVars, vars, histVars
  <2> QED
    BY <1>0, <2>1, <2>2, RungUnchanged
<1>2. CASE RungStep
  BY <1>0, <1>2, RungPhases, RungOpens, RungCloses, RungMerges, RungMerged DEF RungStep
<1>3. CASE Tick \/ \E h \in Host : Restart(h)
  BY <1>0, <1>3, RungTicks, RungRestarts
<1> QED
  BY <1>1, <1>2, <1>3 DEF LadderNext

-----------------------------------------------------------------------------
\* The invariant holds initially.
LEMMA FleetInitially == LadderInit => FleetInv
<1> SUFFICES ASSUME LadderInit
             PROVE  FleetInv
  OBVIOUS
<1>1. TypeOK
  <2>1. NoStatus \in Status
    BY DEF NoStatus, Status
  <2>2. HostTyped
    BY Sizes DEF LadderInit, Init, HostTyped
  <2>3. DriverTyped /\ HistTyped
    BY <2>1, Sizes DEF LadderInit, Init, DriverTyped, HistTyped
  <2> QED
    BY <2>2, <2>3, TypeGroups
<1>2. AddTraced /\ AddAsked
  BY Sizes DEF LadderInit, Init, AddTraced, AddAsked, Accepted, Old
<1>3. RungTyped
  <2>1. NoAnswer \in AnswerType /\ NoFleet \in FleetType /\ [id |-> OldId, open |-> Second] \in WindowType
    BY Ids DEF NoAnswer, NoFleet, AnswerType, FleetType, WindowType
  <2> QED
    BY <2>1, Ids DEF LadderInit, RungTyped
<1>4. ClockInv
  BY Ids DEF LadderInit, ClockInv
<1>5. Answered = {}
  BY DEF LadderInit, Answered
<1>6. OpenInv
  BY DEF LadderInit, OpenInv, Opened
<1>7. CloseInv
  BY <1>5, Ids DEF LadderInit, CloseInv
<1>8. MergeInv
  BY <1>5, Ids DEF LadderInit, MergeInv, NoFleet
<1> QED
  BY <1>1, <1>2, <1>3, <1>4, <1>6, <1>7, <1>8 DEF FleetInv, WaitInv, RungInv

\* The invariant holds in every reachable state.
LEMMA FleetInvariant == LadderSpec => []FleetInv
<1>1. FleetInv /\ [LadderNext]_ladderVars => FleetInv'
  BY WaitLadder, RungLadder DEF FleetInv
<1> QED
  BY <1>1, FleetInitially, PTL DEF LadderSpec

\* The fleet, the driver and the merge have their types, whatever is lost or
\* restarted.
THEOREM LadderTypeCorrect == LadderSpec => []LadderTypeOK
<1>1. FleetInv => LadderTypeOK
  BY TypeGroups DEF FleetInv, WaitInv, RungInv
<1> QED
  BY <1>1, FleetInvariant, PTL

\* A `wait' that exits 0 leaves every host's add published, although the rows
\* it looked at were read one by one while hosts went on and were restarted:
\* with --active-delta except on a host restarted after its row was read,
\* without on every host that was not restarted since it was sent the add.
THEOREM WaitMeansProvisioned == LadderSpec => ReturnMeansProvisioned
<1>1. ASSUME FleetInv, [LadderNext]_ladderVars, rc' = 0, rc # 0
      PROVE  \A h \in Host \ (IF delta > 0 THEN unseen ELSE restarted) : given'[h] /\ ~busy'[h]
  <2>1. WaitInv /\ DriverTyped /\ AddAsked
    BY <1>1, TypeGroups DEF FleetInv, WaitInv
  <2>2. PICK late \in BOOLEAN : RoundEnd(late)
    <3>1. CASE WaitStep
      <4>1. ASSUME NEW h \in Host, HostStep(h)
            PROVE  FALSE
        BY <1>1, <4>1 DEF HostStep, Provision, Publish, Ramp, Settle, Settled, driverVars
      <4>2. CASE DriverStep
        BY <1>1, <4>2 DEF DriverStep, PostAdd, ReadBase, ReadStatus, AddDone, BaseDone, RequestFails, Fail
      <4> QED
        BY <3>1, <4>1, <4>2 DEF WaitStep, Next
    <3>2. CASE ~WaitStep
      <4>1. rc' = rc
        <5>1. CASE RungStep
          BY <5>1 DEF RungStep, BeginRung, OpenDone, Measured, CloseDone, MergeDone, OpenRung,
                      CloseRung, MergeNext, vars, driverVars
        <5>2. CASE Tick \/ LadderDone \/ UNCHANGED ladderVars
          BY <5>2 DEF Tick, LadderDone, ladderVars, vars, driverVars
        <5>3. ASSUME NEW h \in Host, HostGoesOn(h) \/ Restart(h)
              PROVE  rc' = rc
          BY <5>3 DEF HostGoesOn, Publish, Provision, Restart, RestartHost, driverVars
        <5> QED
          BY <1>1, <3>2, <5>1, <5>2, <5>3 DEF LadderNext
      <4> QED
        BY <1>1, <4>1
    <3> QED
      BY <3>1, <3>2
  <2>3. /\ pc = "poll" /\ asked = Host /\ Idle /\ Grown /\ UNCHANGED hostVars
        /\ \A h \in Host : ~status[h].error
    BY <1>1, <2>2 DEF RoundEnd, Fail
  <2>4. ASSUME NEW h \in Host, h \notin IF delta > 0 THEN unseen ELSE restarted
        PROVE  given[h] /\ ~busy[h]
    <3>1. (given[h] /\ ~busy[h]) \/ (h \in restarted /\ (h \in unseen \/ status[h].used = Start))
      BY <2>1, <2>3 DEF AddAsked, RowTold, Idle
    <3>2. CASE delta > 0
      <4>1. status[h].used >= base[h].used + delta /\ Start <= base[h].used
        BY <2>1, <2>3, <3>2 DEF Grown, AddAsked
      <4>2. status[h].used \in Nat /\ base[h].used \in Nat /\ delta \in Nat
        BY <2>1, Sizes DEF DriverTyped, Status
      <4>3. status[h].used # Start
        BY <3>2, <4>1, <4>2, Sizes
      <4> QED
        BY <2>4, <3>1, <3>2, <4>3
    <3>3. CASE ~(delta > 0)
      BY <2>4, <3>1, <3>3
    <3> QED
      BY <3>2, <3>3
  <2> QED
    BY <2>3, <2>4 DEF hostVars
<1>2. FleetInv /\ [LadderNext]_ladderVars
      => [rc' = 0 /\ rc # 0 =>
            \A h \in Host \ (IF delta > 0 THEN unseen ELSE restarted) : given'[h] /\ ~busy'[h]]_vars
  BY <1>1
<1> QED
  BY <1>2, FleetInvariant, PTL DEF LadderSpec, ReturnMeansProvisioned

\* A rung-close that exits 0 has one rung's windows, of every host.
THEOREM CloseIsOneRung == LadderSpec => []CloseMeansOneRung
<1>1. FleetInv => CloseMeansOneRung
  <2> SUFFICES ASSUME FleetInv, closeRc = 0
               PROVE  /\ Answered = Host
                      /\ \A h \in Host : answers[h].id = fleet.id
                      /\ openRc = 0 => fleet.id = NewId \/ restarted = Host
    BY DEF CloseMeansOneRung
  <2>0. RungTyped /\ OpenInv /\ CloseInv /\ MergeInv
    BY DEF FleetInv, RungInv
  <2>1. cmd = "end" /\ Answered = Host
    BY <2>0 DEF CloseInv
  <2>2. \A h \in Host : answers[h].id = fleet.id
    BY <2>0, <2>1 DEF MergeInv
  <2>3. ASSUME openRc = 0, restarted # Host
        PROVE  fleet.id = NewId
    <3>1. PICK h \in Host : h \notin restarted
      BY <2>3, TypeGroups DEF FleetInv, WaitInv, HistTyped
    <3>2. answers[h] # NoAnswer
      BY <2>1 DEF Answered
    <3> QED
      BY <2>0, <2>2, <2>3, <3>1, <3>2 DEF OpenInv
  <2> QED
    BY <2>1, <2>2, <2>3
<1> QED
  BY <1>1, FleetInvariant, PTL

\* The earliest opening with the longest duration covers what every host was
\* inside, to within the second the opening is cut to.
THEOREM WindowIsCovered == LadderSpec => []FleetWindowCovers
<1>1. FleetInv => FleetWindowCovers
  <2> SUFFICES ASSUME FleetInv, cmd = "end", Answered # {}
               PROVE  /\ \A h \in Answered : Second * fleet.openSec <= answers[h].open
                      /\ \E h \in Answered :
                            answers[h].taken < Second * fleet.openSec + fleet.duration + Second
    BY DEF FleetWindowCovers
  <2>0. RungTyped /\ ClockInv /\ MergeInv /\ fleet.hosts = Answered /\ Second \in Nat \ {0}
        /\ fleet.openSec \in Nat /\ fleet.duration \in Nat
    BY Ids DEF FleetInv, RungInv, MergeInv, RungTyped, FleetType
  <2>1. ASSUME NEW h \in Answered
        PROVE  /\ answers[h].open \in Nat /\ answers[h].taken \in Nat
               /\ fleet.openSec <= EpochSec(answers[h].open)
               /\ answers[h].taken - answers[h].open <= fleet.duration
    BY <2>0, <2>1 DEF RungTyped, AnswerType, Answered, MergeInv, Duration
  <2>2. ASSUME NEW h \in Answered
        PROVE  Second * fleet.openSec <= answers[h].open
    <3>1. EpochSec(answers[h].open) \in Nat /\ Second * EpochSec(answers[h].open) <= answers[h].open
          /\ Second * EpochSec(answers[h].open) \in Nat
      BY <2>1, EpochBounds
    <3>2. Second * fleet.openSec <= Second * EpochSec(answers[h].open)
      <4> DEFINE e == EpochSec(answers[h].open)
      <4>1. Second * e = Second * fleet.openSec + Second * (e - fleet.openSec)
            /\ Second * (e - fleet.openSec) \in Nat /\ Second * fleet.openSec \in Nat
        BY <2>0, <2>1, <3>1
      <4> QED
        BY <4>1
    <3> QED
      BY <2>0, <2>1, <3>1, <3>2
  <2>3. \E h \in Answered : answers[h].taken < Second * fleet.openSec + fleet.duration + Second
    <3>1. PICK h \in Answered : fleet.openSec = EpochSec(answers[h].open)
      BY <2>0 DEF MergeInv
    <3>2. answers[h].open < Second * fleet.openSec + Second /\ Second * fleet.openSec \in Nat
      BY <2>1, <3>1, EpochBounds
    <3> QED
      BY <2>0, <2>1, <3>2
  <2> QED
    BY <2>2, <2>3
<1> QED
  BY <1>1, FleetInvariant, PTL

=============================================================================
