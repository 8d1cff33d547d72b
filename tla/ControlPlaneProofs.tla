-------------------------- MODULE ControlPlaneProofs --------------------------
(* The adds of a generator, for every number of pool threads, adds and     *)
(* indices: busy_ is the ticket of one add, the indices handed out are     *)
(* unique and counted, and the add thread is joined before main returns.   *)
EXTENDS ControlPlane, FiniteSetTheorems, TLAPS

-----------------------------------------------------------------------------
(* The inductive invariant.                                                *)

Marking == {g \in Handler : handler[g].pc = "mark"}

\* A window is only marked for a handler that found room for it.
WindowRoom == window + Cardinality(Marking) <= MaxWindows

\* The add that holds busy_ was accepted at the used_ of now: nobody else
\* moves it, so the check against the limit still holds when it is published.
HeldRange ==
    \A a \in AddId : Holding(a) =>
        /\ add[a].start = used
        /\ add[a].count \in AddCounts
        /\ used + add[a].count <= IndexLimit

\* A handler inside requestAdd holds the add it was accepted with, which does
\* not run before it is spawned; before that no other handler is there.
Launching(h) == handler[h].pc \in {"join", "spawn"}
Carrying(h) == Launching(h) \/ handler[h].pc = "assign"
HandlerHoldsAdd ==
    /\ \A h \in Handler : Carrying(h) => handler[h].add \in AddId
    /\ \A h \in Handler : Launching(h) => add[handler[h].add].pc = "accepted"
    /\ \A g, h \in Handler : Launching(g) /\ Launching(h) => g = h

\* Before Harness::start there is nothing, and nobody to ask for anything.
NothingBeforeStart ==
    main = "start" =>
        /\ used = 0 /\ given = {} /\ ~busy /\ ~serving /\ ~aborted
        /\ \A a \in AddId : add[a].pc = "none"
        /\ \A h \in Handler : handler[h] = Free

AddInv == TypeOK /\ WindowRoom /\ BusyIsOneAdd /\ HeldRange /\ HandlerHoldsAdd
             /\ NothingBeforeStart

\* What the workers have is what used_ counts, and the indices of the add
\* that has distributed its clients and not published them.
Publishing(a) == add[a].pc = "publish"
GivenBelowUsed ==
    \A x \in given :
        \/ x[2] < used
        \/ x[1] \in AddId /\ Publishing(x[1]) /\ x[2] < used + add[x[1]].count
GivenCounted ==
    /\ IsFiniteSet(given)
    /\ \A a \in AddId : Publishing(a) => Cardinality(given) = used + add[a].count
    /\ (\A a \in AddId : ~Publishing(a)) => Cardinality(given) = used
GivenInv == GivenBelowUsed /\ GivenCounted /\ IndicesUnique

\* An add that may still run is in addThread_ or on its way there.
Reachable(a) == addThread = a \/ \E h \in Handler : Carrying(h) /\ handler[h].add = a
AddsReachable ==
    ~aborted => \A a \in AddId : add[a].pc \notin {"none", "done"} => Reachable(a)

\* The pool is empty before Harness::stop joins the add thread.
PoolDrained ==
    /\ main \in {"drain", "stop", "done"} => ~serving
    /\ main \in {"stop", "done"} => \A h \in Handler : handler[h] = Free
    /\ main \in {"stop", "done"} => ~aborted
JoinInv == AddsReachable /\ PoolDrained /\ AddsJoined
-----------------------------------------------------------------------------
(* The type invariant by groups of variables, and what keeps a group.      *)

AddState == [pc : AddPending \union {"none", "accepted", "tail", "done"},
             count : AddCounts \union {0}, start : 0 .. IndexLimit]
HandlerState == [pc : HandlerPC, add : AddId \union {NoAdd},
                 rung : Rung \union {NoRung}, body : Body]

CountersTyped ==
    /\ used \in 0 .. IndexLimit /\ busy \in BOOLEAN /\ addError \in BOOLEAN
    /\ addThread \in AddId \union {NoAdd} /\ adds \in 0 .. MaxAdds
    /\ given \in SUBSET ((AddId \union {NoAdd}) \X Nat)
AddTyped == add \in [AddId -> AddState]
RungTyped ==
    /\ rungId \in Rung \union {NoRung} /\ window \in WindowId
    /\ opened \in [WindowId -> Rung \union {NoRung}]
EndTyped ==
    /\ atEnd \in BOOLEAN /\ last \in LastRung /\ mine \in LastRung
    /\ file \in [Rung -> Body]
HandlerTyped == handler \in [Handler -> HandlerState]
MainTyped ==
    /\ main \in {"start", "loop", "observe", "amend", "httpStop", "drain", "stop", "done"}
    /\ serving \in BOOLEAN /\ stop \in BOOLEAN /\ shutdown \in BOOLEAN
    /\ aborted \in BOOLEAN

\* The type invariant is the conjunction of its groups, before and after a step.
LEMMA TypeGroups ==
    LET Groups == CountersTyped /\ AddTyped /\ RungTyped /\ EndTyped /\ HandlerTyped /\ MainTyped
    IN  (TypeOK <=> Groups) /\ (TypeOK' <=> Groups')
BY DEF TypeOK, CountersTyped, AddTyped, AddState, RungTyped, EndTyped, HandlerTyped,
   HandlerState, MainTyped

\* A handler that serves nothing is well formed.
LEMMA FreeTyped == Free \in HandlerState /\ NoBody \in Body
BY PlaneAssumption DEF Free, HandlerState, HandlerPC, NoBody, Body, WindowId

\* A handler that answers its request is well formed again.
LEMMA ReturnTyped ==
    ASSUME HandlerTyped, NEW h \in Handler, Return(h)
    PROVE  HandlerTyped'
BY FreeTyped DEF HandlerTyped, Return

\* A handler that goes on to its next critical section stays well formed.
LEMMA GotoTyped ==
    ASSUME HandlerTyped, NEW h \in Handler, NEW pc \in HandlerPC, Goto(h, pc)
    PROVE  HandlerTyped'
BY DEF HandlerTyped, HandlerState, Goto

\* An add that goes on to its next step stays well formed.
LEMMA AdvanceTyped ==
    ASSUME AddTyped, NEW a \in AddId, NEW pc \in AddPending \union {"tail", "done"},
           add' = [add EXCEPT ![a].pc = pc]
    PROVE  AddTyped'
BY DEF AddTyped, AddState

-----------------------------------------------------------------------------
(* One add at a time.                                                      *)

\* Initially nothing is asked for, held or given out.
LEMMA AddInitInv == Init => AddInv
<1> SUFFICES ASSUME Init
             PROVE  AddInv
  OBVIOUS
<1> USE PlaneAssumption
<1>1. TypeOK
  <2>1. CountersTyped
    <3>1. used \in 0 .. IndexLimit /\ adds \in 0 .. MaxAdds
      BY DEF Init
    <3>2. busy \in BOOLEAN /\ addError \in BOOLEAN
      BY DEF Init
    <3>3. addThread \in AddId \union {NoAdd} /\ given \in SUBSET ((AddId \union {NoAdd}) \X Nat)
      BY DEF Init
    <3> QED
      BY <3>1, <3>2, <3>3 DEF CountersTyped
  <2>4. AddTyped
    <3>1. [pc |-> "none", count |-> 0, start |-> 0] \in AddState
      BY DEF AddState
    <3> QED
      BY <3>1 DEF Init, AddTyped
  <2>2. RungTyped
    BY DEF Init, RungTyped, WindowId
  <2>5. EndTyped
    <3>1. [id |-> NoRung, body |-> NoBody] \in LastRung
      BY FreeTyped DEF LastRung
    <3> QED
      BY <3>1, FreeTyped DEF Init, EndTyped
  <2>3. HandlerTyped /\ MainTyped
    BY FreeTyped DEF Init, HandlerTyped, MainTyped
  <2> QED
    BY <2>1, <2>2, <2>3, <2>4, <2>5, TypeGroups
<1>2. WindowRoom
  <2>1. Marking = {}
    BY DEF Init, Marking, Free
  <2> QED
    BY <2>1, FS_EmptySet DEF Init, WindowRoom
<1> QED
  BY <1>1, <1>2 DEF Init, AddInv, BusyIsOneAdd, Holding, AddPending, HeldRange,
     HandlerHoldsAdd, Carrying, Launching, NothingBeforeStart, Free

\* A handler about to mark a window is counted among those that are.
LEMMA MarkingCounts ==
    ASSUME NEW h \in Handler
    PROVE  /\ IsFiniteSet(Marking) /\ Cardinality(Marking) \in Nat
           /\ handler[h].pc = "mark" => Cardinality(Marking) >= 1
<1>1. IsFiniteSet(Marking) /\ Cardinality(Marking) \in Nat
  BY FS_Subset, FS_CardinalityType, PlaneAssumption DEF Marking
<1>2. handler[h].pc = "mark" => Marking # {}
  BY DEF Marking
<1> QED
  BY <1>1, <1>2, FS_EmptySet

\* RequestAdd keeps the types.
LEMMA RequestAddType ==
    ASSUME AddInv, NEW h \in Handler, NEW count \in AddCounts, RequestAdd(h, count)
    PROVE  TypeOK'
<1>0. CountersTyped /\ AddTyped /\ RungTyped /\ EndTyped /\ HandlerTyped /\ MainTyped
  BY TypeGroups DEF AddInv
<1>1. RungTyped' /\ EndTyped' /\ MainTyped'
  BY <1>0 DEF RequestAdd, vars, addVars, rungVars, endVars, mainVars, RungTyped, EndTyped, MainTyped
<1>2. CountersTyped'
  <2>1. adds' \in 0 .. MaxAdds
    BY <1>0, PlaneAssumption DEF RequestAdd, CountersTyped
  <2>2. busy' \in BOOLEAN /\ addError' \in BOOLEAN
    BY DEF RequestAdd
  <2> QED
    BY <1>0, <2>1, <2>2 DEF RequestAdd, CountersTyped
<1>3. AddTyped'
  <2>1. [pc |-> "accepted", count |-> count, start |-> used] \in AddState
    BY <1>0 DEF CountersTyped, AddState
  <2> QED
    BY <1>0, <2>1 DEF RequestAdd, AddTyped
<1>4. HandlerTyped'
  <2>0. adds + 1 \in AddId
    BY <1>0, PlaneAssumption DEF RequestAdd, CountersTyped, AddId
  <2>1. [Free EXCEPT !.pc = "join", !.add = adds + 1] \in HandlerState
    BY <2>0, FreeTyped DEF HandlerState, HandlerPC
  <2> QED
    BY <1>0, <2>1 DEF RequestAdd, HandlerTyped
<1> QED
  BY <1>1, <1>2, <1>3, <1>4, TypeGroups

\* JoinAdd keeps the types.
LEMMA JoinAddType ==
    ASSUME AddInv, NEW h \in Handler, JoinAdd(h)
    PROVE  TypeOK'
<1>0. CountersTyped /\ AddTyped /\ RungTyped /\ EndTyped /\ HandlerTyped /\ MainTyped
  BY TypeGroups DEF AddInv
<1>1. AddTyped' /\ RungTyped' /\ EndTyped' /\ MainTyped'
  BY <1>0 DEF JoinAdd, vars, addVars, rungVars, endVars, mainVars, AddTyped, RungTyped, EndTyped, MainTyped
<1>2. CountersTyped'
  BY <1>0 DEF JoinAdd, CountersTyped
<1>3. HandlerTyped'
  BY <1>0, GotoTyped DEF JoinAdd, HandlerPC
<1> QED
  BY <1>1, <1>2, <1>3, TypeGroups

\* SpawnAdd keeps the types.
LEMMA SpawnAddType ==
    ASSUME AddInv, NEW h \in Handler, SpawnAdd(h)
    PROVE  TypeOK'
<1>0. CountersTyped /\ AddTyped /\ RungTyped /\ EndTyped /\ HandlerTyped /\ MainTyped
  BY TypeGroups DEF AddInv
<1>1. CountersTyped' /\ RungTyped' /\ EndTyped' /\ MainTyped'
  BY <1>0 DEF SpawnAdd, vars, addVars, rungVars, endVars, mainVars, CountersTyped, RungTyped, EndTyped, MainTyped
<1>2. AddTyped'
  BY <1>0, AdvanceTyped DEF SpawnAdd, AddPending, AddInv, HandlerHoldsAdd, Carrying, Launching
<1>3. HandlerTyped'
  BY <1>0, GotoTyped DEF SpawnAdd, HandlerPC
<1> QED
  BY <1>1, <1>2, <1>3, TypeGroups

\* AssignAdd keeps the types.
LEMMA AssignAddType ==
    ASSUME AddInv, NEW h \in Handler, AssignAdd(h)
    PROVE  TypeOK'
<1>0. CountersTyped /\ AddTyped /\ RungTyped /\ EndTyped /\ HandlerTyped /\ MainTyped
  BY TypeGroups DEF AddInv
<1>1. AddTyped' /\ RungTyped' /\ EndTyped'
  BY <1>0 DEF AssignAdd, vars, addVars, rungVars, endVars, mainVars, AddTyped, RungTyped, EndTyped
<1>2. CountersTyped'
  BY <1>0 DEF AssignAdd, CountersTyped, AddInv, HandlerHoldsAdd, Carrying
<1>3. HandlerTyped'
  BY <1>0, ReturnTyped DEF AssignAdd
<1>4. MainTyped'
  BY <1>0 DEF AssignAdd, mainVars, MainTyped
<1> QED
  BY <1>1, <1>2, <1>3, <1>4, TypeGroups

\* MarkWindow keeps the types.
LEMMA MarkWindowType ==
    ASSUME AddInv, NEW h \in Handler, MarkWindow(h)
    PROVE  TypeOK'
<1>0. CountersTyped /\ AddTyped /\ RungTyped /\ EndTyped /\ HandlerTyped /\ MainTyped
  BY TypeGroups DEF AddInv
<1>1. CountersTyped' /\ AddTyped' /\ EndTyped' /\ MainTyped'
  BY <1>0 DEF MarkWindow, vars, addVars, rungVars, endVars, mainVars, CountersTyped, AddTyped, EndTyped, MainTyped
<1>2. RungTyped'
  <2>1. window + 1 \in WindowId
    BY <1>0, MarkingCounts, PlaneAssumption DEF MarkWindow, RungTyped, WindowId, AddInv, WindowRoom
  <2>2. handler[h].rung \in Rung \union {NoRung}
    BY <1>0 DEF HandlerTyped, HandlerState
  <2> QED
    BY <1>0, <2>1, <2>2 DEF MarkWindow, RungTyped
<1>3. HandlerTyped'
  BY <1>0, ReturnTyped DEF MarkWindow
<1> QED
  BY <1>1, <1>2, <1>3, TypeGroups

\* ReadRungId keeps the types.
LEMMA ReadRungIdType ==
    ASSUME AddInv, NEW h \in Handler, ReadRungId(h)
    PROVE  TypeOK'
<1>0. CountersTyped /\ AddTyped /\ RungTyped /\ EndTyped /\ HandlerTyped /\ MainTyped
  BY TypeGroups DEF AddInv
<1>1. CountersTyped' /\ AddTyped' /\ RungTyped' /\ EndTyped' /\ MainTyped'
  BY <1>0 DEF ReadRungId, vars, addVars, rungVars, endVars, mainVars, CountersTyped, AddTyped, RungTyped, EndTyped, MainTyped
<1>2. HandlerTyped'
  BY <1>0 DEF ReadRungId, HandlerTyped, HandlerState, HandlerPC, RungTyped
<1> QED
  BY <1>1, <1>2, TypeGroups

\* LoadWindow keeps the types.
LEMMA LoadWindowType ==
    ASSUME AddInv, NEW h \in Handler, LoadWindow(h)
    PROVE  TypeOK'
<1>0. CountersTyped /\ AddTyped /\ RungTyped /\ EndTyped /\ HandlerTyped /\ MainTyped
  BY TypeGroups DEF AddInv
<1>1. CountersTyped' /\ AddTyped' /\ RungTyped' /\ EndTyped' /\ MainTyped'
  BY <1>0 DEF LoadWindow, vars, addVars, rungVars, endVars, mainVars, CountersTyped, AddTyped, RungTyped, EndTyped, MainTyped
<1>2. HandlerTyped'
  <2>1. CASE handler[h].rung = NoRung
    BY <1>0, <2>1, ReturnTyped DEF LoadWindow
  <2>2. CASE handler[h].rung # NoRung
    <3>1. [handler[h] EXCEPT !.pc = "write", !.body.window = window] \in HandlerState
      BY <1>0 DEF HandlerTyped, HandlerState, HandlerPC, RungTyped, Body
    <3> QED
      BY <1>0, <2>2, <3>1 DEF LoadWindow, HandlerTyped
  <2> QED
    BY <2>1, <2>2
<1> QED
  BY <1>1, <1>2, TypeGroups

\* WriteRung keeps the types.
LEMMA WriteRungType ==
    ASSUME AddInv, NEW h \in Handler, WriteRung(h)
    PROVE  TypeOK'
<1>0. CountersTyped /\ AddTyped /\ RungTyped /\ EndTyped /\ HandlerTyped /\ MainTyped
  BY TypeGroups DEF AddInv
<1>1. CountersTyped' /\ AddTyped' /\ RungTyped' /\ MainTyped'
  BY <1>0 DEF WriteRung, vars, addVars, rungVars, endVars, mainVars, CountersTyped, AddTyped, RungTyped, MainTyped
<1>2. EndTyped'
  <2>1. handler[h].body \in Body
    BY <1>0 DEF HandlerTyped, HandlerState
  <2> QED
    BY <1>0, <2>1 DEF WriteRung, EndTyped, mainVars
<1>3. HandlerTyped'
  BY <1>0, GotoTyped DEF WriteRung, HandlerPC
<1> QED
  BY <1>1, <1>2, <1>3, TypeGroups

\* KeepRung keeps the types.
LEMMA KeepRungType ==
    ASSUME AddInv, NEW h \in Handler, KeepRung(h)
    PROVE  TypeOK'
<1>0. CountersTyped /\ AddTyped /\ RungTyped /\ EndTyped /\ HandlerTyped /\ MainTyped
  BY TypeGroups DEF AddInv
<1>1. CountersTyped' /\ AddTyped' /\ RungTyped' /\ MainTyped'
  BY <1>0 DEF KeepRung, vars, addVars, rungVars, endVars, mainVars, CountersTyped, AddTyped, RungTyped, MainTyped
<1>2. EndTyped'
  <2>1. [id |-> handler[h].rung, body |-> handler[h].body] \in LastRung
    BY <1>0 DEF HandlerTyped, HandlerState, LastRung
  <2> QED
    BY <1>0, <2>1 DEF KeepRung, EndTyped, mainVars
<1>3. HandlerTyped'
  BY <1>0, ReturnTyped DEF KeepRung
<1> QED
  BY <1>1, <1>2, <1>3, TypeGroups

\* OpenRung keeps the types.
LEMMA OpenRungType ==
    ASSUME AddInv, NEW h \in Handler, NEW r \in Rung, OpenRung(h, r)
    PROVE  TypeOK'
<1>0. CountersTyped /\ AddTyped /\ RungTyped /\ EndTyped /\ HandlerTyped /\ MainTyped
  BY TypeGroups DEF AddInv
<1>1. CountersTyped' /\ AddTyped' /\ RungTyped' /\ EndTyped' /\ MainTyped'
  BY <1>0 DEF OpenRung, vars, addVars, rungVars, endVars, mainVars, CountersTyped, AddTyped, RungTyped, EndTyped, MainTyped
<1>2. HandlerTyped'
  BY <1>0, FreeTyped DEF OpenRung, HandlerTyped, HandlerState, HandlerPC
<1> QED
  BY <1>1, <1>2, TypeGroups

\* CloseRung keeps the types.
LEMMA CloseRungType ==
    ASSUME AddInv, NEW h \in Handler, CloseRung(h)
    PROVE  TypeOK'
<1>0. CountersTyped /\ AddTyped /\ RungTyped /\ EndTyped /\ HandlerTyped /\ MainTyped
  BY TypeGroups DEF AddInv
<1>1. CountersTyped' /\ AddTyped' /\ RungTyped' /\ EndTyped' /\ MainTyped'
  BY <1>0 DEF CloseRung, vars, addVars, rungVars, endVars, mainVars, CountersTyped, AddTyped, RungTyped, EndTyped, MainTyped
<1>2. HandlerTyped'
  <2>1. [Free EXCEPT !.pc = "rungId", !.body.atEnd = atEnd] \in HandlerState
    BY <1>0, FreeTyped DEF HandlerState, HandlerPC, EndTyped, Body
  <2> QED
    BY <1>0, <2>1 DEF CloseRung, HandlerTyped
<1> QED
  BY <1>1, <1>2, TypeGroups

\* ProvisionAdd keeps the types.
LEMMA ProvisionAddType ==
    ASSUME AddInv, NEW a \in AddId, NEW ok \in BOOLEAN, ProvisionAdd(a, ok)
    PROVE  TypeOK'
<1>0. CountersTyped /\ AddTyped /\ RungTyped /\ EndTyped /\ HandlerTyped /\ MainTyped
  BY TypeGroups DEF AddInv
<1>1. CountersTyped' /\ RungTyped' /\ EndTyped' /\ HandlerTyped' /\ MainTyped'
  BY <1>0 DEF ProvisionAdd, vars, addVars, rungVars, endVars, mainVars, CountersTyped, RungTyped, EndTyped, HandlerTyped, MainTyped
<1>2. AddTyped'
  BY <1>0, AdvanceTyped DEF ProvisionAdd, AddPending
<1> QED
  BY <1>1, <1>2, TypeGroups

\* FailAdd keeps the types.
LEMMA FailAddType ==
    ASSUME AddInv, NEW a \in AddId, FailAdd(a)
    PROVE  TypeOK'
<1>0. CountersTyped /\ AddTyped /\ RungTyped /\ EndTyped /\ HandlerTyped /\ MainTyped
  BY TypeGroups DEF AddInv
<1>1. RungTyped' /\ EndTyped' /\ HandlerTyped' /\ MainTyped'
  BY <1>0 DEF FailAdd, vars, addVars, rungVars, endVars, mainVars, RungTyped, EndTyped, HandlerTyped, MainTyped
<1>2. CountersTyped'
  BY <1>0 DEF FailAdd, CountersTyped
<1>3. AddTyped'
  BY <1>0, AdvanceTyped DEF FailAdd, AddPending
<1> QED
  BY <1>1, <1>2, <1>3, TypeGroups

\* DistributeAdd keeps the types.
LEMMA DistributeAddType ==
    ASSUME AddInv, NEW a \in AddId, DistributeAdd(a)
    PROVE  TypeOK'
<1>0. CountersTyped /\ AddTyped /\ RungTyped /\ EndTyped /\ HandlerTyped /\ MainTyped
  BY TypeGroups DEF AddInv
<1>1. RungTyped' /\ EndTyped' /\ HandlerTyped' /\ MainTyped'
  BY <1>0 DEF DistributeAdd, vars, addVars, rungVars, endVars, mainVars, RungTyped, EndTyped, HandlerTyped, MainTyped
<1>2. CountersTyped'
  <2>1. Indices(a) \subseteq Nat
    BY <1>0, PlaneAssumption DEF AddTyped, AddState, Indices
  <2>2. given' \in SUBSET ((AddId \union {NoAdd}) \X Nat)
    BY <1>0, <2>1 DEF DistributeAdd, CountersTyped
  <2> QED
    BY <1>0, <2>2 DEF DistributeAdd, CountersTyped
<1>3. AddTyped'
  BY <1>0, AdvanceTyped DEF DistributeAdd, AddPending
<1> QED
  BY <1>1, <1>2, <1>3, TypeGroups

\* PublishAdd keeps the types.
LEMMA PublishAddType ==
    ASSUME AddInv, NEW a \in AddId, PublishAdd(a)
    PROVE  TypeOK'
<1>0. CountersTyped /\ AddTyped /\ RungTyped /\ EndTyped /\ HandlerTyped /\ MainTyped
  BY TypeGroups DEF AddInv
<1>1. RungTyped' /\ EndTyped' /\ HandlerTyped' /\ MainTyped'
  BY <1>0 DEF PublishAdd, vars, addVars, rungVars, endVars, mainVars, RungTyped, EndTyped, HandlerTyped, MainTyped
<1>2. CountersTyped'
  <2>1. used' \in 0 .. IndexLimit
    BY <1>0, PlaneAssumption DEF PublishAdd, UsedAfter, CountersTyped, AddInv, HeldRange, Holding, AddPending
  <2>2. busy' \in BOOLEAN /\ addError' \in BOOLEAN
    BY DEF PublishAdd
  <2> QED
    BY <1>0, <2>1, <2>2 DEF PublishAdd, CountersTyped
<1>3. AddTyped'
  BY <1>0, AdvanceTyped DEF PublishAdd, AddPending
<1> QED
  BY <1>1, <1>2, <1>3, TypeGroups

\* FinishAdd keeps the types.
LEMMA FinishAddType ==
    ASSUME AddInv, NEW a \in AddId, FinishAdd(a)
    PROVE  TypeOK'
<1>0. CountersTyped /\ AddTyped /\ RungTyped /\ EndTyped /\ HandlerTyped /\ MainTyped
  BY TypeGroups DEF AddInv
<1>1. CountersTyped' /\ RungTyped' /\ EndTyped' /\ HandlerTyped' /\ MainTyped'
  BY <1>0 DEF FinishAdd, vars, addVars, rungVars, endVars, mainVars, CountersTyped, RungTyped, EndTyped, HandlerTyped, MainTyped
<1>2. AddTyped'
  BY <1>0, AdvanceTyped DEF FinishAdd, AddPending
<1> QED
  BY <1>1, <1>2, TypeGroups

\* Start keeps the types.
LEMMA StartType ==
    ASSUME AddInv, NEW ok \in BOOLEAN, Start(ok)
    PROVE  TypeOK'
<1>0. CountersTyped /\ AddTyped /\ RungTyped /\ EndTyped /\ HandlerTyped /\ MainTyped
  BY TypeGroups DEF AddInv
<1>1. AddTyped' /\ RungTyped' /\ EndTyped' /\ HandlerTyped'
  BY <1>0 DEF Start, vars, addVars, rungVars, endVars, mainVars, AddTyped, RungTyped, EndTyped, HandlerTyped
<1>2. CountersTyped'
  BY <1>0, PlaneAssumption DEF Start, CountersTyped
<1>3. MainTyped'
  BY <1>0 DEF Start, MainTyped
<1> QED
  BY <1>1, <1>2, <1>3, TypeGroups

\* AmendRung keeps the types.
LEMMA AmendRungType ==
    ASSUME AddInv, AmendRung
    PROVE  TypeOK'
<1>0. CountersTyped /\ AddTyped /\ RungTyped /\ EndTyped /\ HandlerTyped /\ MainTyped
  BY TypeGroups DEF AddInv
<1>1. CountersTyped' /\ AddTyped' /\ RungTyped' /\ HandlerTyped'
  BY <1>0 DEF AmendRung, vars, addVars, rungVars, endVars, mainVars, CountersTyped, AddTyped, RungTyped, HandlerTyped
<1>2. EndTyped'
  <2>1. mine.id # NoRung => mine.id \in Rung /\ [mine.body EXCEPT !.atEnd = TRUE] \in Body
    BY <1>0 DEF EndTyped, LastRung, Body
  <2> QED
    BY <1>0, <2>1 DEF AmendRung, EndTyped
<1>3. MainTyped'
  BY <1>0 DEF AmendRung, MainTyped
<1> QED
  BY <1>1, <1>2, <1>3, TypeGroups

\* ObserveEnd keeps the types.
LEMMA ObserveEndType ==
    ASSUME AddInv, ObserveEnd
    PROVE  TypeOK'
<1>0. CountersTyped /\ AddTyped /\ RungTyped /\ EndTyped /\ HandlerTyped /\ MainTyped
  BY TypeGroups DEF AddInv
<1>1. CountersTyped' /\ AddTyped' /\ RungTyped' /\ HandlerTyped'
  BY <1>0 DEF ObserveEnd, vars, addVars, rungVars, endVars, mainVars, CountersTyped, AddTyped, RungTyped, HandlerTyped
<1>2. EndTyped'
  BY <1>0 DEF ObserveEnd, EndTyped
<1>3. MainTyped'
  BY <1>0 DEF ObserveEnd, MainTyped
<1> QED
  BY <1>1, <1>2, <1>3, TypeGroups

\* StopHarness keeps the types.
LEMMA StopHarnessType ==
    ASSUME AddInv, StopHarness
    PROVE  TypeOK'
<1>0. CountersTyped /\ AddTyped /\ RungTyped /\ EndTyped /\ HandlerTyped /\ MainTyped
  BY TypeGroups DEF AddInv
<1>1. AddTyped' /\ RungTyped' /\ EndTyped' /\ HandlerTyped'
  BY <1>0 DEF StopHarness, vars, addVars, rungVars, endVars, mainVars, AddTyped, RungTyped, EndTyped, HandlerTyped
<1>2. CountersTyped'
  BY <1>0 DEF StopHarness, CountersTyped
<1>3. MainTyped'
  BY <1>0 DEF StopHarness, MainTyped
<1> QED
  BY <1>1, <1>2, <1>3, TypeGroups

\* The steps of requests about rungs: they leave the adds alone.
RungStep(h) ==
    \/ MarkWindow(h) \/ ReadRungId(h) \/ LoadWindow(h) \/ WriteRung(h) \/ KeepRung(h)
    \/ CloseRung(h) \/ \E r \in Rung : OpenRung(h, r)

\* The steps of the main thread and of a shutdown that leave them alone too.
QuietStep ==
    \/ Signal \/ EndLoop \/ ObserveEnd \/ AmendRung \/ StopServer \/ DrainServer \/ Over
    \/ \E h \in Handler : RequestShutdown(h)

\* The steps, grouped by what they may change.
LEMMA NextCases ==
    ASSUME [Next]_vars
    PROVE  \/ \E h \in Handler, count \in AddCounts : RequestAdd(h, count)
           \/ \E h \in Handler : JoinAdd(h) \/ SpawnAdd(h) \/ AssignAdd(h) \/ RungStep(h)
           \/ \E a \in AddId, ok \in BOOLEAN : ProvisionAdd(a, ok)
           \/ \E a \in AddId : FailAdd(a) \/ DistributeAdd(a) \/ PublishAdd(a) \/ FinishAdd(a)
           \/ \E ok \in BOOLEAN : Start(ok)
           \/ QuietStep \/ StopHarness \/ UNCHANGED vars
BY DEF Next, NewRequest, HandlerStep, AddStep, MainStep, RungStep, QuietStep

\* A rung's step touches no add and no other handler.
LEMMA RungFrame ==
    ASSUME HandlerTyped, NEW h \in Handler, RungStep(h)
    PROVE  /\ UNCHANGED <<addVars, mainVars, aborted>>
           /\ ~Carrying(h) /\ ~Carrying(h)'
           /\ handler' = [handler EXCEPT ![h] = handler'[h]]
           /\ serving \/ handler[h] # Free
<1> DEFINE Frame == /\ UNCHANGED <<addVars, mainVars, aborted>>
                    /\ ~Carrying(h) /\ ~Carrying(h)'
                    /\ handler' = [handler EXCEPT ![h] = handler'[h]]
                    /\ serving \/ handler[h] # Free
<1> USE DEF HandlerTyped, Carrying, Launching, Free
<1>1. MarkWindow(h) => Frame
  BY DEF MarkWindow, Return
<1>2. ReadRungId(h) => Frame
  <2> SUFFICES ASSUME ReadRungId(h)
               PROVE  Frame
    OBVIOUS
  <2>1. handler' = [handler EXCEPT ![h] = [handler[h] EXCEPT !.pc = "window", !.rung = rungId]]
    BY DEF ReadRungId
  <2>2. handler'[h].pc = "window"
    BY <2>1 DEF HandlerState
  <2>3. handler' = [handler EXCEPT ![h] = handler'[h]]
    BY <2>1
  <2>4. handler[h].pc = "rungId" /\ UNCHANGED <<addVars, mainVars, aborted>>
    BY DEF ReadRungId
  <2> QED
    BY <2>2, <2>3, <2>4
<1>3. LoadWindow(h) => Frame
  <2> SUFFICES ASSUME LoadWindow(h)
               PROVE  Frame
    OBVIOUS
  <2>1. CASE handler[h].rung = NoRung
    BY <2>1 DEF LoadWindow, Return
  <2>2. CASE handler[h].rung # NoRung
    <3>1. handler' = [handler EXCEPT ![h] =
                         [handler[h] EXCEPT !.pc = "write", !.body.window = window]]
      BY <2>2 DEF LoadWindow
    <3>2. handler'[h].pc = "write"
      BY <3>1 DEF HandlerState
    <3> QED
      BY <3>1, <3>2 DEF LoadWindow
  <2> QED
    BY <2>1, <2>2
<1>4. WriteRung(h) => Frame
  BY DEF WriteRung, Goto
<1>5. KeepRung(h) => Frame
  BY DEF KeepRung, Return
<1>6. CloseRung(h) => Frame
  BY DEF CloseRung
<1>7. ASSUME NEW r \in Rung
      PROVE  OpenRung(h, r) => Frame
  BY DEF OpenRung
<1> QED
  BY <1>1, <1>2, <1>3, <1>4, <1>5, <1>6, <1>7 DEF RungStep

\* Signals and the main loop touch neither adds nor rungs nor handlers.
LEMMA QuietFrame ==
    ASSUME QuietStep \/ UNCHANGED vars
    PROVE  UNCHANGED <<addVars, rungVars, handler, aborted>> /\ (main' = "start" => UNCHANGED <<main, serving>>)
BY DEF QuietStep, Signal, EndLoop, ObserveEnd, AmendRung, StopServer, DrainServer, Over,
   RequestShutdown, vars, mainVars

\* Every step keeps the types.
LEMMA TypeStep ==
    ASSUME AddInv, [Next]_vars
    PROVE  TypeOK'
<1>1. ASSUME NEW h \in Handler, RungStep(h)
      PROVE  TypeOK'
  BY <1>1, MarkWindowType, ReadRungIdType, LoadWindowType, WriteRungType, KeepRungType,
     CloseRungType, OpenRungType DEF RungStep
<1>2. CASE QuietStep \/ UNCHANGED vars
  <2>1. CASE ObserveEnd \/ AmendRung
    BY <2>1, ObserveEndType, AmendRungType
  <2>2. CASE Signal \/ EndLoop \/ StopServer \/ DrainServer \/ Over
               \/ (\E h \in Handler : RequestShutdown(h)) \/ UNCHANGED vars
    <3>1. UNCHANGED <<addVars, rungVars, endVars, mine, handler, aborted>>
      BY <2>2 DEF Signal, EndLoop, StopServer, DrainServer, Over, RequestShutdown, vars, mainVars
    <3>2. MainTyped'
      BY <2>2, TypeGroups DEF AddInv, Signal, EndLoop, StopServer, DrainServer, Over,
         RequestShutdown, vars, mainVars, MainTyped
    <3> QED
      BY <3>1, <3>2, TypeGroups DEF AddInv, addVars, rungVars, endVars, CountersTyped, AddTyped,
         RungTyped, EndTyped, HandlerTyped
  <2> QED
    BY <1>2, <2>1, <2>2 DEF QuietStep
<1> QED
  BY <1>1, <1>2, NextCases, RequestAddType, JoinAddType, SpawnAddType, AssignAddType,
     ProvisionAddType, FailAddType, DistributeAddType, PublishAddType, FinishAddType, StartType,
     StopHarnessType

\* Every step leaves room for the windows that are about to be marked.
LEMMA WindowRoomStep ==
    ASSUME AddInv, [Next]_vars
    PROVE  WindowRoom'
<1>0. CountersTyped /\ AddTyped /\ RungTyped /\ HandlerTyped
  BY TypeGroups DEF AddInv
<1>1. IsFiniteSet(Marking) /\ Cardinality(Marking) \in Nat /\ WindowRoom /\ window \in Nat /\ MaxWindows \in Nat
  BY <1>0, FS_Subset, FS_CardinalityType, PlaneAssumption DEF Marking, AddInv, RungTyped, WindowId
<1>2. ASSUME NEW h \in Handler, NEW r \in Rung, OpenRung(h, r)
      PROVE  WindowRoom'
  <2>1. Marking' = Marking \union {h} /\ h \notin Marking
    BY <1>0, <1>2 DEF OpenRung, Marking, HandlerTyped, Free
  <2>2. Cardinality(Marking)' = Cardinality(Marking) + 1
    BY <1>1, <2>1, FS_AddElement
  <2> QED
    BY <1>1, <1>2, <2>2 DEF WindowRoom, OpenRung, Marking, rungVars
<1>3. ASSUME NEW h \in Handler, MarkWindow(h)
      PROVE  WindowRoom'
  <2>1. Marking' = Marking \ {h} /\ h \in Marking
    BY <1>0, <1>3 DEF MarkWindow, Return, Marking, HandlerTyped, Free
  <2>2. Cardinality(Marking)' = Cardinality(Marking) - 1
    BY <1>1, <2>1, FS_RemoveElement
  <2> QED
    BY <1>1, <1>3, <2>2 DEF WindowRoom, MarkWindow
<1>4. ASSUME UNCHANGED window, Marking' \subseteq Marking
      PROVE  WindowRoom'
  <2>1. IsFiniteSet(Marking') /\ Cardinality(Marking') <= Cardinality(Marking) /\ Cardinality(Marking') \in Nat
    BY <1>1, <1>4, FS_Subset, FS_CardinalityType
  <2> QED
    BY <1>1, <1>4, <2>1 DEF WindowRoom
<1>5. ASSUME NEW h \in Handler, RungStep(h), ~MarkWindow(h), \A r \in Rung : ~OpenRung(h, r)
      PROVE  UNCHANGED window /\ Marking' \subseteq Marking
  <2>1. UNCHANGED window /\ handler' = [handler EXCEPT ![h] = handler'[h]]
    BY <1>0, <1>5, RungFrame DEF RungStep, ReadRungId, LoadWindow, WriteRung, KeepRung, CloseRung, rungVars
  <2>2. handler'[h].pc # "mark"
    <3>1. ReadRungId(h) \/ WriteRung(h) \/ CloseRung(h) => handler'[h].pc \in {"window", "keep", "rungId"}
      BY <1>0 DEF ReadRungId, WriteRung, CloseRung, Goto, Free, HandlerTyped, HandlerState
    <3>2. KeepRung(h) => handler'[h].pc = "idle"
      BY <1>0 DEF KeepRung, Return, Free, HandlerTyped
    <3>3. LoadWindow(h) => handler'[h].pc \in {"idle", "write"}
      BY <1>0 DEF LoadWindow, Return, Free, HandlerTyped, HandlerState
    <3> QED
      BY <1>5, <3>1, <3>2, <3>3 DEF RungStep
  <2> QED
    BY <1>0, <2>1, <2>2 DEF Marking, HandlerTyped
<1>6. ASSUME NEW h \in Handler, NEW count \in AddCounts, RequestAdd(h, count)
      PROVE  UNCHANGED window /\ Marking' \subseteq Marking
  BY <1>0, <1>6 DEF RequestAdd, Marking, HandlerTyped, Free, rungVars
<1>7. ASSUME NEW h \in Handler, JoinAdd(h) \/ SpawnAdd(h) \/ AssignAdd(h)
      PROVE  UNCHANGED window /\ Marking' \subseteq Marking
  <2>1. CASE JoinAdd(h)
    BY <1>0, <2>1 DEF JoinAdd, Goto, Marking, HandlerTyped, rungVars
  <2>2. CASE SpawnAdd(h)
    BY <1>0, <2>2 DEF SpawnAdd, Goto, Marking, HandlerTyped, rungVars
  <2>3. CASE AssignAdd(h)
    BY <1>0, <2>3 DEF AssignAdd, Return, Marking, HandlerTyped, Free, rungVars
  <2> QED
    BY <1>7, <2>1, <2>2, <2>3
<1>8. ASSUME UNCHANGED handler
      PROVE  Marking' = Marking
  BY <1>8 DEF Marking
<1>9. CASE QuietStep \/ UNCHANGED vars \/ StopHarness \/ \E ok \in BOOLEAN : Start(ok)
  <2>1. UNCHANGED <<window, handler>>
    BY <1>9, QuietFrame DEF StopHarness, Start, rungVars
  <2> QED
    BY <2>1, <1>8, <1>4
<1>10. CASE \E a \in AddId : AddStep(a)
  <2>1. UNCHANGED <<window, handler>>
    BY <1>10 DEF AddStep, ProvisionAdd, FailAdd, DistributeAdd, PublishAdd, FinishAdd, rungVars
  <2> QED
    BY <2>1, <1>8, <1>4
<1> QED
  <2>1. CASE \E h \in Handler : RungStep(h)
    BY <2>1, <1>2, <1>3, <1>4, <1>5
  <2>2. CASE \E h \in Handler : JoinAdd(h) \/ SpawnAdd(h) \/ AssignAdd(h)
                                   \/ \E count \in AddCounts : RequestAdd(h, count)
    BY <2>2, <1>4, <1>6, <1>7
  <2> QED
    BY <2>1, <2>2, <1>9, <1>10, NextCases DEF AddStep

\* The parts of AddInv besides the types and the windows.
Ticket == BusyIsOneAdd /\ HeldRange /\ HandlerHoldsAdd /\ NothingBeforeStart

\* The ticket depends on adds, handlers and the start alone.
LEMMA TicketKept ==
    ASSUME Ticket, UNCHANGED <<used, busy, add, given, aborted, handler>>,
           main' = "start" => UNCHANGED <<main, serving>>
    PROVE  Ticket'
BY DEF Ticket, BusyIsOneAdd, HeldRange, HandlerHoldsAdd, NothingBeforeStart, Holding, Carrying, Launching

\* A rung's step keeps the ticket.
LEMMA RungStepTicket ==
    ASSUME AddInv, Ticket, NEW h \in Handler, RungStep(h)
    PROVE  Ticket'
<1>0. HandlerTyped
  BY TypeGroups DEF AddInv
<1>1. /\ UNCHANGED <<used, busy, add, given, aborted, main, serving>> /\ ~Carrying(h) /\ ~Carrying(h)'
      /\ serving \/ handler[h] # Free
  BY <1>0, RungFrame DEF addVars, mainVars
<1>2. \A g \in Handler : g # h => handler'[g] = handler[g]
  BY <1>0, RungFrame DEF HandlerTyped
<1>3. BusyIsOneAdd' /\ HeldRange'
  BY <1>1 DEF Ticket, BusyIsOneAdd, HeldRange, Holding
<1>4. HandlerHoldsAdd'
  BY <1>1, <1>2 DEF Ticket, HandlerHoldsAdd, Carrying, Launching
<1>5. NothingBeforeStart'
  BY <1>1 DEF Ticket, NothingBeforeStart
<1> QED
  BY <1>3, <1>4, <1>5 DEF Ticket

\* requestAdd takes the ticket only when nobody has it.
LEMMA RequestAddTicket ==
    ASSUME AddInv, Ticket, NEW h \in Handler, NEW count \in AddCounts, RequestAdd(h, count)
    PROVE  Ticket'
<1>0. HandlerTyped /\ AddTyped /\ CountersTyped
  BY TypeGroups DEF AddInv
<1>1. adds + 1 \in AddId
  BY <1>0, PlaneAssumption DEF RequestAdd, CountersTyped, AddId
<1>2. /\ \A b \in AddId : b # adds + 1 => add'[b] = add[b]
      /\ add'[adds + 1] = [pc |-> "accepted", count |-> count, start |-> used]
  BY <1>0, <1>1 DEF RequestAdd, AddTyped
<1>3. \A b \in AddId : ~Holding(b)
  BY DEF Ticket, BusyIsOneAdd, RequestAdd, MayAdd
<1>4. \A b \in AddId : Holding(b)' <=> b = adds + 1
  BY <1>2, <1>3 DEF Holding
<1>5. BusyIsOneAdd'
  BY <1>1, <1>4 DEF RequestAdd, BusyIsOneAdd
<1>6. HeldRange'
  BY <1>2, <1>4 DEF RequestAdd, MayAdd, HeldRange
<1>7. /\ \A g \in Handler : g # h => handler'[g] = handler[g] /\ ~Launching(g)
      /\ handler'[h].pc = "join" /\ handler'[h].add = adds + 1
  <2>1. \A g \in Handler : ~Launching(g)
    BY <1>3 DEF Ticket, HandlerHoldsAdd, Carrying, Holding
  <2> QED
    BY <1>0, <2>1 DEF RequestAdd, HandlerTyped, Free
<1>8. HandlerHoldsAdd'
  BY <1>1, <1>2, <1>7 DEF Ticket, HandlerHoldsAdd, Carrying, Launching
<1>9. NothingBeforeStart'
  BY DEF Ticket, NothingBeforeStart, RequestAdd, mainVars
<1> QED
  BY <1>5, <1>6, <1>8, <1>9 DEF Ticket

\* Joining the former add thread leaves the ticket with its handler.
LEMMA JoinAddTicket ==
    ASSUME AddInv, Ticket, NEW h \in Handler, JoinAdd(h)
    PROVE  Ticket'
<1>0. HandlerTyped
  BY TypeGroups DEF AddInv
<1>1. BusyIsOneAdd' /\ HeldRange'
  BY DEF JoinAdd, Ticket, BusyIsOneAdd, HeldRange, Holding
<1>2. /\ \A g \in Handler : g # h => handler'[g] = handler[g]
      /\ handler'[h].pc = "spawn" /\ handler'[h].add = handler[h].add /\ handler[h].pc = "join"
  BY <1>0 DEF JoinAdd, Goto, HandlerTyped, HandlerState
<1>3. HandlerHoldsAdd'
  BY <1>2 DEF JoinAdd, Ticket, HandlerHoldsAdd, Carrying, Launching
<1>4. NothingBeforeStart'
  BY DEF JoinAdd, Ticket, NothingBeforeStart, mainVars, Free
<1> QED
  BY <1>1, <1>3, <1>4 DEF Ticket

\* The new thread takes the ticket over from the handler that spawned it.
LEMMA SpawnAddTicket ==
    ASSUME AddInv, Ticket, NEW h \in Handler, SpawnAdd(h)
    PROVE  Ticket'
<1>0. HandlerTyped /\ AddTyped
  BY TypeGroups DEF AddInv
<1> DEFINE a == handler[h].add
<1>1. a \in AddId /\ add[a].pc = "accepted"
  BY DEF SpawnAdd, Ticket, HandlerHoldsAdd, Carrying, Launching
<1>2. /\ \A b \in AddId : b # a => add'[b] = add[b]
      /\ add'[a].pc = "provision" /\ add'[a].count = add[a].count /\ add'[a].start = add[a].start
  BY <1>0, <1>1 DEF SpawnAdd, AddTyped, AddState
<1>3. \A b \in AddId : Holding(b)' <=> Holding(b)
  BY <1>1, <1>2 DEF Holding, AddPending
<1> HIDE DEF a
<1>4. BusyIsOneAdd' /\ HeldRange'
  BY <1>1, <1>2, <1>3 DEF SpawnAdd, Ticket, BusyIsOneAdd, HeldRange
<1>5. /\ \A g \in Handler : g # h => handler'[g] = handler[g] /\ ~Launching(g)
      /\ handler'[h].pc = "assign" /\ handler'[h].add = a
  <2>1. Launching(h)
    BY DEF SpawnAdd, Launching
  <2> QED
    BY <1>0, <2>1 DEF SpawnAdd, Goto, HandlerTyped, HandlerState, Ticket, HandlerHoldsAdd, a
<1>6. HandlerHoldsAdd'
  BY <1>1, <1>5 DEF Ticket, HandlerHoldsAdd, Carrying, Launching
<1>7. NothingBeforeStart'
  BY DEF SpawnAdd, Ticket, NothingBeforeStart, mainVars, Free
<1> QED
  BY <1>4, <1>6, <1>7 DEF Ticket

\* Storing the thread leaves the ticket with the add.
LEMMA AssignAddTicket ==
    ASSUME AddInv, Ticket, NEW h \in Handler, AssignAdd(h)
    PROVE  Ticket'
<1>0. HandlerTyped
  BY TypeGroups DEF AddInv
<1>1. BusyIsOneAdd' /\ HeldRange'
  BY DEF AssignAdd, Ticket, BusyIsOneAdd, HeldRange, Holding
<1>2. (\A g \in Handler : g # h => handler'[g] = handler[g]) /\ handler'[h].pc = "idle"
  BY <1>0 DEF AssignAdd, Return, HandlerTyped, Free
<1>3. HandlerHoldsAdd'
  BY <1>2 DEF AssignAdd, Ticket, HandlerHoldsAdd, Carrying, Launching
<1>4. NothingBeforeStart'
  BY DEF AssignAdd, Ticket, NothingBeforeStart, mainVars, Free
<1> QED
  BY <1>1, <1>3, <1>4 DEF Ticket

\* A step of an add thread moves its own pc and nothing of the handlers.
AddMoves(a, pc) ==
    /\ \A b \in AddId : b # a => add'[b] = add[b]
    /\ add'[a].pc = pc /\ add'[a].count = add[a].count /\ add'[a].start = add[a].start

\* An add that moves changes its program counter alone.
LEMMA AddMoved ==
    ASSUME AddTyped, NEW a \in AddId, NEW pc, add' = [add EXCEPT ![a].pc = pc]
    PROVE  AddMoves(a, pc)
BY DEF AddTyped, AddState, AddMoves

\* An add gives the ticket back when it ends, and only then.
LEMMA AddStepTicket ==
    ASSUME AddInv, Ticket, NEW a \in AddId, AddStep(a)
    PROVE  Ticket'
<1>0. AddTyped /\ CountersTyped
  BY TypeGroups DEF AddInv
<1>1. UNCHANGED <<handler, main, serving, aborted>> /\ add[a].pc \notin {"none", "accepted"}
  BY DEF AddStep, ProvisionAdd, FailAdd, DistributeAdd, PublishAdd, FinishAdd, mainVars
<1>2. NothingBeforeStart'
  BY <1>1 DEF Ticket, NothingBeforeStart
<1>3. \A b \in AddId : b # a => add'[b] = add[b]
  BY <1>0 DEF AddStep, ProvisionAdd, FailAdd, DistributeAdd, PublishAdd, FinishAdd, AddTyped
<1>4. HandlerHoldsAdd'
  BY <1>1, <1>3 DEF Ticket, HandlerHoldsAdd, Carrying, Launching
<1>5. ASSUME NEW ok \in BOOLEAN, ProvisionAdd(a, ok) \/ DistributeAdd(a)
      PROVE  BusyIsOneAdd' /\ HeldRange'
  <2>1. PICK pc \in {"distribute", "fail", "publish"} : AddMoves(a, pc)
    BY <1>0, <1>5, AddMoved DEF ProvisionAdd, DistributeAdd
  <2>2. UNCHANGED <<used, busy>> /\ Holding(a)
    BY <1>5 DEF ProvisionAdd, DistributeAdd, Holding, AddPending
  <2>3. \A b \in AddId : Holding(b)' <=> Holding(b)
    BY <2>1, <2>2 DEF AddMoves, Holding, AddPending
  <2> QED
    BY <2>1, <2>2, <2>3 DEF AddMoves, Ticket, BusyIsOneAdd, HeldRange
<1>6. ASSUME FailAdd(a) \/ PublishAdd(a)
      PROVE  BusyIsOneAdd' /\ HeldRange'
  <2>1. PICK pc \in {"done", "tail"} : AddMoves(a, pc)
    BY <1>0, <1>6, AddMoved DEF FailAdd, PublishAdd
  <2>2. Holding(a) /\ busy' = FALSE
    BY <1>6 DEF FailAdd, PublishAdd, Holding, AddPending
  <2>3. \A b \in AddId : ~Holding(b)'
    BY <2>1, <2>2 DEF AddMoves, Holding, AddPending, Ticket, BusyIsOneAdd
  <2> QED
    BY <2>2, <2>3 DEF BusyIsOneAdd, HeldRange
<1>7. ASSUME FinishAdd(a)
      PROVE  BusyIsOneAdd' /\ HeldRange'
  <2>1. AddMoves(a, "done")
    BY <1>0, <1>7, AddMoved DEF FinishAdd
  <2>2. \A b \in AddId : Holding(b)' <=> Holding(b)
    BY <1>7, <2>1 DEF FinishAdd, AddMoves, Holding, AddPending
  <2> QED
    BY <1>7, <2>1, <2>2 DEF FinishAdd, AddMoves, Ticket, BusyIsOneAdd, HeldRange
<1>8. BusyIsOneAdd' /\ HeldRange'
  BY <1>5, <1>6, <1>7 DEF AddStep
<1> QED
  BY <1>2, <1>4, <1>8 DEF Ticket

\* The initial add of start runs before any handler can ask.
LEMMA StartTicket ==
    ASSUME AddInv, Ticket, NEW ok \in BOOLEAN, Start(ok)
    PROVE  Ticket'
<1>1. \A a \in AddId : ~Holding(a) /\ ~Holding(a)'
  BY DEF Start, Ticket, NothingBeforeStart, Holding, AddPending
<1>2. BusyIsOneAdd' /\ HeldRange'
  BY <1>1 DEF Start, Ticket, BusyIsOneAdd, HeldRange
<1>3. HandlerHoldsAdd' /\ NothingBeforeStart'
  BY DEF Start, Ticket, HandlerHoldsAdd, NothingBeforeStart, Carrying, Launching
<1> QED
  BY <1>2, <1>3 DEF Ticket

\* Every step keeps the invariant of the adds.
LEMMA AddInvNext == AddInv /\ [Next]_vars => AddInv'
<1> SUFFICES ASSUME AddInv, [Next]_vars
             PROVE  AddInv'
  OBVIOUS
<1>1. Ticket
  BY DEF AddInv, Ticket
<1>2. ASSUME QuietStep \/ UNCHANGED vars \/ StopHarness
      PROVE  Ticket'
  <2>1. /\ UNCHANGED <<used, busy, add, given, aborted, handler>>
        /\ main' = "start" => UNCHANGED <<main, serving>>
    BY <1>2, QuietFrame DEF StopHarness, addVars, mainVars
  <2> QED
    BY <1>1, <2>1, TicketKept
<1>3. Ticket'
  BY <1>1, <1>2, NextCases, RequestAddTicket, JoinAddTicket, SpawnAddTicket, AssignAddTicket,
     RungStepTicket, AddStepTicket, StartTicket DEF AddStep
<1> QED
  BY <1>3, TypeStep, WindowRoomStep DEF AddInv, Ticket

\* The invariant of the adds holds in every reachable state.
LEMMA AddInvHolds == Spec => []AddInv
BY AddInitInv, AddInvNext, PTL DEF Spec

-----------------------------------------------------------------------------
(* The indices handed out.                                                 *)

\* Tagging the elements of a set with one value keeps their number.
LEMMA SliceCounted ==
    ASSUME NEW a, NEW T, IsFiniteSet(T)
    PROVE  IsFiniteSet({a} \X T) /\ Cardinality({a} \X T) = Cardinality(T)
<1>1. IsFiniteSet({a}) /\ Cardinality({a}) = 1
  BY FS_Singleton
<1>2. IsFiniteSet({a} \X T) /\ Cardinality({a} \X T) = 1 * Cardinality(T)
  BY <1>1, FS_Product
<1> QED
  BY <1>2, FS_CardinalityType

\* Initially no index is given out.
LEMMA GivenInitInv == Init => GivenInv
<1>1. Init => IsFiniteSet(given) /\ Cardinality(given) = 0
  BY FS_EmptySet DEF Init
<1> QED
  BY <1>1 DEF Init, GivenInv, GivenBelowUsed, GivenCounted, IndicesUnique, Publishing

\* A step that gives nothing out and publishes nothing keeps what was given.
LEMMA GivenKept ==
    ASSUME GivenInv, UNCHANGED <<used, given>>,
           \A b \in AddId : /\ Publishing(b)' <=> Publishing(b)
                            /\ Publishing(b) => add'[b].count = add[b].count
    PROVE  GivenInv'
<1>1. GivenBelowUsed'
  BY DEF GivenInv, GivenBelowUsed
<1>2. GivenCounted'
  BY DEF GivenInv, GivenCounted
<1> QED
  BY <1>1, <1>2 DEF GivenInv, IndicesUnique

\* distribute gives out a range that starts where the former ones end.
LEMMA DistributeAddGiven ==
    ASSUME AddInv, GivenInv, NEW a \in AddId, DistributeAdd(a)
    PROVE  GivenInv'
<1>0. AddTyped /\ CountersTyped
  BY TypeGroups DEF AddInv
<1>1. AddMoves(a, "publish") /\ UNCHANGED used
  BY <1>0, AddMoved DEF DistributeAdd
<1>2. Holding(a) /\ \A b \in AddId : Holding(b) => b = a
  BY DEF DistributeAdd, AddInv, BusyIsOneAdd, Holding, AddPending
<1>3. \A b \in AddId : ~Publishing(b) /\ (Publishing(b)' <=> b = a)
  BY <1>1, <1>2 DEF AddMoves, Publishing, Holding, AddPending, DistributeAdd
<1> DEFINE c == add[a].count
           New == {a} \X (used .. used + c - 1)
<1>4. used \in Nat /\ IndexLimit \in Nat /\ c \in Nat /\ used + c <= IndexLimit /\ add[a].start = used
  <2>1. used \in Nat /\ IndexLimit \in Nat
    BY <1>0, PlaneAssumption DEF CountersTyped
  <2>2. c \in AddCounts /\ used + c <= IndexLimit /\ add[a].start = used
    BY <1>2 DEF AddInv, HeldRange
  <2> QED
    BY <2>1, <2>2, PlaneAssumption
<1>5. given' = given \union New
  BY <1>4 DEF DistributeAdd, Indices
<1>6. \A x \in given : x[2] < used /\ x[2] \in Nat
  BY <1>0, <1>3 DEF GivenInv, GivenBelowUsed, CountersTyped
<1>7. \A x \in New : x[1] = a /\ x[2] \in Nat /\ used <= x[2] /\ x[2] < used + c
  BY <1>4
<1>8. given \cap New = {}
  BY <1>4, <1>6, <1>7
<1> HIDE DEF c, New
<1>9. IsFiniteSet(given') /\ Cardinality(given') = used + c
  <2>1. IsFiniteSet(given) /\ Cardinality(given) = used
    BY <1>3 DEF GivenInv, GivenCounted
  <2>2. IsFiniteSet(New) /\ Cardinality(New) = c
    <3>1. /\ IsFiniteSet(used .. used + c - 1)
          /\ Cardinality(used .. used + c - 1) = c
      BY <1>4, FS_Interval
    <3> QED
      BY <3>1, SliceCounted DEF New
  <2> QED
    BY <1>4, <1>5, <1>8, <2>1, <2>2, FS_Union, FS_EmptySet
<1>10. add'[a].count = c
  BY <1>1 DEF AddMoves, c
<1>11. GivenBelowUsed'
  BY <1>1, <1>3, <1>4, <1>5, <1>6, <1>7, <1>10 DEF GivenBelowUsed
<1>12. GivenCounted'
  BY <1>1, <1>3, <1>9, <1>10 DEF GivenCounted
<1>13. IndicesUnique'
  <2>1. \A x, y \in given' : x[2] = y[2] => x[1] = y[1]
    BY <1>4, <1>5, <1>6, <1>7 DEF GivenInv, IndicesUnique
  <2>2. \A x \in given' : x[2] < IndexLimit
    BY <1>4, <1>5, <1>6, <1>7
  <2> QED
    BY <2>1, <2>2 DEF IndicesUnique
<1> QED
  BY <1>11, <1>12, <1>13 DEF GivenInv

\* used_ moves past the range that was given out.
LEMMA PublishAddGiven ==
    ASSUME AddInv, GivenInv, NEW a \in AddId, PublishAdd(a)
    PROVE  GivenInv'
<1>0. AddTyped /\ CountersTyped
  BY TypeGroups DEF AddInv
<1>1. AddMoves(a, "tail") /\ UNCHANGED given /\ used' = used + add[a].count
  BY <1>0, AddMoved DEF PublishAdd, UsedAfter
<1>2. Publishing(a) /\ Holding(a) /\ \A b \in AddId : Holding(b) => b = a
  BY DEF PublishAdd, Publishing, AddInv, BusyIsOneAdd, Holding, AddPending
<1>3. \A b \in AddId : (Publishing(b) <=> b = a) /\ ~Publishing(b)'
  BY <1>1, <1>2 DEF AddMoves, Publishing, Holding, AddPending
<1>4. used \in Nat /\ add[a].count \in Nat
  <2>1. add[a].count \in AddCounts
    BY <1>2 DEF AddInv, HeldRange
  <2>2. used \in Nat
    BY <1>0, PlaneAssumption DEF CountersTyped
  <2> QED
    BY <2>1, <2>2, PlaneAssumption
<1>5. \A x \in given : x[2] \in Nat
  BY <1>0 DEF CountersTyped
<1>6. GivenBelowUsed'
  BY <1>1, <1>3, <1>4, <1>5 DEF GivenInv, GivenBelowUsed
<1>7. GivenCounted'
  BY <1>1, <1>2, <1>3 DEF GivenInv, GivenCounted
<1> QED
  BY <1>1, <1>6, <1>7 DEF GivenInv, IndicesUnique

\* start gives out the first range.
LEMMA StartGiven ==
    ASSUME AddInv, GivenInv, NEW ok \in BOOLEAN, Start(ok)
    PROVE  GivenInv'
<1>1. UNCHANGED add
  BY DEF Start
<1>2. CASE ~ok
  <2>1. UNCHANGED <<used, given>>
    BY <1>2 DEF Start
  <2> QED
    BY <1>1, <2>1, GivenKept DEF Publishing
<1>3. CASE ok
  <2>1. used' = StartClients /\ given' = {NoAdd} \X (0 .. StartClients - 1)
    BY <1>3 DEF Start
  <2>2. StartClients \in Nat /\ IndexLimit \in Nat /\ StartClients <= IndexLimit
    BY PlaneAssumption
  <2>3. \A x \in given' : x[1] = NoAdd /\ x[2] \in Nat /\ x[2] < StartClients
    BY <2>1, <2>2
  <2>4. IsFiniteSet(given') /\ Cardinality(given') = StartClients
    <3>1. /\ IsFiniteSet(0 .. StartClients - 1)
          /\ Cardinality(0 .. StartClients - 1) = StartClients
      BY <2>2, FS_Interval
    <3> QED
      BY <2>1, <3>1, SliceCounted
  <2>5. \A a \in AddId : ~Publishing(a)'
    BY <1>1 DEF Start, AddInv, NothingBeforeStart, Publishing
  <2>6. GivenBelowUsed' /\ IndicesUnique'
    BY <2>1, <2>2, <2>3 DEF GivenBelowUsed, IndicesUnique
  <2>7. GivenCounted'
    BY <2>1, <2>4, <2>5 DEF GivenCounted
  <2> QED
    BY <2>6, <2>7 DEF GivenInv
<1> QED
  BY <1>2, <1>3

\* Every step keeps the indices apart and counted.
LEMMA GivenInvNext == AddInv /\ GivenInv /\ [Next]_vars => GivenInv'
<1> SUFFICES ASSUME AddInv, GivenInv, [Next]_vars
             PROVE  GivenInv'
  OBVIOUS
<1>0. AddTyped /\ CountersTyped /\ HandlerTyped
  BY TypeGroups DEF AddInv
<1>1. ASSUME NEW h \in Handler, NEW count \in AddCounts, RequestAdd(h, count)
      PROVE  GivenInv'
  <2>1. \A b \in AddId : ~Publishing(b)
    BY <1>1 DEF RequestAdd, MayAdd, AddInv, BusyIsOneAdd, Holding, Publishing, AddPending
  <2>2. \A b \in AddId : add'[b] = add[b] \/ add'[b].pc = "accepted"
    BY <1>0, <1>1 DEF RequestAdd, AddTyped
  <2> QED
    BY <1>1, <2>1, <2>2, GivenKept DEF RequestAdd, Publishing
<1>2. ASSUME NEW h \in Handler, SpawnAdd(h)
      PROVE  GivenInv'
  <2>1. handler[h].add \in AddId /\ add[handler[h].add].pc = "accepted"
    BY <1>2 DEF SpawnAdd, AddInv, HandlerHoldsAdd, Carrying, Launching
  <2>2. AddMoves(handler[h].add, "provision")
    BY <1>0, <1>2, <2>1, AddMoved DEF SpawnAdd
  <2> QED
    BY <1>2, <2>1, <2>2, GivenKept DEF SpawnAdd, Publishing, AddMoves
<1>3. ASSUME NEW a \in AddId, NEW ok \in BOOLEAN,
             ProvisionAdd(a, ok) \/ FailAdd(a) \/ FinishAdd(a)
      PROVE  GivenInv'
  <2>1. PICK pc \in {"distribute", "fail", "done"} : AddMoves(a, pc)
    BY <1>0, <1>3, AddMoved DEF ProvisionAdd, FailAdd, FinishAdd
  <2>2. add[a].pc # "publish" /\ UNCHANGED <<used, given>>
    BY <1>3 DEF ProvisionAdd, FailAdd, FinishAdd
  <2> QED
    BY <2>1, <2>2, GivenKept DEF Publishing, AddMoves
<1>4. ASSUME UNCHANGED <<used, given, add>>
      PROVE  GivenInv'
  BY <1>4, GivenKept DEF Publishing
<1>5. ASSUME NEW h \in Handler, JoinAdd(h) \/ AssignAdd(h) \/ RungStep(h)
      PROVE  UNCHANGED <<used, given, add>>
  BY <1>0, <1>5, RungFrame DEF JoinAdd, AssignAdd, addVars
<1>6. ASSUME QuietStep \/ UNCHANGED vars \/ StopHarness
      PROVE  UNCHANGED <<used, given, add>>
  BY <1>6, QuietFrame DEF StopHarness, addVars
<1> QED
  BY <1>1, <1>2, <1>3, <1>4, <1>5, <1>6, NextCases, DistributeAddGiven, PublishAddGiven, StartGiven

\* The indices are apart and counted in every reachable state.
LEMMA GivenInvHolds == Spec => []GivenInv
BY AddInvHolds, GivenInitInv, GivenInvNext, PTL DEF Spec

-----------------------------------------------------------------------------
(* The add thread is joined.                                               *)

\* Initially there is no thread to join.
LEMMA JoinInitInv == Init => JoinInv
BY DEF Init, JoinInv, AddsReachable, PoolDrained, AddsJoined

\* A step that touches neither threads nor handlers, and does not stop the
\* harness, loses no thread.
LEMMA JoinKept ==
    ASSUME JoinInv, UNCHANGED <<addThread, add, handler, aborted>>,
           main' = main \/ main' \notin {"stop", "done"},
           main' \in {"drain", "stop", "done"} => ~serving'
    PROVE  JoinInv'
<1>1. AddsReachable'
  BY DEF JoinInv, AddsReachable, Reachable, Carrying, Launching
<1>2. PoolDrained' /\ AddsJoined'
  BY DEF JoinInv, PoolDrained, AddsJoined
<1> QED
  BY <1>1, <1>2 DEF JoinInv

\* A handler that moves: the run has not come to Harness::stop.
LEMMA HandlerActive ==
    ASSUME PoolDrained, NEW h \in Handler, serving \/ handler[h].pc # "idle"
    PROVE  main \notin {"stop", "done"} /\ (serving => main # "drain")
BY DEF PoolDrained, Free

\* Before stop it is enough that every thread is still reachable.
LEMMA JoinMoved ==
    ASSUME JoinInv, AddsReachable', main \notin {"stop", "done"}, UNCHANGED <<main, serving>>
    PROVE  JoinInv'
BY DEF JoinInv, PoolDrained, AddsJoined

\* requestAdd spawns nothing yet.
LEMMA RequestJoin ==
    ASSUME AddInv, JoinInv, NEW h \in Handler, NEW count \in AddCounts, RequestAdd(h, count)
    PROVE  JoinInv'
<1>0. HandlerTyped /\ AddTyped /\ CountersTyped
  BY TypeGroups DEF AddInv
<1>1. /\ \A b \in AddId : b # adds + 1 => add'[b] = add[b]
      /\ \A g \in Handler : g # h => handler'[g] = handler[g]
      /\ handler'[h].pc = "join" /\ handler'[h].add = adds + 1 /\ ~Carrying(h)
  BY <1>0 DEF RequestAdd, AddTyped, HandlerTyped, Free, Carrying, Launching
<1>2. AddsReachable'
  <2> SUFFICES ASSUME ~aborted, NEW b \in AddId, add'[b].pc \notin {"none", "done"}
               PROVE  Reachable(b)'
    BY DEF RequestAdd, AddsReachable
  <2>1. CASE b = adds + 1
    BY <1>1, <2>1 DEF Reachable, Carrying, Launching
  <2>2. CASE b # adds + 1
    <3>1. Reachable(b)
      BY <1>1, <2>2 DEF JoinInv, AddsReachable
    <3> QED
      BY <1>1, <3>1 DEF Reachable, Carrying, Launching, RequestAdd
  <2> QED
    BY <2>1, <2>2
<1> QED
  BY <1>2, HandlerActive, JoinMoved DEF RequestAdd, JoinInv, mainVars

\* The handler joins the former thread before it overwrites addThread_.
LEMMA LaunchJoin ==
    ASSUME AddInv, JoinInv, NEW h \in Handler, JoinAdd(h) \/ SpawnAdd(h) \/ AssignAdd(h)
    PROVE  JoinInv'
<1>0. HandlerTyped /\ AddTyped
  BY TypeGroups DEF AddInv
<1>1. Carrying(h) /\ handler[h].add \in AddId /\ ~aborted /\ UNCHANGED <<main, serving>>
  BY DEF JoinAdd, SpawnAdd, AssignAdd, AddInv, HandlerHoldsAdd, Carrying, Launching, Alive, mainVars
<1>2. \A g \in Handler : g # h => handler'[g] = handler[g]
  BY <1>0 DEF JoinAdd, SpawnAdd, AssignAdd, Goto, Return, HandlerTyped
<1>3. AddsReachable'
  <2>1. CASE JoinAdd(h)
    <3>1. Carrying(h)' /\ handler'[h].add = handler[h].add
      BY <1>0, <2>1 DEF JoinAdd, Goto, HandlerTyped, HandlerState, Carrying, Launching
    <3>2. ASSUME NEW b \in AddId, add'[b].pc \notin {"none", "done"}
          PROVE  Reachable(b)'
      <4>1. UNCHANGED add /\ Reachable(b) /\ addThread # b
        BY <1>1, <2>1, <3>2 DEF JoinAdd, JoinInv, AddsReachable, NoAdd, AddId
      <4> QED
        BY <1>2, <3>1, <4>1 DEF Reachable, Carrying, Launching
    <3> QED
      BY <3>2 DEF AddsReachable
  <2>2. CASE SpawnAdd(h)
    <3>1. Carrying(h)' /\ handler'[h].add = handler[h].add
      BY <1>0, <2>2 DEF SpawnAdd, Goto, HandlerTyped, HandlerState, Carrying, Launching
    <3>2. ASSUME NEW b \in AddId, add'[b].pc \notin {"none", "done"}
          PROVE  Reachable(b)'
      <4>1. CASE b = handler[h].add
        BY <3>1, <4>1 DEF Reachable
      <4>2. CASE b # handler[h].add
        <5>1. add'[b] = add[b] /\ UNCHANGED addThread
          BY <1>0, <1>1, <2>2, <4>2 DEF SpawnAdd, AddTyped
        <5>2. Reachable(b)
          BY <1>1, <3>2, <5>1 DEF JoinInv, AddsReachable
        <5> QED
          BY <1>2, <3>1, <5>1, <5>2 DEF Reachable, Carrying, Launching
      <4> QED
        BY <4>1, <4>2
    <3> QED
      BY <3>2 DEF AddsReachable
  <2>3. CASE AssignAdd(h)
    <3>1. ASSUME ~aborted', NEW b \in AddId, add'[b].pc \notin {"none", "done"}
          PROVE  Reachable(b)'
      <4>1. UNCHANGED add /\ addThread = NoAdd /\ addThread' = handler[h].add
        BY <2>3, <3>1 DEF AssignAdd
      <4>2. Reachable(b) /\ b # NoAdd
        BY <1>1, <3>1, <4>1 DEF JoinInv, AddsReachable, NoAdd, AddId
      <4> QED
        BY <1>2, <4>1, <4>2 DEF Reachable, Carrying, Launching
    <3> QED
      BY <3>1 DEF AddsReachable
  <2> QED
    BY <2>1, <2>2, <2>3
<1>4. main \notin {"stop", "done"}
  BY <1>1, HandlerActive DEF JoinInv, Carrying, Launching
<1> QED
  BY <1>1, <1>3, <1>4, JoinMoved

\* A rung's step touches no thread.
LEMMA RungJoin ==
    ASSUME AddInv, JoinInv, NEW h \in Handler, RungStep(h)
    PROVE  JoinInv'
<1>0. HandlerTyped
  BY TypeGroups DEF AddInv
<1>1. /\ UNCHANGED <<addThread, add, aborted, main, serving>> /\ ~Carrying(h) /\ ~Carrying(h)'
      /\ serving \/ handler[h] # Free
  BY <1>0, RungFrame DEF addVars, mainVars
<1>2. \A g \in Handler : g # h => handler'[g] = handler[g]
  BY <1>0, RungFrame DEF HandlerTyped
<1>3. \A b \in AddId : Reachable(b) => Reachable(b)'
  BY <1>1, <1>2 DEF Reachable, Carrying, Launching
<1>4. AddsReachable'
  BY <1>1, <1>3 DEF JoinInv, AddsReachable
<1> QED
  BY <1>1, <1>4, JoinMoved DEF JoinInv, PoolDrained

\* An add that ends can still be joined.
LEMMA AddStepJoin ==
    ASSUME AddInv, JoinInv, NEW a \in AddId, AddStep(a)
    PROVE  JoinInv'
<1>0. AddTyped
  BY TypeGroups DEF AddInv
<1>1. /\ UNCHANGED <<addThread, handler, aborted, main, serving>> /\ add[a].pc \notin {"none", "done"}
      /\ ~aborted
  BY DEF AddStep, ProvisionAdd, FailAdd, DistributeAdd, PublishAdd, FinishAdd, mainVars, Alive
<1>2. \A b \in AddId : b # a => add'[b] = add[b]
  BY <1>0 DEF AddStep, ProvisionAdd, FailAdd, DistributeAdd, PublishAdd, FinishAdd, AddTyped
<1>3. AddsReachable'
  BY <1>1, <1>2 DEF JoinInv, AddsReachable, Reachable, Carrying, Launching
<1>4. PoolDrained'
  BY <1>1 DEF JoinInv, PoolDrained
<1>5. AddsJoined'
  BY <1>1, <1>2 DEF JoinInv, AddsJoined
<1> QED
  BY <1>3, <1>4, <1>5 DEF JoinInv

\* Every step keeps the threads reachable until they are joined.
LEMMA JoinInvNext == AddInv /\ JoinInv /\ [Next]_vars => JoinInv'
<1> SUFFICES ASSUME AddInv, JoinInv, [Next]_vars
             PROVE  JoinInv'
  OBVIOUS
<1>1. ASSUME NEW ok \in BOOLEAN, Start(ok)
      PROVE  JoinInv'
  BY <1>1 DEF Start, AddInv, NothingBeforeStart, JoinInv, AddsReachable, PoolDrained, AddsJoined
<1>2. CASE QuietStep \/ UNCHANGED vars
  <2>1. CASE DrainServer
    BY <2>1 DEF DrainServer, addVars, JoinInv, AddsReachable, Reachable, Carrying, Launching,
       PoolDrained, AddsJoined, Alive
  <2>2. CASE ~DrainServer
    <3>1. /\ UNCHANGED <<addThread, add, handler, aborted>>
          /\ main' = main \/ main' \notin {"stop", "done"}
          /\ main' \in {"drain", "stop", "done"} => ~serving'
      BY <1>2, <2>2 DEF QuietStep, Signal, EndLoop, ObserveEnd, AmendRung, StopServer, Over,
         RequestShutdown, vars, addVars, mainVars, JoinInv, PoolDrained
    <3> QED
      BY <3>1, JoinKept
  <2> QED
    BY <2>1, <2>2
<1>3. CASE StopHarness
  <2>1. ~aborted /\ UNCHANGED <<add, handler, serving, aborted>> /\ addThread' = NoAdd /\ AddJoined
        /\ main = "stop" /\ main' = "done"
    BY <1>3 DEF StopHarness, Alive
  <2>2. \A b \in AddId : add[b].pc \in {"none", "done"}
    <3> SUFFICES ASSUME NEW b \in AddId, add[b].pc \notin {"none", "done"}
                 PROVE  FALSE
      OBVIOUS
    <3>1. Reachable(b) /\ \A h \in Handler : ~Carrying(h)
      BY <2>1 DEF JoinInv, AddsReachable, PoolDrained, Free, Carrying, Launching
    <3> QED
      BY <2>1, <3>1 DEF Reachable, AddJoined, NoAdd, AddId
  <2> QED
    BY <2>1, <2>2 DEF JoinInv, AddsReachable, PoolDrained, AddsJoined
<1> QED
  BY <1>1, <1>2, <1>3, NextCases, RequestJoin, LaunchJoin, RungJoin, AddStepJoin DEF AddStep

-----------------------------------------------------------------------------
(* The theorems.                                                           *)

\* Every state is typed: in particular the indices in use stay within
\* LT_INDEX_LIMIT although the check and the increment are two critical
\* sections, with a provisioning between them.
THEOREM PlaneTypeCorrect == Spec => []TypeOK
BY AddInvHolds, PTL DEF AddInv

\* However many drivers ask at once, busy_ is the ticket of exactly one add,
\* from requestAdd's acceptance to runAdd's last critical section.
THEOREM BusyIsATicket == Spec => []BusyIsOneAdd
BY AddInvHolds, PTL DEF AddInv

\* No index is handed to the clients of two adds, and none beyond the limit.
THEOREM IndicesAreUnique == Spec => []IndicesUnique
BY GivenInvHolds, PTL DEF GivenInv

\* Whenever no add is under way used_ is the number of clients the workers
\* have, after failed adds as well.
THEOREM UsedIsExact == Spec => []UsedExact
<1>1. AddInv /\ GivenInv => UsedExact
  <2> SUFFICES ASSUME AddInv, GivenInv, ~busy
               PROVE  used = Cardinality(given)
    BY DEF UsedExact
  <2>1. \A a \in AddId : ~Publishing(a)
    BY DEF AddInv, BusyIsOneAdd, Holding, AddPending, Publishing
  <2> QED
    BY <2>1 DEF GivenInv, GivenCounted
<1> QED
  BY <1>1, AddInvHolds, GivenInvHolds, PTL

\* When main returns no add thread runs on the Harness it destroys, whichever
\* requests were in flight when the run was stopped.
THEOREM AddsAreJoined == Spec => []AddsJoined
<1>1. JoinInv => AddsJoined
  BY DEF JoinInv
<1> QED
  BY <1>1, AddInvHolds, JoinInitInv, JoinInvNext, PTL DEF Spec
=============================================================================
