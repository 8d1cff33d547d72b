----------------------------- MODULE ControlPlane -----------------------------
(***************************************************************************)
(* The control plane of one generator: the HTTP handlers of ControlServer, *)
(* the Harness state they share under mu_ (used_, busy_, addError_, the    *)
(* last rung), the add thread a request leaves behind, the stats window a  *)
(* rung names, and the main thread that ends the run.                      *)
(*                                                                         *)
(* Handlers run concurrently on the HTTP server's pool; a step of one is   *)
(* what it does in one critical section, or the one call between two.      *)
(* Refused requests change nothing and are stuttering steps.               *)
(***************************************************************************)
EXTENDS Integers, FiniteSets

CONSTANTS
    Handler,        \* HTTP pool threads
    Rung,           \* rung ids a driver may open
    NoRung,         \* the empty rung id
    IndexLimit,     \* LT_INDEX_LIMIT: indices this generator may use
    StartClients,   \* LT_CLIENTS: provisioned before the run
    AddCounts,      \* counts a driver asks for
    MaxAdds,        \* bound: adds accepted in a behaviour
    MaxWindows      \* bound: stats windows opened in a behaviour

ASSUME PlaneAssumption ==
    /\ NoRung \notin Rung
    /\ IndexLimit \in Nat
    /\ StartClients \in 0 .. IndexLimit
    /\ AddCounts \subseteq Nat \ {0}
    /\ MaxAdds \in Nat /\ MaxWindows \in Nat
    /\ IsFiniteSet(Handler)

VARIABLES
    used, busy, addError,   \* Harness::used_, busy_, addError_ (all under mu_)
    addThread,              \* Harness::addThread_: the joinable add, or NoAdd
    add,                    \* the add threads: pc, count, first local index
    adds,                   \* adds accepted so far
    given,                  \* <<add, index>> of every client handed to a worker
    rungId, window,         \* Stats::rungId_ and which markWindow set the origin
    opened,                 \* history: the rung each window was opened for
    atEnd, last,            \* replayLoggingAtEnd_ known; lastRungId_ and its body
    file,                   \* the rung files on disk
    handler,                \* per pool thread: pc and what it holds
    main, mine,             \* the main thread's pc and its copy of the last rung
    serving,                \* the HTTP server accepts requests
    stop, shutdown,         \* g_stop, Harness::shutdown_
    aborted                 \* the C++ runtime has terminated the process

addVars == <<used, busy, addError, addThread, add, adds, given>>
rungVars == <<rungId, window, opened>>
endVars == <<atEnd, last, file>>
mainVars == <<main, mine, serving, stop, shutdown>>
vars == <<addVars, rungVars, endVars, handler, mainVars, aborted>>

AddId == 1 .. MaxAdds
NoAdd == 0
WindowId == 0 .. MaxWindows

\* The body of a rung file, as far as it is told apart here: the window whose
\* counters it holds and whether it carries the end reading.
Body == [window : WindowId, atEnd : BOOLEAN]
NoBody == [window |-> 0, atEnd |-> FALSE]
LastRung == [id : Rung \union {NoRung}, body : Body]

HandlerPC == {"idle", "join", "spawn", "assign", "mark", "rungId", "window",
              "write", "keep"}
Free == [pc |-> "idle", add |-> NoAdd, rung |-> NoRung, body |-> NoBody]

\* The steps of add a that hold the index range it was accepted with.
AddPending == {"provision", "distribute", "publish", "fail"}

Alive == ~aborted

Goto(h, pc) == handler' = [handler EXCEPT ![h].pc = pc]
Return(h) == handler' = [handler EXCEPT ![h] = Free]

-----------------------------------------------------------------------------
(* POST /v1/clients/add: Harness::requestAdd.                              *)

\* The critical section of requestAdd, up to the acceptance.
SlipMayAddLimit(count) == ~busy
SlipMayAdd(count) == used + count <= IndexLimit
MayAdd(count) == ~busy /\ used + count <= IndexLimit

RequestAdd(h, count) ==
    /\ Alive /\ serving /\ handler[h] = Free
    /\ adds < MaxAdds
    /\ MayAdd(count)
    /\ busy' = TRUE
    /\ addError' = FALSE
    /\ adds' = adds + 1
    /\ add' = [add EXCEPT ![adds + 1] = [pc |-> "accepted", count |-> count, start |-> used]]
    /\ handler' = [handler EXCEPT ![h] = [Free EXCEPT !.pc = "join", !.add = adds + 1]]
    /\ UNCHANGED <<used, addThread, given, rungVars, endVars, mainVars, aborted>>

\* The previous add thread, if there is one, is joined first.
JoinAdd(h) ==
    /\ Alive /\ handler[h].pc = "join"
    /\ addThread # NoAdd => add[addThread].pc = "done"
    /\ addThread' = NoAdd
    /\ Goto(h, "spawn")
    /\ UNCHANGED <<used, busy, addError, add, adds, given, rungVars, endVars, mainVars, aborted>>

\* The std::thread is constructed: runAdd may run from here on.
SpawnAdd(h) ==
    /\ Alive /\ handler[h].pc = "spawn"
    /\ add' = [add EXCEPT ![handler[h].add].pc = "provision"]
    /\ Goto(h, "assign")
    /\ UNCHANGED <<used, busy, addError, addThread, adds, given, rungVars, endVars,
                   mainVars, aborted>>

\* It is moved into addThread_; moving onto a joinable thread terminates.
AssignAdd(h) ==
    /\ Alive /\ handler[h].pc = "assign"
    /\ IF addThread = NoAdd
       THEN addThread' = handler[h].add /\ UNCHANGED aborted
       ELSE aborted' = TRUE /\ UNCHANGED addThread
    /\ Return(h)
    /\ UNCHANGED <<used, busy, addError, add, adds, given, rungVars, endVars, mainVars>>

-----------------------------------------------------------------------------
(* The add thread: Harness::runAdd.                                        *)

\* provisionRange returns every client or none, and none once stop is set.
ProvisionAdd(a, ok) ==
    /\ Alive /\ add[a].pc = "provision"
    /\ ok => ~stop
    /\ add' = [add EXCEPT ![a].pc = IF ok THEN "distribute" ELSE "fail"]
    /\ UNCHANGED <<used, busy, addError, addThread, adds, given, rungVars, endVars,
                   handler, mainVars, aborted>>

SlipFailAdd(a) ==
    /\ Alive /\ add[a].pc = "fail"
    /\ addError' = TRUE
    /\ add' = [add EXCEPT ![a].pc = "done"]
    /\ UNCHANGED <<used, busy, addThread, adds, given, rungVars, endVars, handler, mainVars, aborted>>
FailAdd(a) ==
    /\ Alive /\ add[a].pc = "fail"
    /\ busy' = FALSE
    /\ addError' = TRUE
    /\ add' = [add EXCEPT ![a].pc = "done"]
    /\ UNCHANGED <<used, addThread, adds, given, rungVars, endVars, handler, mainVars, aborted>>

\* distribute: the clients are the workers' before used_ counts them.
Indices(a) == add[a].start .. add[a].start + add[a].count - 1

DistributeAdd(a) ==
    /\ Alive /\ add[a].pc = "distribute"
    /\ given' = given \union ({a} \X Indices(a))
    /\ add' = [add EXCEPT ![a].pc = "publish"]
    /\ UNCHANGED <<used, busy, addError, addThread, adds, rungVars, endVars, handler,
                   mainVars, aborted>>

\* The closing critical section of runAdd.
SlipUsedTwice(a) == used + 2 * add[a].count
SlipUsedAfter(a) == used
UsedAfter(a) == used + add[a].count

PublishAdd(a) ==
    /\ Alive /\ add[a].pc = "publish"
    /\ used' = UsedAfter(a)
    /\ busy' = FALSE
    /\ addError' = FALSE
    /\ add' = [add EXCEPT ![a].pc = "tail"]
    /\ UNCHANGED <<addThread, adds, given, rungVars, endVars, handler, mainVars, aborted>>

\* syncSignIn and the log line, outside the lock.
FinishAdd(a) ==
    /\ Alive /\ add[a].pc = "tail"
    /\ add' = [add EXCEPT ![a].pc = "done"]
    /\ UNCHANGED <<used, busy, addError, addThread, adds, given, rungVars, endVars,
                   handler, mainVars, aborted>>

-----------------------------------------------------------------------------
(* POST /v1/rung/open and /v1/rung/close.                                  *)

OpenRung(h, r) ==
    /\ Alive /\ serving /\ handler[h] = Free
    /\ window + Cardinality({g \in Handler : handler[g].pc = "mark"}) < MaxWindows
    /\ ~busy
    /\ handler' = [handler EXCEPT ![h] = [Free EXCEPT !.pc = "mark", !.rung = r]]
    /\ UNCHANGED <<addVars, rungVars, endVars, mainVars, aborted>>

\* Stats::markWindow, after mu_ has been released.
MarkWindow(h) ==
    /\ Alive /\ handler[h].pc = "mark"
    /\ window' = window + 1
    /\ rungId' = handler[h].rung
    /\ opened' = [opened EXCEPT ![window + 1] = handler[h].rung]
    /\ Return(h)
    /\ UNCHANGED <<addVars, endVars, mainVars, aborted>>

\* statsJson reads the Harness fields under mu_, then the rung id, then the
\* window's counters, each under a lock of its own.
CloseRung(h) ==
    /\ Alive /\ serving /\ handler[h] = Free
    /\ handler' = [handler EXCEPT ![h] =
                     [Free EXCEPT !.pc = "rungId", !.body.atEnd = atEnd]]
    /\ UNCHANGED <<addVars, rungVars, endVars, mainVars, aborted>>

ReadRungId(h) ==
    /\ Alive /\ handler[h].pc = "rungId"
    /\ handler' = [handler EXCEPT ![h].pc = "window", ![h].rung = rungId]
    /\ UNCHANGED <<addVars, rungVars, endVars, mainVars, aborted>>

\* loadWindow; without a rung there is nothing to write.
LoadWindow(h) ==
    /\ Alive /\ handler[h].pc = "window"
    /\ IF handler[h].rung = NoRung
       THEN Return(h)
       ELSE handler' = [handler EXCEPT ![h].pc = "write", ![h].body.window = window]
    /\ UNCHANGED <<addVars, rungVars, endVars, mainVars, aborted>>

WriteRung(h) ==
    /\ Alive /\ handler[h].pc = "write"
    /\ file' = [file EXCEPT ![handler[h].rung] = handler[h].body]
    /\ Goto(h, "keep")
    /\ UNCHANGED <<addVars, rungVars, atEnd, last, mainVars, aborted>>

KeepRung(h) ==
    /\ Alive /\ handler[h].pc = "keep"
    /\ last' = [id |-> handler[h].rung, body |-> handler[h].body]
    /\ Return(h)
    /\ UNCHANGED <<addVars, rungVars, atEnd, file, mainVars, aborted>>

\* POST /v1/shutdown.
RequestShutdown(h) ==
    /\ Alive /\ serving /\ handler[h] = Free
    /\ shutdown' = TRUE /\ stop' = TRUE
    /\ UNCHANGED <<addVars, rungVars, endVars, handler, main, mine, serving, aborted>>

-----------------------------------------------------------------------------
(* The main thread.                                                        *)

\* Harness::start: the starting slice is provisioned, or the program exits.
Start(ok) ==
    /\ main = "start"
    /\ ok => ~stop \/ StartClients = 0
    /\ IF ok
       THEN /\ used' = StartClients
            /\ given' = {NoAdd} \X (0 .. StartClients - 1)
            /\ main' = "loop" /\ serving' = TRUE
       ELSE main' = "done" /\ UNCHANGED <<used, given, serving>>
    /\ UNCHANGED <<busy, addError, addThread, add, adds, rungVars, endVars, handler,
                   mine, stop, shutdown, aborted>>

\* SIGINT or SIGTERM.
Signal ==
    /\ Alive /\ main # "done"
    /\ stop' = TRUE
    /\ UNCHANGED <<addVars, rungVars, endVars, handler, main, mine, serving, shutdown, aborted>>

\* The loop ends at a stop, a shutdown, the duration or a failed health check.
SlipEndLoop ==
    /\ Alive /\ main = "loop" /\ shutdown
    /\ main' = "observe"
    /\ UNCHANGED <<addVars, rungVars, endVars, handler, mine, serving, stop, shutdown, aborted>>
EndLoop ==
    /\ Alive /\ main = "loop"
    /\ main' = "observe"
    /\ UNCHANGED <<addVars, rungVars, endVars, handler, mine, serving, stop, shutdown, aborted>>

\* recordReplayLoggingAtEnd: the critical section, and then the file.
ObserveEnd ==
    /\ Alive /\ main = "observe"
    /\ atEnd' = TRUE
    /\ mine' = last
    /\ main' = "amend"
    /\ UNCHANGED <<addVars, rungVars, last, file, handler, serving, stop, shutdown, aborted>>

AmendRung ==
    /\ Alive /\ main = "amend"
    /\ file' = IF mine.id = NoRung THEN file
               ELSE [file EXCEPT ![mine.id] = [mine.body EXCEPT !.atEnd = TRUE]]
    /\ main' = "httpStop"
    /\ UNCHANGED <<addVars, rungVars, atEnd, last, handler, mine, serving, stop, shutdown, aborted>>

\* ControlServer::stop: no new request, and the pool finishes those it has.
StopServer ==
    /\ Alive /\ main = "httpStop"
    /\ serving' = FALSE
    /\ main' = "drain"
    /\ UNCHANGED <<addVars, rungVars, endVars, handler, mine, stop, shutdown, aborted>>

DrainServer ==
    /\ Alive /\ main = "drain"
    /\ \A h \in Handler : handler[h] = Free
    /\ main' = "stop"
    /\ UNCHANGED <<addVars, rungVars, endVars, handler, mine, serving, stop, shutdown, aborted>>

\* Harness::stop: workers and control thread are joined (SessionControl), then
\* the add thread.
SlipAddJoined == TRUE
AddJoined == addThread # NoAdd => add[addThread].pc = "done"

StopHarness ==
    /\ Alive /\ main = "stop"
    /\ AddJoined
    /\ addThread' = NoAdd
    /\ main' = "done"
    /\ UNCHANGED <<used, busy, addError, add, adds, given, rungVars, endVars, handler,
                   mine, serving, stop, shutdown, aborted>>

\* The process is gone, or has terminated.
Over == (main = "done" \/ aborted) /\ UNCHANGED vars

-----------------------------------------------------------------------------
Init ==
    /\ used = 0 /\ busy = FALSE /\ addError = FALSE /\ addThread = NoAdd
    /\ add = [a \in AddId |-> [pc |-> "none", count |-> 0, start |-> 0]]
    /\ adds = 0 /\ given = {}
    /\ rungId = NoRung /\ window = 0
    /\ opened = [w \in WindowId |-> NoRung]
    /\ atEnd = FALSE /\ last = [id |-> NoRung, body |-> NoBody]
    /\ file = [r \in Rung |-> NoBody]
    /\ handler = [h \in Handler |-> Free]
    /\ main = "start" /\ mine = last
    /\ serving = FALSE /\ stop = FALSE /\ shutdown = FALSE
    /\ aborted = FALSE

\* What a handler does by itself once its request has been accepted.
HandlerStep(h) ==
    \/ JoinAdd(h) \/ SpawnAdd(h) \/ AssignAdd(h)
    \/ MarkWindow(h)
    \/ ReadRungId(h) \/ LoadWindow(h) \/ WriteRung(h) \/ KeepRung(h)

NewRequest(h) ==
    \/ \E count \in AddCounts : RequestAdd(h, count)
    \/ \E r \in Rung : OpenRung(h, r)
    \/ CloseRung(h)
    \/ RequestShutdown(h)

AddStep(a) ==
    \/ \E ok \in BOOLEAN : ProvisionAdd(a, ok)
    \/ FailAdd(a) \/ DistributeAdd(a) \/ PublishAdd(a) \/ FinishAdd(a)

MainStep == ObserveEnd \/ AmendRung \/ StopServer \/ DrainServer \/ StopHarness

Next ==
    \/ \E h \in Handler : NewRequest(h) \/ HandlerStep(h)
    \/ \E a \in AddId : AddStep(a)
    \/ \E ok \in BOOLEAN : Start(ok)
    \/ Signal \/ EndLoop \/ MainStep
    \/ Over

Spec == Init /\ [][Next]_vars

\* Every thread runs: a request that was accepted is served, a provisioning
\* ends (every GraphQL call has a timeout), and the loop, which wakes every
\* 200 ms, sees a stop.  Nobody is obliged to send a request or a signal.
FairSpec ==
    /\ Spec
    /\ \A h \in Handler : WF_vars(HandlerStep(h))
    /\ \A a \in AddId : WF_vars(AddStep(a))
    /\ WF_vars(\E ok \in BOOLEAN : Start(ok)) /\ WF_vars(MainStep)
    /\ WF_vars(stop /\ EndLoop)

-----------------------------------------------------------------------------
(* Properties.                                                             *)

\* Every variable has its type; the count of used indices is within the limit.
TypeOK ==
    /\ used \in 0 .. IndexLimit /\ busy \in BOOLEAN /\ addError \in BOOLEAN
    /\ addThread \in AddId \union {NoAdd} /\ adds \in 0 .. MaxAdds
    /\ add \in [AddId -> [pc : AddPending \union {"none", "accepted", "tail", "done"},
                          count : AddCounts \union {0}, start : 0 .. IndexLimit]]
    /\ given \in SUBSET ((AddId \union {NoAdd}) \X Nat)
    /\ rungId \in Rung \union {NoRung} /\ window \in WindowId
    /\ opened \in [WindowId -> Rung \union {NoRung}]
    /\ atEnd \in BOOLEAN /\ last \in LastRung /\ mine \in LastRung
    /\ file \in [Rung -> Body]
    /\ handler \in [Handler -> [pc : HandlerPC, add : AddId \union {NoAdd},
                                rung : Rung \union {NoRung}, body : Body]]
    /\ main \in {"start", "loop", "observe", "amend", "httpStop", "drain", "stop", "done"}
    /\ serving \in BOOLEAN /\ stop \in BOOLEAN /\ shutdown \in BOOLEAN
    /\ aborted \in BOOLEAN

\* The accepted adds that still hold the indices from used_ on.
Holding(a) == add[a].pc \in AddPending \union {"accepted"}

\* No two clients of the process have the same index (they would share an
\* account and a worker slot's identity), and none is at or above the limit,
\* although runAdd hands the clients out before it moves used_.
IndicesUnique ==
    /\ \A x, y \in given : x[2] = y[2] => x[1] = y[1]
    /\ \A x \in given : x[2] < IndexLimit

\* busy_ is the ticket of one add, from its acceptance to its last critical
\* section: never set without an add that will clear it, and never held by
\* two (the check, the hand-off to the thread and the release are separate).
BusyIsOneAdd ==
    /\ busy <=> \E a \in AddId : Holding(a)
    /\ \A a, b \in AddId : Holding(a) /\ Holding(b) => a = b

\* used_ is what the workers were given, once no add is under way.
UsedExact == ~busy => used = Cardinality(given)

\* When main returns, no add thread is left running on the Harness it is
\* about to destroy.
AddsJoined == main = "done" => \A a \in AddId : add[a].pc \in {"none", "done"}

\* Every add that was accepted gives busy_ back, even if it fails or the run
\* is being stopped: the driver's poll of status.busy ends.
AddEnds == busy ~> (~busy \/ aborted)

\* Once the run is to stop, main gets through the server, the workers and an
\* add that may still be provisioning.
StopEnds == stop ~> (main = "done" \/ aborted)

-----------------------------------------------------------------------------
(* What the documentation says and the interleavings contradict.           *)

\* openRung: "busy: finish the in-flight add before opening a rung".
RungOpensIdle == [][window' # window => ~busy]_vars

\* harness_rung_test: "the last rung file gets the end reading when the run
\* ends"; Harness.hpp says the same of recordReplayLoggingAtEnd.
EndReadingInLastFile ==
    main = "done" /\ last.id # NoRung => file[last.id].atEnd

\* Harness.hpp, requestAdd: "Empty string = accepted; otherwise an error."
RequestAddReturns == ~aborted

\* README, rung/close: "persist the window summary": the file of a rung holds
\* the counters of a window opened for that rung.
FileHoldsItsWindow ==
    \A r \in Rung : file[r] # NoBody => opened[file[r].window] = r
=============================================================================
