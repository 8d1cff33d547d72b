---------------------------- MODULE SessionControl ----------------------------
(***************************************************************************)
(* The life of the simulated clients of one load-test process: the worker  *)
(* threads that own them (Worker.cpp), the queue on which a worker asks    *)
(* for GraphQL work (ControlQueue), the single control thread that does it *)
(* (controlLoop in Harness.cpp) and the inboxes through which the answers  *)
(* come back.  The platform API is external: `installed' is what it has    *)
(* told the Buddy servers.                                                 *)
(*                                                                         *)
(* A worker's loop is sequential over clients it alone owns; every         *)
(* operation on one client is an action here, and what other threads see   *)
(* of it (a push, a post) is one critical section of the code.  Time is a  *)
(* count of deadlines: the n-th deadline handed out is n, and `clock' is   *)
(* the last one that has passed.                                           *)
(***************************************************************************)
EXTENDS Integers, Sequences, FiniteSets

CONSTANTS
    Client,         \* simulated clients (the slots of the workers' vectors)
    Worker,         \* worker threads
    WorkerOf,       \* the worker whose shard holds a client
    Server,         \* Buddy servers
    MaxAttempts,    \* placements tried per request (15 in the code)
    UnauthLimit,    \* UNAUTHORIZED replies that force a reassignment (5 * Hz)
    SendErrorLimit, \* consecutive send errors that force one (3 * Hz)
    MaxRequests,    \* bound: control requests pushed in a behaviour
    NoClient, NoServer

ASSUME ConstantsAssumption ==
    /\ IsFiniteSet(Client)
    /\ WorkerOf \in [Client -> Worker]
    /\ MaxAttempts \in Nat \ {0}
    /\ UnauthLimit \in Nat \ {0}
    /\ SendErrorLimit \in Nat \ {0}
    /\ MaxRequests \in Nat
    /\ NoClient \notin Client
    /\ NoServer \notin Server

VARIABLES
    state,              \* SimClient::state, with NONE and PENDING before it exists
    creds,              \* SimClient::creds: app token, server, udpReadyAt
    activateAt,         \* SimClient::activateAt
    sock,               \* the server the client's UDP socket is connected to
    tmpl,               \* the token baked into the client's message template
    refreshRequested,   \* SimClient::refreshRequested
    unauthorizedCount,  \* SimClient::unauthorizedCount
    sendErrors,         \* SimClient::consecutiveSendErrors
    gaveUp,             \* history: a failed update was the last one a parked client got
    active, suspended,  \* the gauges of Stats
    rx,                 \* the client whose datagram a worker is in the middle of
    running,            \* Worker::running_
    queue, shutdown,    \* ControlQueue
    ctl,                \* the control thread: pc, the request at hand, its answer
    inbox,              \* Worker::inbox_
    installed,          \* external: sessions the API installed on Buddies
    tokens,             \* external: app tokens handed out so far
    issued, clock,      \* deadlines handed out, deadlines passed
    pushed              \* requests pushed so far (for the bound)

clientVars == <<state, creds, activateAt, sock, tmpl, refreshRequested,
                unauthorizedCount, sendErrors, gaveUp, active, suspended>>
controlVars == <<queue, shutdown, ctl, inbox>>
apiVars == <<installed, tokens, issued>>
vars == <<clientVars, rx, running, controlVars, apiVars, clock, pushed>>

-----------------------------------------------------------------------------
States == {"NONE", "PENDING", "WAITING", "ACTIVE", "SUSPENDED"}
Kinds == {"REASSIGN", "REFRESH"}

\* ClientCredentials, as far as the session machinery reads them.  Token 0 is
\* the empty credential of a client that has not been provisioned.
Creds == [token : Nat, server : Server \union {NoServer}, readyAt : Nat]
NoCreds == [token |-> 0, server |-> NoServer, readyAt |-> 0]

\* ControlRequest and ClientUpdate.
Request == [client : Client, kind : Kinds, creds : Creds]
Update == [client : Client, failed : BOOLEAN, creds : Creds]

Asking(c, kind) == [client |-> c, kind |-> kind, creds |-> creds[c]]

Idle(c) == rx[WorkerOf[c]] = NoClient /\ running[WorkerOf[c]]
InDatagram(c) == rx[WorkerOf[c]] = c

\* The bound on the length of a behaviour: n more requests may be pushed.
Room(n) == pushed + n <= MaxRequests

Push(reqs) ==
    /\ queue' = queue \o reqs
    /\ pushed' = pushed + Len(reqs)

-----------------------------------------------------------------------------
(* Steps the handlers share, each after the plausible slip that the runs   *)
(* are shown to catch (the definitions named Slip... are used nowhere).    *)

SlipCloseSocket(c) == UNCHANGED sock
CloseSocket(c) == sock' = [sock EXCEPT ![c] = NoServer]

SlipLeaveActive(c) == UNCHANGED active
LeaveActive(c) == active' = IF state[c] = "ACTIVE" THEN active - 1 ELSE active

SlipAlreadySuspended(c) == FALSE
AlreadySuspended(c) == state[c] = "SUSPENDED"

SlipWedged(count) == count > UnauthLimit
Wedged(count) == count >= UnauthLimit

\* rebuildTemplate is called when an update brings another token.
SlipRebuildTemplate(c, token) == UNCHANGED tmpl
RebuildTemplate(c, token) ==
    tmpl' = IF token # creds[c].token THEN [tmpl EXCEPT ![c] = token] ELSE tmpl

\* A client whose ramp and settle deadlines have both passed is due.
SlipDue(c) == activateAt[c] <= clock
SlipDueStrict(c) == activateAt[c] < clock /\ creds[c].readyAt < clock
Due(c) == activateAt[c] <= clock /\ creds[c].readyAt <= clock

\* Worker::postUpdate.
SlipDeliver(u) ==
    IF u.failed THEN UNCHANGED inbox
    ELSE inbox' = [inbox EXCEPT ![WorkerOf[u.client]] = Append(@, u)]
SlipDeliverFront(u) == inbox' = [inbox EXCEPT ![WorkerOf[u.client]] = <<u>> \o @]
Deliver(u) == inbox' = [inbox EXCEPT ![WorkerOf[u.client]] = Append(@, u)]

-----------------------------------------------------------------------------
(* The worker thread.                                                      *)

\* Harness::distribute hands a provisioned client to its worker: it has a
\* token the API installed on some server and a deadline before which it
\* must not be activated.
AddClient(c, s) ==
    /\ state[c] = "NONE"
    /\ state' = [state EXCEPT ![c] = "PENDING"]
    /\ creds' = [creds EXCEPT ![c] =
                   [token |-> tokens + 1, server |-> s, readyAt |-> issued + 1]]
    /\ activateAt' = [activateAt EXCEPT ![c] = issued + 1]
    /\ tokens' = tokens + 1
    /\ issued' = issued + 1
    /\ installed' = installed \union {<<tokens + 1, s>>}
    /\ UNCHANGED <<sock, tmpl, refreshRequested, unauthorizedCount, sendErrors,
                   gaveUp, active, suspended, rx, running, controlVars, clock,
                   pushed>>

\* The worker moves everything pending into its vector.
ApplyPendingClients(w) ==
    LET incoming == {c \in Client : WorkerOf[c] = w /\ state[c] = "PENDING"}
    IN  /\ running[w] /\ rx[w] = NoClient
        /\ incoming # {}
        /\ state' = [c \in Client |-> IF c \in incoming THEN "WAITING" ELSE state[c]]
        /\ UNCHANGED <<creds, activateAt, sock, tmpl, refreshRequested,
                       unauthorizedCount, sendErrors, gaveUp, active, suspended,
                       rx, running, controlVars, apiVars, clock, pushed>>

\* suspendClient: a client already SUSPENDED is left alone.  `before' are the
\* requests the same handler pushed earlier.
SuspendClient(c, kind, before) ==
    IF AlreadySuspended(c)
    THEN /\ Push(before)
         /\ UNCHANGED <<state, sock, active, suspended>>
    ELSE /\ Room(Len(before) + 1)
         /\ CloseSocket(c)
         /\ LeaveActive(c)
         /\ suspended' = suspended + 1
         /\ state' = [state EXCEPT ![c] = "SUSPENDED"]
         /\ Push(before \o <<Asking(c, kind)>>)

\* applyPendingUpdates, one update at a time (the swap keeps their order).
ApplyPendingUpdates(w) ==
    /\ running[w] /\ rx[w] = NoClient
    /\ inbox[w] # <<>>
    /\ inbox' = [inbox EXCEPT ![w] = Tail(@)]
    /\ LET u == Head(inbox[w])
           c == u.client
       IN  IF u.failed
           THEN /\ gaveUp' = [gaveUp EXCEPT ![c] = (state[c] = "SUSPENDED")]
                /\ UNCHANGED <<state, creds, activateAt, sock, tmpl,
                               refreshRequested, active, suspended>>
           ELSE /\ creds' = [creds EXCEPT ![c] = u.creds]
                /\ refreshRequested' = [refreshRequested EXCEPT ![c] = FALSE]
                /\ RebuildTemplate(c, u.creds.token)
                /\ gaveUp' = [gaveUp EXCEPT ![c] = FALSE]
                /\ \/ /\ state[c] = "SUSPENDED"
                      /\ suspended' = suspended - 1
                      /\ state' = [state EXCEPT ![c] = "WAITING"]
                      /\ activateAt' = [activateAt EXCEPT ![c] = u.creds.readyAt]
                      /\ UNCHANGED <<active, sock>>
                   \/ /\ state[c] = "ACTIVE"
                      /\ CloseSocket(c)
                      /\ state' = [state EXCEPT ![c] = "WAITING"]
                      /\ activateAt' = [activateAt EXCEPT ![c] = u.creds.readyAt]
                      /\ LeaveActive(c)
                      /\ UNCHANGED suspended
                   \/ /\ state[c] \notin {"SUSPENDED", "ACTIVE"}
                      /\ UNCHANGED <<state, activateAt, active, suspended, sock>>
    /\ UNCHANGED <<unauthorizedCount, sendErrors, rx, running, queue, shutdown,
                   ctl, apiVars, clock, pushed>>

\* activateDueClients for one client whose ramp and settle deadlines have
\* passed.  `opened' is whether openSocket succeeded.
ActivateDueClient(c, opened) ==
    /\ Idle(c)
    /\ state[c] = "WAITING"
    /\ Due(c)
    /\ tmpl' = IF tmpl[c] = 0 THEN [tmpl EXCEPT ![c] = creds[c].token] ELSE tmpl
    /\ IF opened
       THEN /\ sock' = [sock EXCEPT ![c] = creds[c].server]
            /\ state' = [state EXCEPT ![c] = "ACTIVE"]
            /\ active' = active + 1
            /\ UNCHANGED <<suspended, queue, pushed>>
       ELSE SuspendClient(c, "REASSIGN", <<>>)
    /\ UNCHANGED <<creds, activateAt, refreshRequested, unauthorizedCount,
                   sendErrors, gaveUp, rx, running, shutdown, ctl, inbox,
                   apiVars, clock>>

\* drainSocket reads a datagram of an ACTIVE client; its messages are then
\* handled one by one until the bundle ends.
BeginDatagram(c) ==
    /\ Idle(c)
    /\ state[c] = "ACTIVE"
    /\ rx' = [rx EXCEPT ![WorkerOf[c]] = c]
    /\ UNCHANGED <<clientVars, running, controlVars, apiVars, clock, pushed>>

EndDatagram(w) ==
    /\ rx[w] # NoClient
    /\ rx' = [rx EXCEPT ![w] = NoClient]
    /\ UNCHANGED <<clientVars, running, controlVars, apiVars, clock, pushed>>

\* INVALID_TOKEN, TOKEN_EXPIRED or USER_NOT_AUTHENTICATED.
HandleTokenError(c) ==
    /\ InDatagram(c)
    /\ ~refreshRequested[c]
    /\ refreshRequested' = [refreshRequested EXCEPT ![c] = TRUE]
    /\ SuspendClient(c, "REFRESH", <<>>)
    /\ UNCHANGED <<creds, activateAt, tmpl, unauthorizedCount, sendErrors, gaveUp,
                   rx, running, shutdown, ctl, inbox, apiVars, clock>>

HandleUnauthorized(c) ==
    /\ InDatagram(c)
    /\ IF Wedged(unauthorizedCount[c] + 1)
       THEN /\ unauthorizedCount' = [unauthorizedCount EXCEPT ![c] = 0]
            /\ SuspendClient(c, "REASSIGN", <<>>)
       ELSE /\ unauthorizedCount' = [unauthorizedCount EXCEPT ![c] = @ + 1]
            /\ UNCHANGED <<state, sock, active, suspended, queue, pushed>>
    /\ UNCHANGED <<creds, activateAt, tmpl, refreshRequested, sendErrors, gaveUp,
                   rx, running, shutdown, ctl, inbox, apiVars, clock>>

\* COMMAND_RECONNECT.
HandleReconnect(c) ==
    /\ InDatagram(c)
    /\ SuspendClient(c, "REASSIGN", <<>>)
    /\ UNCHANGED <<creds, activateAt, tmpl, refreshRequested, unauthorizedCount,
                   sendErrors, gaveUp, rx, running, shutdown, ctl, inbox,
                   apiVars, clock>>

\* sendDueUpdates, a client that heard nothing for the whole window.
RxSilent(c) ==
    /\ Idle(c)
    /\ state[c] = "ACTIVE"
    /\ SuspendClient(c, "REASSIGN", <<>>)
    /\ UNCHANGED <<creds, activateAt, tmpl, refreshRequested, unauthorizedCount,
                   sendErrors, gaveUp, rx, running, shutdown, ctl, inbox,
                   apiVars, clock>>

\* sendDueUpdates, the rest of the iteration: a token inside the refresh lead
\* window is refreshed once, in the background, and then the packet is built
\* and sent; `outcome' is how far that got.
Outcomes == {"sent", "sendError", "buildError"}

SendDueUpdate(c, expiring, outcome) ==
    LET ask == expiring /\ ~refreshRequested[c]
        asked == IF ask THEN <<Asking(c, "REFRESH")>> ELSE <<>>
    IN  /\ Idle(c)
        /\ state[c] = "ACTIVE"
        /\ Room(Len(asked))
        /\ refreshRequested' = [refreshRequested EXCEPT ![c] = @ \/ ask]
        /\ IF outcome = "sendError" /\ sendErrors[c] + 1 >= SendErrorLimit
           THEN /\ sendErrors' = [sendErrors EXCEPT ![c] = 0]
                /\ SuspendClient(c, "REASSIGN", asked)
           ELSE /\ sendErrors' = [sendErrors EXCEPT ![c] =
                                    CASE outcome = "sent" -> 0
                                      [] outcome = "sendError" -> @ + 1
                                      [] outcome = "buildError" -> @]
                /\ Push(asked)
                /\ UNCHANGED <<state, sock, active, suspended>>
        /\ UNCHANGED <<creds, activateAt, tmpl, unauthorizedCount, gaveUp, rx,
                       running, shutdown, ctl, inbox, apiVars, clock>>

-----------------------------------------------------------------------------
(* The control thread.                                                     *)

NoUpdate == [client |-> NoClient, failed |-> FALSE, creds |-> NoCreds]
Waiting == [pc |-> "pop", attempt |-> 0, update |-> NoUpdate]

\* The request at hand goes on with the credentials cr, is tried once more, or
\* is given up (the catch block of controlLoop).
Proceed(pc, cr) ==
    ctl' = [pc |-> pc, attempt |-> ctl.attempt,
            update |-> [client |-> ctl.update.client, failed |-> FALSE, creds |-> cr]]
Retry == ctl' = [pc |-> "assign", attempt |-> ctl.attempt + 1, update |-> ctl.update]
GiveUp ==
    ctl' = [pc |-> "post", attempt |-> ctl.attempt,
            update |-> [client |-> ctl.update.client, failed |-> TRUE,
                        creds |-> ctl.update.creds]]

\* ControlQueue::pop hands out the oldest request, after shutdown too.
Pop ==
    /\ ctl.pc = "pop"
    /\ queue # <<>>
    /\ queue' = Tail(queue)
    /\ LET r == Head(queue)
       IN  ctl' = [pc |-> IF r.kind = "REFRESH" THEN "refresh" ELSE "assign",
                   attempt |-> 1,
                   update |-> [client |-> r.client, failed |-> FALSE, creds |-> r.creds]]
    /\ UNCHANGED <<clientVars, rx, running, shutdown, inbox, apiVars, clock, pushed>>

\* pop returns false once the queue is shut down and drained.
SlipPopShutdown == FALSE /\ UNCHANGED vars
PopShutdown ==
    /\ ctl.pc = "pop"
    /\ queue = <<>> /\ shutdown
    /\ ctl' = [ctl EXCEPT !.pc = "done"]
    /\ UNCHANGED <<clientVars, rx, running, queue, shutdown, inbox, apiVars, clock, pushed>>

\* Provisioner::refreshToken: a fresh token, which the API either authorized
\* on the server the client is on (`kept') or nowhere.
RefreshToken(kept) ==
    LET srv == ctl.update.creds.server
    IN  /\ ctl.pc = "refresh"
        /\ tokens' = tokens + 1
        /\ IF kept
           THEN /\ installed' = installed \union {<<tokens + 1, srv>>}
                /\ issued' = issued + 1
                /\ Proceed("post", [token |-> tokens + 1, server |-> srv,
                                    readyAt |-> issued + 1])
           ELSE /\ Proceed("assign", [ctl.update.creds EXCEPT !.token = tokens + 1])
                /\ UNCHANGED <<installed, issued>>
        /\ UNCHANGED <<clientVars, rx, running, queue, shutdown, inbox, clock, pushed>>

\* The refresh threw: the request has failed.
RefreshFails ==
    /\ ctl.pc = "refresh"
    /\ GiveUp
    /\ UNCHANGED <<clientVars, rx, running, queue, shutdown, inbox, apiVars, clock, pushed>>

\* Provisioner::assignServer: the API places the token on a server.
AssignServer(s) ==
    /\ ctl.pc = "assign"
    /\ installed' = installed \union {<<ctl.update.creds.token, s>>}
    /\ issued' = issued + 1
    /\ Proceed("post", [token |-> ctl.update.creds.token, server |-> s,
                        readyAt |-> issued + 1])
    /\ UNCHANGED <<clientVars, rx, running, queue, shutdown, inbox, tokens, clock, pushed>>

\* A placement that throws is retried, up to MaxAttempts or the shutdown.
SlipAssignFails ==
    /\ ctl.pc = "assign"
    /\ IF shutdown THEN GiveUp ELSE ctl' = [ctl EXCEPT !.attempt = (@ % MaxAttempts) + 1]
    /\ UNCHANGED <<clientVars, rx, running, queue, shutdown, inbox, apiVars, clock, pushed>>
AssignFails ==
    /\ ctl.pc = "assign"
    /\ IF ctl.attempt >= MaxAttempts \/ shutdown THEN GiveUp ELSE Retry
    /\ UNCHANGED <<clientVars, rx, running, queue, shutdown, inbox, apiVars, clock, pushed>>

\* Worker::postUpdate: the answer, success or failure, goes to the inbox.
PostUpdate ==
    /\ ctl.pc = "post"
    /\ Deliver(ctl.update)
    /\ ctl' = Waiting
    /\ UNCHANGED <<clientVars, rx, running, queue, shutdown, apiVars, clock, pushed>>

-----------------------------------------------------------------------------
(* Harness::stop, and the passing of time.                                 *)

\* Worker::stop joins a worker at the end of a loop iteration.
StopWorker(w) ==
    /\ running[w] /\ rx[w] = NoClient
    /\ running' = [running EXCEPT ![w] = FALSE]
    /\ UNCHANGED <<clientVars, rx, controlVars, apiVars, clock, pushed>>

\* The queue is shut down only after every worker has been joined.
ShutdownQueue ==
    /\ \A w \in Worker : ~running[w]
    /\ ~shutdown
    /\ shutdown' = TRUE
    /\ UNCHANGED <<clientVars, rx, running, queue, ctl, inbox, apiVars, clock, pushed>>

\* The next deadline passes.
Tick ==
    /\ clock < issued
    /\ clock' = clock + 1
    /\ UNCHANGED <<clientVars, rx, running, controlVars, apiVars, pushed>>

\* Everything is joined.
Stopped ==
    /\ ctl.pc = "done"
    /\ UNCHANGED vars

-----------------------------------------------------------------------------
Init ==
    /\ state = [c \in Client |-> "NONE"]
    /\ creds = [c \in Client |-> NoCreds]
    /\ activateAt = [c \in Client |-> 0]
    /\ sock = [c \in Client |-> NoServer]
    /\ tmpl = [c \in Client |-> 0]
    /\ refreshRequested = [c \in Client |-> FALSE]
    /\ unauthorizedCount = [c \in Client |-> 0]
    /\ sendErrors = [c \in Client |-> 0]
    /\ gaveUp = [c \in Client |-> FALSE]
    /\ active = 0 /\ suspended = 0
    /\ rx = [w \in Worker |-> NoClient]
    /\ running = [w \in Worker |-> TRUE]
    /\ queue = <<>> /\ shutdown = FALSE
    /\ ctl = Waiting
    /\ inbox = [w \in Worker |-> <<>>]
    /\ installed = {} /\ tokens = 0 /\ issued = 0
    /\ clock = 0 /\ pushed = 0

WorkerStep(w) == ApplyPendingClients(w) \/ ApplyPendingUpdates(w) \/ EndDatagram(w)
              \/ StopWorker(w)

ClientStep(c) ==
    \/ \E s \in Server : AddClient(c, s)
    \/ \E opened \in BOOLEAN : ActivateDueClient(c, opened)
    \/ BeginDatagram(c)
    \/ HandleTokenError(c)
    \/ HandleUnauthorized(c)
    \/ HandleReconnect(c)
    \/ RxSilent(c)
    \/ \E expiring \in BOOLEAN, outcome \in Outcomes : SendDueUpdate(c, expiring, outcome)

ControlStep ==
    \/ Pop \/ PopShutdown
    \/ \E kept \in BOOLEAN : RefreshToken(kept)
    \/ RefreshFails
    \/ \E s \in Server : AssignServer(s)
    \/ AssignFails
    \/ PostUpdate

Next ==
    \/ \E w \in Worker : WorkerStep(w)
    \/ \E c \in Client : ClientStep(c)
    \/ ControlStep
    \/ ShutdownQueue
    \/ Tick
    \/ Stopped

Spec == Init /\ [][Next]_vars

\* Every thread keeps running and time passes.  A worker's loop serves its
\* inboxes and its due clients once per iteration, in between datagrams,
\* hence strong fairness; nothing obliges a client to send, a Buddy to
\* answer or anybody to stop the run.
FairSpec ==
    /\ Spec
    /\ WF_vars(ControlStep) /\ WF_vars(ShutdownQueue) /\ WF_vars(Tick)
    /\ \A w \in Worker : /\ WF_vars(EndDatagram(w))
                         /\ SF_vars(ApplyPendingClients(w))
                         /\ SF_vars(ApplyPendingUpdates(w))
    /\ \A c \in Client : SF_vars(\E opened \in BOOLEAN : ActivateDueClient(c, opened))

-----------------------------------------------------------------------------
(* Properties.                                                             *)

\* Requests of client c that have not been answered: queued, in the control
\* thread's hands, or answered in an inbox the worker has not read.
Has(seq, c) == \E i \in DOMAIN seq : seq[i].client = c
Queued(c) == Has(queue, c)
InHand(c) == ctl.update.client = c
Posted(c) == Has(inbox[WorkerOf[c]], c)
Outstanding(c) == Queued(c) \/ InHand(c) \/ Posted(c)

\* The control thread between requests, and at work on one.
ControlFree == [pc : {"pop", "done"}, attempt : {0}, update : {NoUpdate}]
ControlBusy == [pc : {"refresh", "assign", "post"}, attempt : 1 .. MaxAttempts,
                update : Update]

ClientTypeOK ==
    /\ state \in [Client -> States]
    /\ creds \in [Client -> Creds]
    /\ activateAt \in [Client -> Nat]
    /\ sock \in [Client -> Server \union {NoServer}]
    /\ tmpl \in [Client -> Nat]
    /\ refreshRequested \in [Client -> BOOLEAN]
    /\ gaveUp \in [Client -> BOOLEAN]

CounterTypeOK ==
    /\ unauthorizedCount \in [Client -> 0 .. UnauthLimit - 1]
    /\ sendErrors \in [Client -> 0 .. SendErrorLimit - 1]
    /\ active \in Int /\ suspended \in Int
    /\ pushed \in 0 .. MaxRequests

ControlTypeOK ==
    /\ queue \in Seq(Request) /\ shutdown \in BOOLEAN
    /\ ctl \in ControlFree \union ControlBusy
    /\ inbox \in [Worker -> Seq(Update)]
    /\ rx \in [Worker -> Client \union {NoClient}]
    /\ running \in [Worker -> BOOLEAN]

ApiTypeOK ==
    /\ installed \in SUBSET (Nat \X (Server \union {NoServer}))
    /\ tokens \in Nat /\ issued \in Nat /\ clock \in Nat

\* Every variable has its type: the counters stay below the limits at which
\* the handlers reset them, and the control thread is either free or at work
\* on a well-formed request.
TypeOK == ClientTypeOK /\ CounterTypeOK /\ ControlTypeOK /\ ApiTypeOK

\* suspendClient, applyPendingUpdates and activateDueClients move the two
\* gauges by hand on every path; /status derives `waiting' from them.  They
\* are exactly the numbers of ACTIVE and SUSPENDED clients.
GaugesExact ==
    /\ active = Cardinality({c \in Client : state[c] = "ACTIVE"})
    /\ suspended = Cardinality({c \in Client : state[c] = "SUSPENDED"})

\* A SUSPENDED client is never forgotten: a request of its own is still in
\* the pipeline, or the control thread's last answer was that it gave up.
NoOrphan ==
    \A c \in Client : state[c] = "SUSPENDED" => Outstanding(c) \/ gaveUp[c]

\* What an ACTIVE client puts on the wire is a session the API installed: the
\* token in the message template, on the server the socket is connected to
\* (a Buddy drops packets of a token it was never told about silently).
WireSessionInstalled ==
    \A c \in Client :
        state[c] = "ACTIVE" => /\ <<tmpl[c], sock[c]>> \in installed
                               /\ tmpl[c] = creds[c].token
                               /\ sock[c] = creds[c].server

\* Only an ACTIVE client holds a socket: every way out of ACTIVE closes it.
SocketOnlyActive ==
    \A c \in Client : sock[c] # NoServer => state[c] = "ACTIVE"

\* No client sends before the session it is on has settled (udpReadyAt),
\* although a fresh assignment may arrive while it is sending.
SettleRespected ==
    \A c \in Client : state[c] = "ACTIVE" => creds[c].readyAt <= clock

\* An assignment never replaces a later one: the answers reach a client in
\* the order in which the control thread obtained them.
AssignmentsInOrder ==
    [][\A c \in Client : creds'[c].readyAt >= creds[c].readyAt]_vars

\* A SUSPENDED client resumes, or is told that control gave up, unless its
\* worker is stopped first: no answer is lost and no retry goes on forever.
SuspensionEnds ==
    \A c \in Client :
        (state[c] = "SUSPENDED") ~> \/ state[c] # "SUSPENDED"
                                   \/ gaveUp[c]
                                   \/ ~running[WorkerOf[c]]

\* A client handed to a worker becomes ACTIVE or fails to open its socket:
\* no update that arrives meanwhile keeps postponing it forever.
WaitingEnds ==
    \A c \in Client :
        (state[c] \in {"PENDING", "WAITING"}) ~> \/ state[c] \in {"ACTIVE", "SUSPENDED"}
                                                \/ ~running[WorkerOf[c]]

\* Once the workers are joined, Harness::stop gets past the control thread:
\* the queue is shut down, drained, and pop returns false.
StopCompletes ==
    (\A w \in Worker : ~running[w]) ~> (ctl.pc = "done")

\* What ClientSession sees of a client: what it is doing, and the answers it
\* has coming from the queue, the control thread and its worker's inbox.
Phase(st) == CASE st \in {"NONE", "PENDING"} -> "off"
               [] st = "WAITING" -> "waiting"
               [] st = "ACTIVE" -> "active"
               [] st = "SUSPENDED" -> "suspended"
CountOf(seq, c) == Cardinality({i \in DOMAIN seq : seq[i].client = c})
Owed(c) == CountOf(queue, c) + CountOf(<<ctl.update>>, c) + CountOf(inbox[WorkerOf[c]], c)

phaseOf == [c \in Client |-> Phase(state[c])]
owedTo == [c \in Client |-> Owed(c)]

Abstract == INSTANCE ClientSession WITH phase <- phaseOf, owed <- owedTo, refused <- gaveUp

\* Every SessionControl behaviour is a ClientSession behaviour: the queue, the
\* control thread and the inboxes together answer each request exactly once.
ImplementsClientSession == Abstract!SessionSpec

-----------------------------------------------------------------------------
(* What comments of the code say and its behaviours contradict.            *)

\* Worker.hpp, on ClientUpdate::failed: "control gave up; suspend the client
\* permanently".
FailedMeansSuspended ==
    [][\A w \in Worker :
          ApplyPendingUpdates(w) /\ Head(inbox[w]).failed
              => state'[Head(inbox[w]).client] = "SUSPENDED"]_vars

\* SimClient.hpp, on refreshRequested: "Set when a refresh request is in
\* flight so we only ask once".  Stated for a client that is sending.
RefreshFlagMeansInFlight ==
    \A c \in Client : refreshRequested[c] /\ state[c] = "ACTIVE" => Outstanding(c)

\* Worker.cpp, at the token errors: "One request per client at a time."
OneRequestAtATime ==
    \A c \in Client :
        /\ ~(Queued(c) /\ InHand(c)) /\ ~(Queued(c) /\ Posted(c))
        /\ ~(InHand(c) /\ Posted(c))
        /\ \A i, j \in DOMAIN queue : queue[i].client = c /\ queue[j].client = c => i = j

\* SimClient.hpp, on unauthorizedCount: "Accumulated UNAUTHORIZED replies
\* since the last (re)assignment".
CountSinceAssignment ==
    [][\A c \in Client :
          state[c] = "WAITING" /\ state'[c] = "ACTIVE" => unauthorizedCount'[c] = 0]_vars
=============================================================================
