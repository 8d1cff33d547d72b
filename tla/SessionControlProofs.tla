------------------------ MODULE SessionControlProofs ------------------------
(***************************************************************************)
(* Theorems about SessionControl, for every set of clients, workers and    *)
(* servers and every value of the limits.                                  *)
(***************************************************************************)
EXTENDS SessionControl, FiniteSetTheorems, TLAPS

-----------------------------------------------------------------------------
(* What suspendClient may do to the state.                                 *)

\* suspendClient keeps the types of everything it touches.
LEMMA SuspendTypes ==
    ASSUME TypeOK,
           NEW c \in Client, NEW kind \in Kinds, NEW before \in Seq(Request),
           Room(Len(before)), SuspendClient(c, kind, before)
    PROVE  /\ state' \in [Client -> States]
           /\ sock' \in [Client -> Server \union {NoServer}]
           /\ active' \in Int /\ suspended' \in Int
           /\ queue' \in Seq(Request)
           /\ pushed' \in 0 .. MaxRequests
  <1> USE DEF TypeOK
  <1>1. Asking(c, kind) \in Request
    BY DEF ClientTypeOK, Asking, Request
  <1>2. CASE AlreadySuspended(c)
    <2>1. Push(before) /\ UNCHANGED <<state, sock, active, suspended>>
      BY <1>2 DEF SuspendClient
    <2>2. queue' \in Seq(Request)
      BY <2>1 DEF Push, ControlTypeOK
    <2>3. pushed' \in 0 .. MaxRequests
      BY <2>1, ConstantsAssumption DEF Push, Room, CounterTypeOK
    <2>4. QED
      BY <2>1, <2>2, <2>3 DEF ClientTypeOK, CounterTypeOK
  <1>3. CASE ~AlreadySuspended(c)
    <2> DEFINE reqs == before \o <<Asking(c, kind)>>
    <2>1. reqs \in Seq(Request) /\ Len(reqs) = Len(before) + 1
      BY <1>1
    <2>2. Push(reqs) /\ Room(Len(before) + 1)
      BY <1>3 DEF SuspendClient
    <2> HIDE DEF reqs
    <2>3. queue' \in Seq(Request)
      BY <2>1, <2>2 DEF Push, ControlTypeOK
    <2>4. pushed' \in 0 .. MaxRequests
      BY <2>1, <2>2, ConstantsAssumption DEF Push, Room, CounterTypeOK
    <2>5. sock' \in [Client -> Server \union {NoServer}] /\ state' \in [Client -> States]
      BY <1>3 DEF SuspendClient, CloseSocket, ClientTypeOK, States
    <2>6. active' \in Int /\ suspended' \in Int
      BY <1>3 DEF SuspendClient, LeaveActive, CounterTypeOK
    <2>7. QED
      BY <2>3, <2>4, <2>5, <2>6
  <1>4. QED
    BY <1>2, <1>3

-----------------------------------------------------------------------------
(* Type correctness.                                                       *)

\* The actions of the control thread, of Harness::stop and of time keep the
\* types.
LEMMA ControlTypes ==
    ASSUME TypeOK, ControlStep \/ ShutdownQueue \/ Tick \/ Stopped \/ UNCHANGED vars
    PROVE  TypeOK'
  <1> USE ConstantsAssumption DEF TypeOK
  <1>1. ASSUME UNCHANGED <<clientVars, pushed>>
        PROVE  ClientTypeOK' /\ CounterTypeOK'
    BY <1>1 DEF clientVars, ClientTypeOK, CounterTypeOK
  <1>2. ASSUME UNCHANGED <<apiVars, clock>> PROVE ApiTypeOK'
    BY <1>2 DEF apiVars, ApiTypeOK
  <1>3. CASE Pop
    <2>1. Head(queue) \in Request /\ queue' \in Seq(Request)
      BY <1>3 DEF Pop, ControlTypeOK
    <2>2. ctl' \in ControlBusy
      BY <1>3, <2>1 DEF Pop, Request, ControlBusy, Update
    <2>3. ControlTypeOK'
      BY <1>3, <2>1, <2>2 DEF Pop, ControlTypeOK
    <2>4. QED
      BY <1>1, <1>2, <1>3, <2>3 DEF Pop
  <1>4. CASE PopShutdown
    <2>1. ctl' \in ControlFree
      BY <1>4 DEF PopShutdown, ControlTypeOK, ControlFree, ControlBusy
    <2>2. QED
      BY <1>1, <1>2, <1>4, <2>1 DEF PopShutdown, ControlTypeOK
  <1>5. ASSUME NEW kept \in BOOLEAN, RefreshToken(kept) PROVE TypeOK'
    <2>1. ctl \in ControlBusy
      BY <1>5 DEF RefreshToken, ControlTypeOK, ControlFree
    <2>2. ctl.update.creds \in Creds
      BY <2>1 DEF ControlBusy, Update
    <2>3. ctl' \in ControlBusy
      <3>1. ASSUME NEW cr \in Creds, NEW pc \in {"assign", "post"}, Proceed(pc, cr)
            PROVE  ctl' \in ControlBusy
        BY <2>1, <3>1 DEF Proceed, ControlBusy, Update
      <3>2. [token |-> tokens + 1, server |-> ctl.update.creds.server,
             readyAt |-> issued + 1] \in Creds
        BY <2>2 DEF ApiTypeOK, Creds
      <3>3. [ctl.update.creds EXCEPT !.token = tokens + 1] \in Creds
        BY <2>2 DEF ApiTypeOK, Creds
      <3>4. QED
        BY <1>5, <3>1, <3>2, <3>3 DEF RefreshToken
    <2>4. ApiTypeOK'
      BY <1>5, <2>2 DEF RefreshToken, ApiTypeOK, Creds
    <2>5. QED
      BY <1>1, <1>5, <2>3, <2>4 DEF RefreshToken, ControlTypeOK
  <1>6. CASE RefreshFails
    <2>1. ctl' \in ControlBusy
      BY <1>6 DEF RefreshFails, GiveUp, ControlTypeOK, ControlFree, ControlBusy, Update
    <2>2. QED
      BY <1>1, <1>2, <1>6, <2>1 DEF RefreshFails, ControlTypeOK
  <1>7. ASSUME NEW s \in Server, AssignServer(s) PROVE TypeOK'
    <2>1. ctl \in ControlBusy
      BY <1>7 DEF AssignServer, ControlTypeOK, ControlFree
    <2>2. ctl.update.creds \in Creds
      BY <2>1 DEF ControlBusy, Update
    <2>3. ctl' \in ControlBusy
      BY <1>7, <2>1, <2>2
      DEF AssignServer, Proceed, ApiTypeOK, ControlBusy, Update, Creds
    <2>4. ApiTypeOK'
      BY <1>7, <2>2 DEF AssignServer, ApiTypeOK, Creds
    <2>5. QED
      BY <1>1, <1>7, <2>3, <2>4 DEF AssignServer, ControlTypeOK
  <1>8. CASE AssignFails
    <2>1. ctl \in ControlBusy
      BY <1>8 DEF AssignFails, ControlTypeOK, ControlFree
    <2>2. GiveUp => ctl' \in ControlBusy
      BY <2>1 DEF GiveUp, ControlBusy, Update
    <2>3. ctl.attempt < MaxAttempts /\ Retry => ctl' \in ControlBusy
      BY <2>1 DEF Retry, ControlBusy
    <2>4. ctl' \in ControlBusy
      BY <1>8, <2>1, <2>2, <2>3 DEF AssignFails, ControlBusy
    <2>5. QED
      BY <1>1, <1>2, <1>8, <2>4 DEF AssignFails, ControlTypeOK
  <1>9. CASE PostUpdate
    <2>1. ctl.update \in Update
      BY <1>9 DEF PostUpdate, ControlTypeOK, ControlFree, ControlBusy
    <2> DEFINE w == WorkerOf[ctl.update.client]
    <2>11. ctl.update.client \in Client
      BY <2>1 DEF Update
    <2>12. w \in Worker /\ inbox[w] \in Seq(Update)
      BY <2>11 DEF ControlTypeOK
    <2>2. w \in Worker /\ Append(inbox[w], ctl.update) \in Seq(Update)
      BY <2>1, <2>12
    <2>3. inbox' \in [Worker -> Seq(Update)]
      BY <1>9, <2>2 DEF PostUpdate, Deliver, ControlTypeOK
    <2>4. ctl' \in ControlFree
      BY <1>9 DEF PostUpdate, ControlFree, Waiting
    <2>5. QED
      BY <1>1, <1>2, <1>9, <2>3, <2>4 DEF PostUpdate, ControlTypeOK
  <1>10. CASE ShutdownQueue
    BY <1>1, <1>2, <1>10 DEF ShutdownQueue, ControlTypeOK
  <1>11. CASE Tick
    BY <1>1, <1>11 DEF Tick, ControlTypeOK, ApiTypeOK, controlVars, apiVars
  <1>12. CASE Stopped \/ UNCHANGED vars
    BY <1>1, <1>2, <1>12 DEF Stopped, vars, ControlTypeOK, controlVars
  <1>13. QED
    BY <1>3, <1>4, <1>5, <1>6, <1>7, <1>8, <1>9, <1>10, <1>11, <1>12 DEF ControlStep

\* So do the steps of the workers ...
LEMMA WorkerTypes ==
    ASSUME TypeOK, NEW w \in Worker, WorkerStep(w)
    PROVE  TypeOK'
  <1> USE ConstantsAssumption DEF TypeOK
  <1>1. CASE ApplyPendingClients(w)
    <2>1. state' \in [Client -> States]
      BY <1>1 DEF ApplyPendingClients, ClientTypeOK, States
    <2>2. QED
      BY <1>1, <2>1 DEF ApplyPendingClients, ClientTypeOK, CounterTypeOK,
         ControlTypeOK, ApiTypeOK, controlVars, apiVars
  <1>2. CASE ApplyPendingUpdates(w)
    <2> DEFINE u == Head(inbox[w])
    <2>1. u \in Update /\ inbox' \in [Worker -> Seq(Update)]
      BY <1>2 DEF ApplyPendingUpdates, ControlTypeOK
    <2>2. u.client \in Client /\ u.creds \in Creds /\ u.creds.token \in Nat
          /\ u.creds.readyAt \in Nat
      BY <2>1 DEF Update, Creds
    <2>3. ControlTypeOK' /\ ApiTypeOK'
      BY <1>2, <2>1 DEF ApplyPendingUpdates, ControlTypeOK, ApiTypeOK, apiVars
    <2> HIDE DEF u
    <2>4. CASE u.failed
      <3>1. gaveUp' \in [Client -> BOOLEAN]
        BY <1>2, <2>2, <2>4 DEF ApplyPendingUpdates, ClientTypeOK, u
      <3>2. UNCHANGED <<state, creds, activateAt, sock, tmpl, refreshRequested,
                        active, suspended, unauthorizedCount, sendErrors, pushed>>
        BY <1>2, <2>4 DEF ApplyPendingUpdates, u
      <3>3. QED
        BY <2>3, <3>1, <3>2 DEF ClientTypeOK, CounterTypeOK
    <2>5. CASE ~u.failed
      <3>1. /\ creds' = [creds EXCEPT ![u.client] = u.creds]
            /\ refreshRequested' = [refreshRequested EXCEPT ![u.client] = FALSE]
            /\ gaveUp' = [gaveUp EXCEPT ![u.client] = FALSE]
            /\ RebuildTemplate(u.client, u.creds.token)
            /\ UNCHANGED <<unauthorizedCount, sendErrors, pushed>>
        BY <1>2, <2>5 DEF ApplyPendingUpdates, u
      <3>2. /\ \/ sock' = sock \/ sock' = [sock EXCEPT ![u.client] = NoServer]
            /\ \/ state' = state \/ state' = [state EXCEPT ![u.client] = "WAITING"]
            /\ \/ activateAt' = activateAt
               \/ activateAt' = [activateAt EXCEPT ![u.client] = u.creds.readyAt]
            /\ active' \in {active, active - 1}
            /\ suspended' \in {suspended, suspended - 1}
        BY <1>2, <2>5 DEF ApplyPendingUpdates, CloseSocket, LeaveActive, u
      <3>3. /\ creds' \in [Client -> Creds]
            /\ refreshRequested' \in [Client -> BOOLEAN]
            /\ gaveUp' \in [Client -> BOOLEAN]
        BY <2>2, <3>1 DEF ClientTypeOK
      <3>4. tmpl' \in [Client -> Nat] /\ activateAt' \in [Client -> Nat]
        BY <2>2, <3>1, <3>2 DEF ClientTypeOK, RebuildTemplate
      <3>5. sock' \in [Client -> Server \union {NoServer}] /\ state' \in [Client -> States]
        BY <2>2, <3>2 DEF ClientTypeOK, States
      <3>6. CounterTypeOK'
        BY <3>1, <3>2 DEF CounterTypeOK
      <3>7. QED
        BY <2>3, <3>3, <3>4, <3>5, <3>6 DEF ClientTypeOK
    <2>6. QED
      BY <2>4, <2>5
  <1>3. CASE EndDatagram(w)
    BY <1>3 DEF EndDatagram, ClientTypeOK, CounterTypeOK, ControlTypeOK, ApiTypeOK,
       clientVars, controlVars, apiVars
  <1>4. CASE StopWorker(w)
    BY <1>4 DEF StopWorker, ClientTypeOK, CounterTypeOK, ControlTypeOK, ApiTypeOK,
       clientVars, controlVars, apiVars
  <1>5. QED
    BY <1>1, <1>2, <1>3, <1>4 DEF WorkerStep

\* ... and the operations on one client.
LEMMA ClientTypes ==
    ASSUME TypeOK, NEW c \in Client, ClientStep(c)
    PROVE  TypeOK'
  <1> USE ConstantsAssumption DEF TypeOK
  <1>1. Room(Len(<<>>))
    BY DEF Room, CounterTypeOK
  <1>2. ASSUME UNCHANGED <<rx, running, shutdown, ctl, inbox, apiVars, clock>>,
               queue' \in Seq(Request)
        PROVE  ControlTypeOK' /\ ApiTypeOK'
    BY <1>2 DEF ControlTypeOK, ApiTypeOK, apiVars
  <1>3. ASSUME NEW kind \in Kinds, SuspendClient(c, kind, <<>>)
        PROVE  /\ state' \in [Client -> States]
               /\ sock' \in [Client -> Server \union {NoServer}]
               /\ active' \in Int /\ suspended' \in Int
               /\ queue' \in Seq(Request)
               /\ pushed' \in 0 .. MaxRequests
    <2>1. <<>> \in Seq(Request)
      OBVIOUS
    <2>2. QED
      BY <1>1, <1>3, <2>1, SuspendTypes
  <1>4. ASSUME NEW s \in Server, AddClient(c, s) PROVE TypeOK'
    <2>1. creds' \in [Client -> Creds]
      BY <1>4 DEF AddClient, ClientTypeOK, ApiTypeOK, Creds
    <2>2. ApiTypeOK'
      BY <1>4 DEF AddClient, ApiTypeOK
    <2>3. ClientTypeOK'
      BY <1>4, <2>1 DEF AddClient, ClientTypeOK, ApiTypeOK, States
    <2>4. CounterTypeOK' /\ ControlTypeOK'
      BY <1>4 DEF AddClient, CounterTypeOK, ControlTypeOK, controlVars
    <2>5. QED
      BY <2>2, <2>3, <2>4
  <1>5. ASSUME NEW opened \in BOOLEAN, ActivateDueClient(c, opened) PROVE TypeOK'
    <2>1. tmpl' \in [Client -> Nat]
      BY <1>5 DEF ActivateDueClient, ClientTypeOK, Creds
    <2>2. CASE opened
      <3>1. creds[c].server \in Server \union {NoServer}
        BY DEF ClientTypeOK, Creds
      <3>2. ClientTypeOK'
        BY <1>5, <2>1, <2>2, <3>1 DEF ActivateDueClient, ClientTypeOK, States
      <3>3. CounterTypeOK'
        BY <1>5, <2>2 DEF ActivateDueClient, CounterTypeOK
      <3>4. ControlTypeOK' /\ ApiTypeOK'
        BY <1>2, <1>5, <2>2 DEF ActivateDueClient, ControlTypeOK
      <3>5. QED
        BY <3>2, <3>3, <3>4
    <2>3. CASE ~opened
      <3>1. SuspendClient(c, "REASSIGN", <<>>)
        BY <1>5, <2>3 DEF ActivateDueClient
      <3>2. QED
        BY <1>2, <1>3, <1>5, <2>1, <3>1
        DEF ActivateDueClient, ClientTypeOK, CounterTypeOK, Kinds
    <2>4. QED
      BY <2>2, <2>3
  <1>6. CASE BeginDatagram(c)
    BY <1>6 DEF BeginDatagram, ClientTypeOK, CounterTypeOK, ControlTypeOK,
       ApiTypeOK, clientVars, controlVars, apiVars
  <1>7. CASE HandleTokenError(c)
    BY <1>2, <1>3, <1>7 DEF HandleTokenError, ClientTypeOK, CounterTypeOK, Kinds
  <1>8. CASE HandleUnauthorized(c)
    <2>1. unauthorizedCount' \in [Client -> 0 .. UnauthLimit - 1]
      BY <1>8 DEF HandleUnauthorized, CounterTypeOK, Wedged
    <2>2. CASE Wedged(unauthorizedCount[c] + 1)
      <3>1. SuspendClient(c, "REASSIGN", <<>>)
        BY <1>8, <2>2 DEF HandleUnauthorized
      <3>2. QED
        BY <1>2, <1>3, <1>8, <2>1, <3>1
        DEF HandleUnauthorized, ClientTypeOK, CounterTypeOK, Kinds
    <2>3. CASE ~Wedged(unauthorizedCount[c] + 1)
      BY <1>2, <1>8, <2>1, <2>3
      DEF HandleUnauthorized, ClientTypeOK, CounterTypeOK, ControlTypeOK
    <2>4. QED
      BY <2>2, <2>3
  <1>9. CASE HandleReconnect(c)
    BY <1>2, <1>3, <1>9 DEF HandleReconnect, ClientTypeOK, CounterTypeOK, Kinds
  <1>10. CASE RxSilent(c)
    BY <1>2, <1>3, <1>10 DEF RxSilent, ClientTypeOK, CounterTypeOK, Kinds
  <1>11. ASSUME NEW expiring \in BOOLEAN, NEW outcome \in Outcomes,
                SendDueUpdate(c, expiring, outcome)
         PROVE  TypeOK'
    <2> DEFINE ask == expiring /\ ~refreshRequested[c]
               asked == IF ask THEN <<Asking(c, "REFRESH")>> ELSE <<>>
               fail == outcome = "sendError" /\ sendErrors[c] + 1 >= SendErrorLimit
    <2>1. Asking(c, "REFRESH") \in Request
      BY DEF ClientTypeOK, Asking, Request, Kinds
    <2>2. asked \in Seq(Request)
      BY <2>1
    <2>3. /\ Room(Len(asked))
          /\ refreshRequested' = [refreshRequested EXCEPT ![c] = @ \/ ask]
          /\ UNCHANGED <<creds, activateAt, tmpl, unauthorizedCount, gaveUp>>
          /\ UNCHANGED <<rx, running, shutdown, ctl, inbox, apiVars, clock>>
          /\ fail => SuspendClient(c, "REASSIGN", asked)
          /\ ~fail => Push(asked) /\ UNCHANGED <<state, sock, active, suspended>>
      BY <1>11 DEF SendDueUpdate
    <2>4. sendErrors' \in [Client -> 0 .. SendErrorLimit - 1]
      BY <1>11 DEF SendDueUpdate, CounterTypeOK, Outcomes
    <2>5. refreshRequested' \in [Client -> BOOLEAN]
      BY <2>3 DEF ClientTypeOK
    <2> HIDE DEF ask, asked, fail
    <2>6. CASE fail
      BY <1>2, <2>2, <2>3, <2>4, <2>5, <2>6, SuspendTypes
      DEF ClientTypeOK, CounterTypeOK, Kinds
    <2>7. CASE ~fail
      <3>1. queue' = queue \o asked /\ queue \in Seq(Request)
        BY <2>3, <2>7 DEF Push, ControlTypeOK
      <3>2. pushed' \in 0 .. MaxRequests
        BY <2>2, <2>3, <2>7 DEF Push, Room, CounterTypeOK
      <3>3. queue' \in Seq(Request)
        BY <2>2, <3>1
      <3>4. QED
        BY <1>2, <2>3, <2>4, <2>5, <2>7, <3>2, <3>3 DEF ClientTypeOK, CounterTypeOK
    <2>8. QED
      BY <2>6, <2>7
  <1>12. QED
    BY <1>4, <1>5, <1>6, <1>7, <1>8, <1>9, <1>10, <1>11 DEF ClientStep

\* Every step keeps every variable in its type: in particular the counters
\* stay below the limits at which the handlers reset them, and the control
\* thread is either free or at work on a well-formed request.
THEOREM TypeCorrect == Spec => []TypeOK
  <1>1. Init => TypeOK
    <2> SUFFICES ASSUME Init PROVE TypeOK
      OBVIOUS
    <2>1. NoCreds \in Creds
      BY DEF NoCreds, Creds
    <2>2. ClientTypeOK
      BY <2>1 DEF Init, ClientTypeOK, States
    <2>3. CounterTypeOK
      BY ConstantsAssumption DEF Init, CounterTypeOK
    <2>4. ControlTypeOK
      <3>1. ctl \in ControlFree
        BY DEF Init, ControlFree, Waiting
      <3>2. <<>> \in Seq(Request) /\ <<>> \in Seq(Update)
        OBVIOUS
      <3>3. QED
        BY <3>1, <3>2 DEF Init, ControlTypeOK
    <2>5. ApiTypeOK
      BY DEF Init, ApiTypeOK
    <2>6. QED
      BY <2>2, <2>3, <2>4, <2>5 DEF TypeOK
  <1>2. TypeOK /\ [Next]_vars => TypeOK'
    BY ControlTypes, WorkerTypes, ClientTypes DEF Next
  <1>3. QED
    BY <1>1, <1>2, PTL DEF Spec

-----------------------------------------------------------------------------
(* A client's request stays in the pipeline.                               *)

\* Appending a sequence adds the clients of that sequence and loses none.
LEMMA HasConcat ==
    ASSUME NEW R, NEW s \in Seq(R), NEW t \in Seq(R), NEW c
    PROVE  Has(s \o t, c) <=> Has(s, c) \/ Has(t, c)
  <1>1. Has(s, c) => Has(s \o t, c)
    BY DEF Has
  <1>2. ASSUME Has(t, c) PROVE Has(s \o t, c)
    <2>1. PICK i \in DOMAIN t : t[i].client = c
      BY <1>2 DEF Has
    <2>2. i + Len(s) \in DOMAIN (s \o t) /\ (s \o t)[i + Len(s)] = t[i]
      OBVIOUS
    <2>3. QED
      BY <2>1, <2>2 DEF Has
  <1>3. ASSUME Has(s \o t, c) PROVE Has(s, c) \/ Has(t, c)
    <2>1. PICK i \in DOMAIN (s \o t) : (s \o t)[i].client = c
      BY <1>3 DEF Has
    <2>2. CASE i <= Len(s)
      BY <2>1, <2>2 DEF Has
    <2>3. CASE i > Len(s)
      <3>1. i - Len(s) \in DOMAIN t /\ (s \o t)[i] = t[i - Len(s)]
        BY <2>3
      <3>2. QED
        BY <2>1, <3>1 DEF Has
    <2>4. QED
      BY <2>2, <2>3
  <1>4. QED
    BY <1>1, <1>2, <1>3

\* Taking the head loses no other client and adds none.
LEMMA HasTail ==
    ASSUME NEW R, NEW s \in Seq(R), s # <<>>, NEW c
    PROVE  Has(s, c) <=> Head(s).client = c \/ Has(Tail(s), c)
  <1>1. ASSUME Has(s, c) PROVE Head(s).client = c \/ Has(Tail(s), c)
    <2>1. PICK i \in DOMAIN s : s[i].client = c
      BY <1>1 DEF Has
    <2>2. CASE i = 1
      BY <2>1, <2>2
    <2>3. CASE i # 1
      <3>1. i - 1 \in DOMAIN Tail(s) /\ Tail(s)[i - 1] = s[i]
        BY <2>3
      <3>2. QED
        BY <2>1, <3>1 DEF Has
    <2>4. QED
      BY <2>2, <2>3
  <1>2. Head(s).client = c => Has(s, c)
    <2>1. 1 \in DOMAIN s /\ s[1] = Head(s)
      OBVIOUS
    <2>2. QED
      BY <2>1 DEF Has
  <1>3. ASSUME Has(Tail(s), c) PROVE Has(s, c)
    <2>1. PICK i \in DOMAIN Tail(s) : Tail(s)[i].client = c
      BY <1>3 DEF Has
    <2>2. i + 1 \in DOMAIN s /\ Tail(s)[i] = s[i + 1]
      OBVIOUS
    <2>3. QED
      BY <2>1, <2>2 DEF Has
  <1>4. QED
    BY <1>1, <1>2, <1>3

\* A sequence of one element has the client of that element.
LEMMA HasOne ==
    ASSUME NEW r, NEW c PROVE Has(<<r>>, c) <=> r.client = c
  BY DEF Has

\* Appending one element adds its client and loses none.
LEMMA HasAppend ==
    ASSUME NEW R, NEW s \in Seq(R), NEW r \in R, NEW c
    PROVE  Has(Append(s, r), c) <=> r.client = c \/ Has(s, c)
  <1>1. Append(s, r) = s \o <<r>> /\ <<r>> \in Seq(R)
    OBVIOUS
  <1>2. Has(s \o <<r>>, c) <=> Has(s, c) \/ Has(<<r>>, c)
    BY <1>1, HasConcat
  <1>3. QED
    BY <1>1, <1>2, HasOne

\* suspendClient leaves the client with a queued request, unless it was
\* SUSPENDED already, and takes nothing out of the queue.
LEMMA SuspendQueues ==
    ASSUME TypeOK,
           NEW c \in Client, NEW kind \in Kinds, NEW before \in Seq(Request),
           SuspendClient(c, kind, before)
    PROVE  /\ \A d \in Client : Has(queue, d) => Has(queue', d)
           /\ \A d \in Client : state'[d] = "SUSPENDED" /\ state[d] # "SUSPENDED"
                                  => Has(queue', d)
           /\ \A d \in Client : Has(queue', d) => Has(queue, d) \/ Has(before, d) \/ d = c
  <1>1. queue \in Seq(Request) /\ Asking(c, kind) \in Request /\ Asking(c, kind).client = c
    BY DEF TypeOK, ControlTypeOK, ClientTypeOK, Asking, Request
  <1>2. CASE AlreadySuspended(c)
    <2>1. queue' = queue \o before /\ state' = state
      BY <1>2 DEF SuspendClient, Push
    <2>2. QED
      BY <1>1, <2>1, HasConcat
  <1>3. CASE ~AlreadySuspended(c)
    <2> DEFINE reqs == before \o <<Asking(c, kind)>>
    <2>1. queue' = queue \o reqs /\ state' = [state EXCEPT ![c] = "SUSPENDED"]
      BY <1>3 DEF SuspendClient, Push
    <2>2. reqs \in Seq(Request) /\ <<Asking(c, kind)>> \in Seq(Request)
      BY <1>1
    <2>3. \A d \in Client : Has(<<Asking(c, kind)>>, d) <=> d = c
      BY <1>1, HasOne
    <2>4. \A d \in Client : Has(reqs, d) <=> Has(before, d) \/ d = c
      BY <2>2, <2>3, HasConcat
    <2> HIDE DEF reqs
    <2>5. \A d \in Client : Has(queue', d) <=> Has(queue, d) \/ Has(before, d) \/ d = c
      BY <1>1, <2>1, <2>2, <2>4, HasConcat
    <2>6. \A d \in Client : state'[d] = "SUSPENDED" /\ state[d] # "SUSPENDED" => d = c
      BY <2>1 DEF TypeOK, ClientTypeOK
    <2>7. QED
      BY <2>5, <2>6
  <1>4. QED
    BY <1>2, <1>3

\* No step forgets a SUSPENDED client: the request that parked it is handed
\* from the queue to the control thread to the inbox, and reading the answer
\* either resumes the client or records that control gave up.
THEOREM NoOrphanHolds == Spec => []NoOrphan
  <1>1. Init => NoOrphan
    BY DEF Init, NoOrphan
  <1>2. TypeOK /\ NoOrphan /\ [Next]_vars => NoOrphan'
    <2> SUFFICES ASSUME TypeOK, NoOrphan, [Next]_vars PROVE NoOrphan'
      OBVIOUS
    <2>1. ASSUME UNCHANGED <<ctl, inbox, gaveUp>>,
                 \A d \in Client : Has(queue, d) => Has(queue', d),
                 \A d \in Client : state'[d] = "SUSPENDED" /\ state[d] # "SUSPENDED"
                                     => Has(queue', d)
          PROVE  NoOrphan'
      BY <2>1 DEF NoOrphan, Outstanding, Queued, InHand, Posted
    <2>2. ASSUME NEW c \in Client, ClientStep(c) PROVE NoOrphan'
      <3>1. ASSUME NEW kind \in Kinds, SuspendClient(c, kind, <<>>),
                   UNCHANGED <<ctl, inbox, gaveUp>>
            PROVE  NoOrphan'
        <4>1. <<>> \in Seq(Request)
          OBVIOUS
        <4>2. QED
          BY <2>1, <3>1, <4>1, SuspendQueues
      <3>2. ASSUME NEW s \in Server, AddClient(c, s) PROVE NoOrphan'
        BY <2>1, <3>2 DEF AddClient, controlVars, TypeOK, ClientTypeOK
      <3>3. ASSUME NEW opened \in BOOLEAN, ActivateDueClient(c, opened)
            PROVE  NoOrphan'
        <4>1. CASE opened
          BY <2>1, <3>3, <4>1 DEF ActivateDueClient, TypeOK, ClientTypeOK
        <4>2. CASE ~opened
          BY <3>1, <3>3, <4>2 DEF ActivateDueClient, Kinds
        <4>3. QED
          BY <4>1, <4>2
      <3>4. CASE BeginDatagram(c)
        BY <2>1, <3>4 DEF BeginDatagram, clientVars, controlVars
      <3>5. CASE HandleTokenError(c)
        BY <3>1, <3>5 DEF HandleTokenError, Kinds
      <3>6. CASE HandleUnauthorized(c)
        <4>1. CASE Wedged(unauthorizedCount[c] + 1)
          BY <3>1, <3>6, <4>1 DEF HandleUnauthorized, Kinds
        <4>2. CASE ~Wedged(unauthorizedCount[c] + 1)
          BY <2>1, <3>6, <4>2 DEF HandleUnauthorized
        <4>3. QED
          BY <4>1, <4>2
      <3>7. CASE HandleReconnect(c)
        BY <3>1, <3>7 DEF HandleReconnect, Kinds
      <3>8. CASE RxSilent(c)
        BY <3>1, <3>8 DEF RxSilent, Kinds
      <3>9. ASSUME NEW expiring \in BOOLEAN, NEW outcome \in Outcomes,
                   SendDueUpdate(c, expiring, outcome)
            PROVE  NoOrphan'
        <4> DEFINE ask == expiring /\ ~refreshRequested[c]
                   asked == IF ask THEN <<Asking(c, "REFRESH")>> ELSE <<>>
        <4>1. Asking(c, "REFRESH") \in Request
          BY DEF TypeOK, ClientTypeOK, Asking, Request, Kinds
        <4>2. asked \in Seq(Request) /\ queue \in Seq(Request)
          BY <4>1 DEF TypeOK, ControlTypeOK
        <4>3. /\ UNCHANGED <<ctl, inbox, gaveUp>>
              /\ \/ SuspendClient(c, "REASSIGN", asked)
                 \/ Push(asked) /\ state' = state
          BY <3>9 DEF SendDueUpdate
        <4> HIDE DEF asked
        <4>4. CASE SuspendClient(c, "REASSIGN", asked)
          BY <2>1, <4>2, <4>3, <4>4, SuspendQueues DEF Kinds
        <4>5. CASE Push(asked) /\ state' = state
          <5>1. queue' = queue \o asked
            BY <4>5 DEF Push
          <5>2. \A d \in Client : Has(queue, d) => Has(queue', d)
            BY <4>2, <5>1, HasConcat
          <5>3. QED
            BY <2>1, <4>3, <4>5, <5>2
        <4>6. QED
          BY <4>3, <4>4, <4>5
      <3>10. QED
        BY <2>2, <3>2, <3>3, <3>4, <3>5, <3>6, <3>7, <3>8, <3>9 DEF ClientStep
    <2>3. ASSUME NEW w \in Worker, WorkerStep(w) PROVE NoOrphan'
      <3>1. CASE ApplyPendingClients(w)
        BY <2>1, <3>1 DEF ApplyPendingClients, controlVars, TypeOK, ClientTypeOK
      <3>2. CASE EndDatagram(w) \/ StopWorker(w)
        BY <2>1, <3>2 DEF EndDatagram, StopWorker, clientVars, controlVars
      <3>3. CASE ApplyPendingUpdates(w)
        <4> DEFINE u == Head(inbox[w])
        <4>1. inbox[w] \in Seq(Update) /\ inbox[w] # <<>> /\ u \in Update
          BY <3>3 DEF ApplyPendingUpdates, TypeOK, ControlTypeOK
        <4>2. u.client \in Client
          BY <4>1 DEF Update
        <4>3. UNCHANGED <<queue, ctl>> /\ inbox' = [inbox EXCEPT ![w] = Tail(@)]
          BY <3>3 DEF ApplyPendingUpdates
        <4>4. ASSUME NEW d \in Client, d # u.client, Has(inbox[WorkerOf[d]], d)
              PROVE  Has(inbox'[WorkerOf[d]], d)
          <5>1. CASE WorkerOf[d] = w
            BY <4>1, <4>3, <4>4, <5>1, HasTail DEF TypeOK, ControlTypeOK
          <5>2. CASE WorkerOf[d] # w
            BY <4>3, <4>4, <5>2 DEF TypeOK, ControlTypeOK
          <5>3. QED
            BY <5>1, <5>2
        <4> HIDE DEF u
        <4>5. ASSUME NEW d \in Client, d # u.client
              PROVE  state'[d] = state[d] /\ gaveUp'[d] = gaveUp[d]
          BY <3>3, <4>2, <4>5 DEF ApplyPendingUpdates, TypeOK, ClientTypeOK, u
        <4>6. state'[u.client] = "SUSPENDED" => gaveUp'[u.client]
          <5>1. CASE u.failed
            BY <3>3, <4>2, <5>1 DEF ApplyPendingUpdates, TypeOK, ClientTypeOK, u
          <5>2. CASE ~u.failed
            BY <3>3, <4>2, <5>2 DEF ApplyPendingUpdates, TypeOK, ClientTypeOK, u
          <5>3. QED
            BY <5>1, <5>2
        <4>7. QED
          BY <4>3, <4>4, <4>5, <4>6 DEF NoOrphan, Outstanding, Queued, InHand, Posted
      <3>4. QED
        BY <2>3, <3>1, <3>2, <3>3 DEF WorkerStep
    <2>4. ASSUME UNCHANGED <<state, gaveUp>>,
                 \A d \in Client : Outstanding(d) => Outstanding(d)'
          PROVE  NoOrphan'
      BY <2>4 DEF NoOrphan
    <2>5. CASE ControlStep
      <3>1. CASE Pop
        <4>1. queue \in Seq(Request) /\ ctl \in ControlFree
          BY <3>1 DEF Pop, TypeOK, ControlTypeOK, ControlBusy
        <4>2. \A d \in Client : ~InHand(d)
          BY <4>1, ConstantsAssumption DEF InHand, ControlFree, NoUpdate
        <4>3. ctl'.update.client = Head(queue).client /\ queue' = Tail(queue)
              /\ queue # <<>> /\ inbox' = inbox
          BY <3>1 DEF Pop
        <4>4. \A d \in Client : Queued(d) => Queued(d)' \/ InHand(d)'
          BY <4>1, <4>3, HasTail DEF Queued, InHand
        <4>5. UNCHANGED <<state, gaveUp>>
          BY <3>1 DEF Pop, clientVars
        <4>6. QED
          BY <2>4, <4>2, <4>3, <4>4, <4>5 DEF Outstanding, Posted
      <3>2. ASSUME UNCHANGED <<clientVars, queue, inbox>>,
                   ctl'.update.client = ctl.update.client
            PROVE  NoOrphan'
        BY <2>4, <3>2 DEF clientVars, Outstanding, Queued, InHand, Posted
      <3>3. CASE PopShutdown
        BY <3>2, <3>3 DEF PopShutdown, TypeOK, ControlTypeOK, ControlFree, ControlBusy
      <3>4. ASSUME NEW kept \in BOOLEAN, RefreshToken(kept) PROVE NoOrphan'
        BY <3>2, <3>4 DEF RefreshToken, Proceed
      <3>5. CASE RefreshFails
        BY <3>2, <3>5 DEF RefreshFails, GiveUp
      <3>6. ASSUME NEW s \in Server, AssignServer(s) PROVE NoOrphan'
        BY <3>2, <3>6 DEF AssignServer, Proceed
      <3>7. CASE AssignFails
        BY <3>2, <3>7 DEF AssignFails, GiveUp, Retry
      <3>8. CASE PostUpdate
        <4>1. ctl.update \in Update
          BY <3>8 DEF PostUpdate, TypeOK, ControlTypeOK, ControlFree, ControlBusy
        <4>2. ctl.update.client \in Client
          BY <4>1 DEF Update
        <4> DEFINE w == WorkerOf[ctl.update.client]
        <4>3. w \in Worker /\ inbox[w] \in Seq(Update)
          BY <4>2, ConstantsAssumption DEF TypeOK, ControlTypeOK
        <4>4. inbox' = [inbox EXCEPT ![w] = Append(inbox[w], ctl.update)]
          BY <3>8 DEF PostUpdate, Deliver
        <4>5. \A d \in Client : InHand(d) \/ Posted(d) => Posted(d)'
          <5>1. ASSUME NEW d \in Client, WorkerOf[d] = w, InHand(d) \/ Posted(d)
                PROVE  Posted(d)'
            BY <4>1, <4>3, <4>4, <5>1, HasAppend DEF InHand, Posted, TypeOK, ControlTypeOK
          <5>2. ASSUME NEW d \in Client, WorkerOf[d] # w, InHand(d) \/ Posted(d)
                PROVE  Posted(d)'
            BY <4>3, <4>4, <5>2 DEF InHand, Posted, TypeOK, ControlTypeOK
          <5>3. QED
            BY <5>1, <5>2
        <4>6. UNCHANGED <<state, gaveUp, queue>>
          BY <3>8 DEF PostUpdate, clientVars
        <4>7. QED
          BY <2>4, <4>5, <4>6 DEF Outstanding, Queued
      <3>9. QED
        BY <2>5, <3>1, <3>3, <3>4, <3>5, <3>6, <3>7, <3>8 DEF ControlStep
    <2>6. CASE ShutdownQueue \/ Tick \/ Stopped \/ UNCHANGED vars
      <3>1. UNCHANGED <<state, gaveUp, queue, ctl, inbox>>
        BY <2>6 DEF ShutdownQueue, Tick, Stopped, vars, clientVars, controlVars
      <3>2. QED
        BY <2>4, <3>1 DEF Outstanding, Queued, InHand, Posted
    <2>7. QED
      BY <2>2, <2>3, <2>5, <2>6 DEF Next
  <1>3. QED
    BY <1>1, <1>2, TypeCorrect, PTL DEF Spec

-----------------------------------------------------------------------------
(* An active client is on a session that is installed, settled and its own. *)

Installed(cr) == <<cr.token, cr.server>> \in installed

\* What the update in a worker's inbox, or in the control thread's hands once
\* it is complete, brings: a session the API installed.
AnswersInstalled ==
    /\ ctl.pc = "post" /\ ~ctl.update.failed => Installed(ctl.update.creds)
    /\ \A w \in Worker : \A i \in DOMAIN inbox[w] :
          ~inbox[w][i].failed => Installed(inbox[w][i].creds)

\* Requests, answers and open datagrams exist only for clients that have been
\* added.
Involved(c) ==
    \/ Has(queue, c)
    \/ InHand(c)
    \/ \E w \in Worker : Has(inbox[w], c) \/ rx[w] = c

OnlyAddedAsk == \A c \in Client : Involved(c) => state[c] # "NONE"

\* What each client holds.
ClientHolds(c) ==
    /\ state[c] = "NONE" => tmpl[c] = 0
    /\ state[c] # "NONE" => Installed(creds[c])
    /\ tmpl[c] \in {0, creds[c].token}
    /\ state[c] # "ACTIVE" => sock[c] = NoServer
    /\ state[c] = "ACTIVE" => /\ tmpl[c] = creds[c].token
                              /\ sock[c] = creds[c].server
                              /\ creds[c].readyAt <= clock

SessionInv == AnswersInstalled /\ OnlyAddedAsk /\ \A c \in Client : ClientHolds(c)

\* suspendClient touches one client: if it was not SUSPENDED it now is, with its
\* socket closed.
LEMMA SuspendEffect ==
    ASSUME TypeOK,
           NEW c \in Client, NEW kind \in Kinds, NEW before,
           SuspendClient(c, kind, before)
    PROVE  /\ \A d \in Client \ {c} : state'[d] = state[d] /\ sock'[d] = sock[d]
           /\ state'[c] = "SUSPENDED"
           /\ state[c] = "SUSPENDED" => sock'[c] = sock[c]
           /\ state[c] # "SUSPENDED" => sock'[c] = NoServer
  <1>1. CASE AlreadySuspended(c)
    BY <1>1 DEF SuspendClient, AlreadySuspended
  <1>2. CASE ~AlreadySuspended(c)
    BY <1>2 DEF SuspendClient, AlreadySuspended, CloseSocket, TypeOK, ClientTypeOK
  <1>3. QED
    BY <1>1, <1>2

\* A client whose own variables a step leaves alone still holds what it held,
\* as installed sessions stay and time does not run back.
LEMMA HoldsFrame ==
    ASSUME TypeOK, clock' \in Nat, NEW c \in Client, ClientHolds(c),
           state'[c] = state[c], creds'[c] = creds[c], tmpl'[c] = tmpl[c],
           sock'[c] = sock[c], installed \subseteq installed', clock <= clock'
    PROVE  ClientHolds(c)'
  <1>1. creds[c].readyAt \in Nat /\ clock \in Nat
    BY DEF TypeOK, ClientTypeOK, ApiTypeOK, Creds
  <1>2. QED
    BY <1>1 DEF ClientHolds, Installed

\* A client suspended by a step that leaves its credentials alone.
LEMMA HoldsSuspended ==
    ASSUME TypeOK, NEW c \in Client, ClientHolds(c), state[c] # "NONE",
           NEW kind \in Kinds, NEW before, SuspendClient(c, kind, before),
           creds' = creds, tmpl'[c] \in {tmpl[c], creds[c].token}, installed' = installed
    PROVE  ClientHolds(c)'
  <1>1. state'[c] = "SUSPENDED" /\ sock'[c] = NoServer
    BY SuspendEffect DEF ClientHolds
  <1>2. QED
    BY <1>1 DEF ClientHolds, Installed

\* An operation on one client keeps the invariant.
LEMMA SessionClient ==
    ASSUME TypeOK, SessionInv, NEW c \in Client, ClientStep(c)
    PROVE  SessionInv'
  <1> USE DEF SessionInv
  <1>1. ASSUME UNCHANGED <<ctl, inbox, clock>>, installed \subseteq installed',
               \A d \in Client \ {c} : /\ state'[d] = state[d] /\ creds'[d] = creds[d]
                                       /\ tmpl'[d] = tmpl[d] /\ sock'[d] = sock[d],
               \A d \in Client \ {c} : Has(queue', d) => Has(queue, d),
               \A d \in Client \ {c}, w \in Worker : rx'[w] = d => rx[w] = d,
               state'[c] # "NONE",
               ClientHolds(c)'
        PROVE  SessionInv'
    <2>1. AnswersInstalled'
      BY <1>1 DEF AnswersInstalled, Installed
    <2>2. OnlyAddedAsk'
      BY <1>1 DEF OnlyAddedAsk, Involved, InHand
    <2>3. \A d \in Client \ {c} : ClientHolds(d)'
      BY <1>1, HoldsFrame DEF TypeOK, ApiTypeOK
    <2>4. QED
      BY <1>1, <2>1, <2>2, <2>3
  <1>2. ASSUME NEW kind \in Kinds, NEW before \in Seq(Request),
               \A d \in Client : Has(before, d) => d = c,
               SuspendClient(c, kind, before), state[c] # "NONE",
               \A d \in Client \ {c} : tmpl'[d] = tmpl[d],
               tmpl'[c] \in {tmpl[c], creds[c].token},
               UNCHANGED <<creds, rx, ctl, inbox, apiVars, clock>>
        PROVE  SessionInv'
    <2>1. ClientHolds(c)'
      BY <1>2, HoldsSuspended DEF apiVars
    <2>2. \A d \in Client \ {c} : Has(queue', d) => Has(queue, d)
      BY <1>2, SuspendQueues
    <2>3. state'[c] # "NONE" /\ \A d \in Client \ {c} :
              state'[d] = state[d] /\ sock'[d] = sock[d]
      BY <1>2, SuspendEffect
    <2>4. QED
      BY <1>1, <1>2, <2>1, <2>2, <2>3 DEF apiVars
  <1>3. <<>> \in Seq(Request) /\ \A d \in Client : ~Has(<<>>, d)
    BY DEF Has
  <1>4. InDatagram(c) => state[c] # "NONE"
    BY ConstantsAssumption DEF InDatagram, OnlyAddedAsk, Involved
  <1>5. ClientHolds(c)
    OBVIOUS
  <1>6. ASSUME NEW s \in Server, AddClient(c, s) PROVE SessionInv'
    <2>1. state[c] = "NONE" /\ state'[c] = "PENDING" /\ tmpl' = tmpl /\ sock' = sock
      BY <1>6 DEF AddClient, TypeOK, ClientTypeOK
    <2>2. creds'[c] = [token |-> tokens + 1, server |-> s, readyAt |-> issued + 1]
      BY <1>6 DEF AddClient, TypeOK, ClientTypeOK
    <2>3. Installed(creds[c])'
      BY <1>6, <2>2 DEF AddClient, Installed
    <2>4. ClientHolds(c)'
      BY <1>5, <2>1, <2>3 DEF ClientHolds
    <2>5. QED
      BY <1>1, <1>6, <2>1, <2>4 DEF AddClient, TypeOK, ClientTypeOK, controlVars
  <1>7. ASSUME NEW opened \in BOOLEAN, ActivateDueClient(c, opened) PROVE SessionInv'
    <2>1. /\ tmpl'[c] = IF tmpl[c] = 0 THEN creds[c].token ELSE tmpl[c]
          /\ \A d \in Client \ {c} : tmpl'[d] = tmpl[d]
          /\ state[c] = "WAITING"
          /\ creds' = creds
      BY <1>7 DEF ActivateDueClient, TypeOK, ClientTypeOK
    <2>2. CASE opened
      <3>1. /\ state'[c] = "ACTIVE" /\ sock'[c] = creds[c].server
            /\ \A d \in Client \ {c} : state'[d] = state[d] /\ sock'[d] = sock[d]
            /\ UNCHANGED <<queue, rx, ctl, inbox, installed, clock>>
            /\ creds[c].readyAt <= clock
        BY <1>7, <2>2 DEF ActivateDueClient, Due, apiVars, TypeOK, ClientTypeOK
      <3>2. ClientHolds(c)'
        BY <1>5, <2>1, <3>1 DEF ClientHolds, Installed
      <3>3. QED
        BY <1>1, <2>1, <3>1, <3>2
    <2>3. CASE ~opened
      <3>1. /\ SuspendClient(c, "REASSIGN", <<>>)
            /\ UNCHANGED <<creds, rx, ctl, inbox, apiVars, clock>>
        BY <1>7, <2>3 DEF ActivateDueClient
      <3>2. QED
        BY <1>2, <1>3, <2>1, <3>1 DEF Kinds
    <2>4. QED
      BY <2>2, <2>3
  <1>8. CASE BeginDatagram(c)
    <2>1. /\ UNCHANGED <<state, creds, tmpl, sock, queue, ctl, inbox, installed, clock>>
          /\ state[c] = "ACTIVE"
      BY <1>8 DEF BeginDatagram, clientVars, controlVars, apiVars
    <2>2. \A d \in Client \ {c}, w \in Worker : rx'[w] = d => rx[w] = d
      BY <1>8 DEF BeginDatagram, TypeOK, ControlTypeOK
    <2>3. ClientHolds(c)'
      BY <1>5, <2>1, HoldsFrame DEF TypeOK, ApiTypeOK
    <2>4. QED
      BY <1>1, <2>1, <2>2, <2>3
  <1>9. CASE HandleTokenError(c)
    BY <1>2, <1>3, <1>4, <1>9 DEF HandleTokenError, Kinds
  <1>10. CASE HandleUnauthorized(c)
    <2>1. CASE Wedged(unauthorizedCount[c] + 1)
      BY <1>2, <1>3, <1>4, <1>10, <2>1 DEF HandleUnauthorized, Kinds
    <2>2. CASE ~Wedged(unauthorizedCount[c] + 1)
      <3>1. /\ UNCHANGED <<state, creds, tmpl, sock, queue, rx, ctl, inbox, installed, clock>>
            /\ state[c] # "NONE"
        BY <1>4, <1>10, <2>2 DEF HandleUnauthorized, apiVars
      <3>2. ClientHolds(c)'
        BY <1>5, <3>1, HoldsFrame DEF TypeOK, ApiTypeOK
      <3>3. QED
        BY <1>1, <3>1, <3>2
    <2>3. QED
      BY <2>1, <2>2
  <1>11. CASE HandleReconnect(c)
    BY <1>2, <1>3, <1>4, <1>11 DEF HandleReconnect, Kinds
  <1>12. CASE RxSilent(c)
    BY <1>2, <1>3, <1>12 DEF RxSilent, Kinds
  <1>13. ASSUME NEW expiring \in BOOLEAN, NEW outcome \in Outcomes,
                SendDueUpdate(c, expiring, outcome)
         PROVE  SessionInv'
    <2> DEFINE ask == expiring /\ ~refreshRequested[c]
               asked == IF ask THEN <<Asking(c, "REFRESH")>> ELSE <<>>
    <2>1. Asking(c, "REFRESH") \in Request /\ Asking(c, "REFRESH").client = c
      BY DEF TypeOK, ClientTypeOK, Asking, Request, Kinds
    <2>2. asked \in Seq(Request) /\ queue \in Seq(Request)
      BY <2>1 DEF TypeOK, ControlTypeOK
    <2>3. \A d \in Client : Has(asked, d) => d = c
      BY <1>3, <2>1, HasOne
    <2>4. /\ UNCHANGED <<creds, tmpl, rx, ctl, inbox, apiVars, clock>>
          /\ state[c] = "ACTIVE"
          /\ \/ SuspendClient(c, "REASSIGN", asked)
             \/ Push(asked) /\ UNCHANGED <<state, sock>>
      BY <1>13 DEF SendDueUpdate
    <2> HIDE DEF asked
    <2>5. CASE SuspendClient(c, "REASSIGN", asked)
      BY <1>2, <2>2, <2>3, <2>4, <2>5 DEF Kinds
    <2>6. CASE Push(asked) /\ UNCHANGED <<state, sock>>
      <3>1. queue' = queue \o asked
        BY <2>6 DEF Push
      <3>2. \A d \in Client \ {c} : Has(queue', d) => Has(queue, d)
        BY <2>2, <2>3, <3>1, HasConcat
      <3>3. UNCHANGED <<state, creds, tmpl, sock, rx, ctl, inbox, installed, clock>>
        BY <2>4, <2>6 DEF apiVars
      <3>4. ClientHolds(c)'
        BY <1>5, <3>3, HoldsFrame DEF TypeOK, ApiTypeOK
      <3>5. QED
        BY <1>1, <2>4, <3>2, <3>3, <3>4
    <2>7. QED
      BY <2>4, <2>5, <2>6
  <1>14. QED
    BY <1>6, <1>7, <1>8, <1>9, <1>10, <1>11, <1>12, <1>13 DEF ClientStep

\* A step of a worker keeps the invariant; the case that matters is an update,
\* whose credentials are installed and which takes an ACTIVE client off its
\* socket until they have settled.
LEMMA SessionWorker ==
    ASSUME TypeOK, SessionInv, NEW w \in Worker, WorkerStep(w)
    PROVE  SessionInv'
  <1> USE DEF SessionInv
  <1>1. CASE ApplyPendingClients(w)
    <2>1. UNCHANGED <<creds, tmpl, sock, queue, ctl, inbox, rx, installed, clock>>
      BY <1>1 DEF ApplyPendingClients, controlVars, apiVars
    <2>2. \A c \in Client : \/ state'[c] = state[c]
                            \/ state[c] = "PENDING" /\ state'[c] = "WAITING"
      BY <1>1 DEF ApplyPendingClients
    <2>3. AnswersInstalled'
      BY <2>1 DEF AnswersInstalled, Installed
    <2>4. OnlyAddedAsk'
      BY <2>1, <2>2 DEF OnlyAddedAsk, Involved, InHand
    <2>5. \A c \in Client : ClientHolds(c)'
      BY <2>1, <2>2 DEF ClientHolds, Installed
    <2>6. QED
      BY <2>3, <2>4, <2>5
  <1>2. CASE ApplyPendingUpdates(w)
    <2>0. PICK u : u = Head(inbox[w])
      OBVIOUS
    <2>1. /\ inbox[w] \in Seq(Update) /\ inbox[w] # <<>> /\ u \in Update
          /\ inbox' = [inbox EXCEPT ![w] = Tail(inbox[w])]
          /\ UNCHANGED <<queue, ctl, rx, installed, clock>>
      BY <1>2, <2>0 DEF ApplyPendingUpdates, TypeOK, ControlTypeOK, apiVars
    <2>2. u.client \in Client
      BY <2>1 DEF Update
    <2>3. state[u.client] # "NONE"
      BY <2>0, <2>1, <2>2, HasTail DEF OnlyAddedAsk, Involved
    <2>4. ~u.failed => Installed(u.creds)
      <3>1. 1 \in DOMAIN inbox[w] /\ inbox[w][1] = u
        BY <2>0, <2>1
      <3>2. QED
        BY <3>1 DEF AnswersInstalled
    <2>5. AnswersInstalled'
      <3>1. ASSUME NEW v \in Worker, NEW i \in DOMAIN inbox'[v]
            PROVE  \E j \in DOMAIN inbox[v] : inbox'[v][i] = inbox[v][j]
        <4>1. CASE v = w
          <5>1. inbox'[v] = Tail(inbox[w])
            BY <2>1, <4>1 DEF TypeOK, ControlTypeOK
          <5>2. i + 1 \in DOMAIN inbox[w] /\ Tail(inbox[w])[i] = inbox[w][i + 1]
            <6>1. i \in DOMAIN Tail(inbox[w])
              BY <3>1, <5>1
            <6>2. QED
              BY <2>1, <6>1
          <5>3. QED
            BY <4>1, <5>1, <5>2
        <4>2. CASE v # w
          BY <2>1, <3>1, <4>2 DEF TypeOK, ControlTypeOK
        <4>3. QED
          BY <4>1, <4>2
      <3>2. ASSUME NEW v \in Worker, NEW i \in DOMAIN inbox'[v], ~inbox'[v][i].failed
            PROVE  <<inbox'[v][i].creds.token, inbox'[v][i].creds.server>> \in installed
        BY <3>1, <3>2 DEF AnswersInstalled, Installed
      <3>3. QED
        BY <2>1, <3>2 DEF AnswersInstalled, Installed
    <2>6. ASSUME NEW d \in Client, d # u.client
          PROVE  /\ state'[d] = state[d] /\ creds'[d] = creds[d]
                 /\ tmpl'[d] = tmpl[d] /\ sock'[d] = sock[d]
      BY <1>2, <2>0, <2>2, <2>6
      DEF ApplyPendingUpdates, RebuildTemplate, CloseSocket, TypeOK, ClientTypeOK
    <2>7. state'[u.client] # "NONE" /\ ClientHolds(u.client)'
      <3>1. CASE u.failed
        <4>1. UNCHANGED <<state, creds, tmpl, sock>>
          BY <1>2, <2>0, <3>1 DEF ApplyPendingUpdates
        <4>2. QED
          BY <2>1, <2>2, <2>3, <4>1, HoldsFrame DEF TypeOK, ApiTypeOK
      <3>2. CASE ~u.failed
        <4>1. /\ creds'[u.client] = u.creds
              /\ RebuildTemplate(u.client, u.creds.token)
          BY <1>2, <2>0, <2>2, <3>2 DEF ApplyPendingUpdates, TypeOK, ClientTypeOK
        <4>2. tmpl'[u.client] \in {0, u.creds.token}
          BY <2>2, <4>1 DEF RebuildTemplate, TypeOK, ClientTypeOK, ClientHolds
        <4>3. state'[u.client] \notin {"NONE", "ACTIVE"} /\ sock'[u.client] = NoServer
          <5>1. CASE state[u.client] = "SUSPENDED"
            BY <1>2, <2>0, <2>2, <3>2, <5>1
            DEF ApplyPendingUpdates, TypeOK, ClientTypeOK, ClientHolds
          <5>2. CASE state[u.client] = "ACTIVE"
            BY <1>2, <2>0, <2>2, <3>2, <5>2
            DEF ApplyPendingUpdates, CloseSocket, TypeOK, ClientTypeOK
          <5>3. CASE state[u.client] \notin {"SUSPENDED", "ACTIVE"}
            BY <1>2, <2>0, <2>2, <2>3, <3>2, <5>3 DEF ApplyPendingUpdates, ClientHolds
          <5>4. QED
            BY <5>1, <5>2, <5>3
        <4>4. QED
          BY <2>1, <2>4, <3>2, <4>1, <4>2, <4>3 DEF ClientHolds, Installed
      <3>3. QED
        BY <3>1, <3>2
    <2>8. OnlyAddedAsk'
      <3>1. ASSUME NEW d \in Client, NEW v \in Worker, Has(inbox'[v], d)
            PROVE  Has(inbox[v], d)
        <4>1. CASE v = w
          BY <2>0, <2>1, <3>1, <4>1, HasTail DEF TypeOK, ControlTypeOK
        <4>2. CASE v # w
          BY <2>1, <3>1, <4>2 DEF TypeOK, ControlTypeOK
        <4>3. QED
          BY <4>1, <4>2
      <3>2. \A d \in Client : Involved(d)' => Involved(d)
        BY <2>1, <3>1 DEF Involved, InHand
      <3>3. \A d \in Client : state[d] # "NONE" => state'[d] # "NONE"
        BY <2>6, <2>7
      <3>4. QED
        BY <3>2, <3>3 DEF OnlyAddedAsk
    <2>9. \A d \in Client : d # u.client => ClientHolds(d)'
      BY <2>1, <2>6, HoldsFrame DEF TypeOK, ApiTypeOK
    <2>10. QED
      BY <2>5, <2>7, <2>8, <2>9
  <1>3. CASE EndDatagram(w) \/ StopWorker(w)
    <2>1. UNCHANGED <<state, creds, tmpl, sock, queue, ctl, inbox, installed, clock>>
      BY <1>3 DEF EndDatagram, StopWorker, clientVars, controlVars, apiVars
    <2>2. \A v \in Worker : rx'[v] = rx[v] \/ rx'[v] = NoClient
      BY <1>3 DEF EndDatagram, StopWorker, TypeOK, ControlTypeOK
    <2>3. AnswersInstalled'
      BY <2>1 DEF AnswersInstalled, Installed
    <2>4. OnlyAddedAsk'
      BY <2>1, <2>2, ConstantsAssumption DEF OnlyAddedAsk, Involved, InHand
    <2>5. \A c \in Client : ClientHolds(c)'
      BY <2>1, HoldsFrame DEF TypeOK, ApiTypeOK
    <2>6. QED
      BY <2>3, <2>4, <2>5
  <1>4. QED
    BY <1>1, <1>2, <1>3 DEF WorkerStep

\* A step of the control thread keeps the invariant: an answer is complete only
\* once the API has installed its token on its server.
LEMMA SessionControlThread ==
    ASSUME TypeOK, SessionInv,
           ControlStep \/ ShutdownQueue \/ Tick \/ Stopped \/ UNCHANGED vars
    PROVE  SessionInv'
  <1> USE DEF SessionInv
  <1>1. ASSUME UNCHANGED <<state, creds, tmpl, sock, rx>>,
               installed \subseteq installed', clock' \in Nat, clock <= clock',
               AnswersInstalled', \A d \in Client : Involved(d)' => Involved(d)
        PROVE  SessionInv'
    <2>1. \A c \in Client : ClientHolds(c)'
      BY <1>1, HoldsFrame
    <2>2. OnlyAddedAsk'
      BY <1>1 DEF OnlyAddedAsk
    <2>3. QED
      BY <1>1, <2>1, <2>2
  <1>2. clock \in Nat
    BY DEF TypeOK, ApiTypeOK
  <1>3. ASSUME UNCHANGED <<queue, rx, inbox>>, ctl'.update.client = ctl.update.client
        PROVE  \A d \in Client : Involved(d)' => Involved(d)
    BY <1>3 DEF Involved, InHand
  <1>4. ASSUME UNCHANGED inbox, installed \subseteq installed',
               ctl'.pc = "post" /\ ~ctl'.update.failed => Installed(ctl.update.creds)'
        PROVE  AnswersInstalled'
    BY <1>4 DEF AnswersInstalled, Installed
  <1>5. CASE Pop
    <2>1. /\ UNCHANGED <<state, creds, tmpl, sock, rx, inbox, installed, clock>>
          /\ queue' = Tail(queue) /\ queue # <<>>
          /\ ctl'.update.client = Head(queue).client
          /\ ctl'.pc # "post"
      BY <1>5 DEF Pop, clientVars, apiVars
    <2>2. \A d \in Client : Involved(d)' => Involved(d)
      BY <2>1, HasTail DEF Involved, InHand, TypeOK, ControlTypeOK
    <2>3. QED
      BY <1>1, <1>2, <1>4, <2>1, <2>2
  <1>6. CASE PopShutdown
    <2>1. /\ UNCHANGED <<state, creds, tmpl, sock, rx, queue, inbox, installed, clock>>
          /\ ctl'.pc # "post" /\ ctl'.update = ctl.update
      BY <1>6 DEF PopShutdown, clientVars, apiVars, TypeOK, ControlTypeOK,
         ControlFree, ControlBusy
    <2>2. QED
      BY <1>1, <1>2, <1>3, <1>4, <2>1
  <1>7. ASSUME NEW kept \in BOOLEAN, RefreshToken(kept) PROVE SessionInv'
    <2>1. /\ UNCHANGED <<state, creds, tmpl, sock, rx, queue, inbox, clock>>
          /\ installed \subseteq installed'
          /\ ctl'.update.client = ctl.update.client
      BY <1>7 DEF RefreshToken, Proceed, clientVars
    <2>2. ctl'.pc = "post" => Installed(ctl.update.creds)'
      BY <1>7 DEF RefreshToken, Proceed, Installed
    <2>3. QED
      BY <1>1, <1>2, <1>3, <1>4, <2>1, <2>2
  <1>8. CASE RefreshFails
    <2>1. /\ UNCHANGED <<state, creds, tmpl, sock, rx, queue, inbox, installed, clock>>
          /\ ctl'.update.client = ctl.update.client /\ ctl'.update.failed
      BY <1>8 DEF RefreshFails, GiveUp, clientVars, apiVars
    <2>2. QED
      BY <1>1, <1>2, <1>3, <1>4, <2>1
  <1>9. ASSUME NEW s \in Server, AssignServer(s) PROVE SessionInv'
    <2>1. /\ UNCHANGED <<state, creds, tmpl, sock, rx, queue, inbox, clock>>
          /\ installed \subseteq installed'
          /\ ctl'.update.client = ctl.update.client
          /\ Installed(ctl.update.creds)'
      BY <1>9 DEF AssignServer, Proceed, Installed, clientVars
    <2>2. QED
      BY <1>1, <1>2, <1>3, <1>4, <2>1
  <1>10. CASE AssignFails
    <2>1. /\ UNCHANGED <<state, creds, tmpl, sock, rx, queue, inbox, installed, clock>>
          /\ ctl'.update.client = ctl.update.client
          /\ ctl'.pc = "post" => ctl'.update.failed
      BY <1>10 DEF AssignFails, GiveUp, Retry, clientVars, apiVars
    <2>2. QED
      BY <1>1, <1>2, <1>3, <1>4, <2>1
  <1>11. CASE PostUpdate
    <2>1. ctl.update \in Update
      BY <1>11 DEF PostUpdate, TypeOK, ControlTypeOK, ControlFree, ControlBusy
    <2>2. ctl.update.client \in Client
      BY <2>1 DEF Update
    <2> DEFINE w == WorkerOf[ctl.update.client]
    <2>3. w \in Worker /\ inbox[w] \in Seq(Update)
      BY <2>2, ConstantsAssumption DEF TypeOK, ControlTypeOK
    <2>4. /\ inbox' = [inbox EXCEPT ![w] = Append(inbox[w], ctl.update)]
          /\ ctl' = Waiting
          /\ UNCHANGED <<state, creds, tmpl, sock, rx, queue, installed, clock>>
      BY <1>11 DEF PostUpdate, Deliver, clientVars, apiVars
    <2>5. ~ctl.update.failed => Installed(ctl.update.creds)
      BY <1>11 DEF PostUpdate, AnswersInstalled
    <2>6. AnswersInstalled'
      <3>1. ASSUME NEW v \in Worker, NEW i \in DOMAIN inbox'[v]
            PROVE  \/ \E j \in DOMAIN inbox[v] : inbox'[v][i] = inbox[v][j]
                   \/ inbox'[v][i] = ctl.update
        <4>1. CASE v = w
          <5>1. inbox'[v] = Append(inbox[w], ctl.update)
            BY <2>3, <2>4, <4>1 DEF TypeOK, ControlTypeOK
          <5>2. QED
            BY <2>1, <2>3, <3>1, <4>1, <5>1
        <4>2. CASE v # w
          BY <2>3, <2>4, <3>1, <4>2 DEF TypeOK, ControlTypeOK
        <4>3. QED
          BY <4>1, <4>2
      <3>2. ASSUME NEW v \in Worker, NEW i \in DOMAIN inbox'[v], ~inbox'[v][i].failed
            PROVE  <<inbox'[v][i].creds.token, inbox'[v][i].creds.server>> \in installed
        BY <2>5, <3>1, <3>2 DEF AnswersInstalled, Installed
      <3>3. QED
        BY <2>4, <3>2 DEF AnswersInstalled, Installed, Waiting
    <2>7. \A d \in Client : Involved(d)' => Involved(d)
      <3>1. ASSUME NEW d \in Client, NEW v \in Worker, Has(inbox'[v], d)
            PROVE  Has(inbox[v], d) \/ InHand(d)
        <4>1. CASE v = w
          BY <2>1, <2>3, <2>4, <3>1, <4>1, HasAppend DEF InHand, TypeOK, ControlTypeOK
        <4>2. CASE v # w
          BY <2>3, <2>4, <3>1, <4>2 DEF TypeOK, ControlTypeOK
        <4>3. QED
          BY <4>1, <4>2
      <3>2. \A d \in Client : ~InHand(d)'
        BY <2>4, ConstantsAssumption DEF InHand, Waiting, NoUpdate
      <3>3. QED
        BY <2>4, <3>1, <3>2 DEF Involved
    <2>8. QED
      BY <1>1, <1>2, <2>4, <2>6, <2>7
  <1>12. CASE ShutdownQueue \/ Tick \/ Stopped \/ UNCHANGED vars
    <2>1. /\ UNCHANGED <<state, creds, tmpl, sock, rx, queue, ctl, inbox, installed>>
          /\ clock' \in {clock, clock + 1}
      BY <1>12 DEF ShutdownQueue, Tick, Stopped, vars, clientVars, controlVars, apiVars
    <2>2. clock' \in Nat /\ clock <= clock'
      BY <1>2, <2>1
    <2>3. AnswersInstalled'
      BY <2>1 DEF AnswersInstalled, Installed
    <2>4. QED
      BY <1>1, <1>3, <2>1, <2>2, <2>3
  <1>13. QED
    BY <1>5, <1>6, <1>7, <1>8, <1>9, <1>10, <1>11, <1>12 DEF ControlStep

\* The inductive invariant holds in every reachable state.
THEOREM SessionInvHolds == Spec => []SessionInv
  <1>1. Init => SessionInv
    <2> SUFFICES ASSUME Init PROVE SessionInv
      OBVIOUS
    <2>1. AnswersInstalled
      BY DEF Init, AnswersInstalled, Waiting
    <2>2. OnlyAddedAsk
      BY ConstantsAssumption
      DEF Init, OnlyAddedAsk, Involved, Has, InHand, Waiting, NoUpdate
    <2>3. \A c \in Client : ClientHolds(c)
      BY DEF Init, ClientHolds, NoCreds
    <2>4. QED
      BY <2>1, <2>2, <2>3 DEF SessionInv
  <1>2. TypeOK /\ SessionInv /\ [Next]_vars => SessionInv'
    BY SessionClient, SessionWorker, SessionControlThread DEF Next
  <1>3. QED
    BY <1>1, <1>2, TypeCorrect, PTL DEF Spec

\* What an ACTIVE client sends carries the token of its credentials to the
\* server of its credentials, and the API installed that pair.
THEOREM WireSessionHolds == Spec => []WireSessionInstalled
  <1>1. SessionInv => WireSessionInstalled
    BY DEF SessionInv, ClientHolds, Installed, WireSessionInstalled
  <1>2. QED
    BY <1>1, SessionInvHolds, PTL

\* No client sends before its session has settled.
THEOREM SettleHolds == Spec => []SettleRespected
  <1>1. SessionInv => SettleRespected
    BY DEF SessionInv, ClientHolds, SettleRespected
  <1>2. QED
    BY <1>1, SessionInvHolds, PTL

\* Every way out of ACTIVE closes the socket.
THEOREM SocketHolds == Spec => []SocketOnlyActive
  <1>1. SessionInv => SocketOnlyActive
    BY DEF SessionInv, ClientHolds, SocketOnlyActive
  <1>2. QED
    BY <1>1, SessionInvHolds, PTL

-----------------------------------------------------------------------------
(* The gauges.                                                             *)

Count(f, v) == Cardinality({c \in Client : f[c] = v})
One(x, y) == IF x = y THEN 1 ELSE 0
SameBut(f, g, c) == \A d \in Client : d # c => g[d] = f[d]

\* Counting the clients in a state after one of them has changed state.
LEMMA CountMove ==
    ASSUME NEW f, NEW g, NEW c \in Client, NEW v,
           SameBut(f, g, c)
    PROVE  Count(g, v) = Count(f, v) + One(g[c], v) - One(f[c], v)
  <1> DEFINE F == {d \in Client : f[d] = v}
             G == {d \in Client : g[d] = v}
  <1>1. IsFiniteSet(F) /\ IsFiniteSet(F \ {c})
    BY ConstantsAssumption, FS_Subset
  <1>2. Cardinality(F) \in Nat /\ Cardinality(F \ {c}) \in Nat
    BY <1>1, FS_CardinalityType
  <1>3. Cardinality(F) = Cardinality(F \ {c}) + (IF f[c] = v THEN 1 ELSE 0)
    <2>1. CASE f[c] = v
      <3>1. c \in F
        BY <2>1
      <3>2. Cardinality(F \ {c}) = Cardinality(F) - 1
        BY <1>1, <3>1, FS_RemoveElement
      <3>3. QED
        BY <1>2, <2>1, <3>2
    <2>2. CASE f[c] # v
      <3>1. F \ {c} = F
        BY <2>2
      <3>2. Cardinality(F) = Cardinality(F \ {c}) + 0
        BY <1>2, <3>1
      <3>3. QED
        BY <2>2, <3>2
    <2>3. QED
      BY <2>1, <2>2
  <1>4. Cardinality(G) = Cardinality(F \ {c}) + (IF g[c] = v THEN 1 ELSE 0)
    <2>1. CASE g[c] = v
      <3>1. G = (F \ {c}) \union {c}
        BY <2>1 DEF SameBut
      <3>2. QED
        BY <1>1, <2>1, <3>1, FS_AddElement
    <2>2. CASE g[c] # v
      <3>1. G = F \ {c}
        BY <2>2 DEF SameBut
      <3>2. Cardinality(G) = Cardinality(F \ {c}) + 0
        BY <1>2, <3>1
      <3>3. QED
        BY <2>2, <3>2
    <2>3. QED
      BY <2>1, <2>2
  <1>5. Count(f, v) = Cardinality(F) /\ Count(g, v) = Cardinality(G)
    BY DEF Count
  <1> HIDE DEF F, G
  <1>6. QED
    BY <1>2, <1>3, <1>4, <1>5 DEF One

\* The gauges stay exact when they move with the one client that changes state.
LEMMA MoveGauges ==
    ASSUME TypeOK, GaugesExact,
           NEW c \in Client, NEW new \in States,
           state' = [state EXCEPT ![c] = new],
           active' = active + (IF new = "ACTIVE" THEN 1 ELSE 0)
                            - (IF state[c] = "ACTIVE" THEN 1 ELSE 0),
           suspended' = suspended + (IF new = "SUSPENDED" THEN 1 ELSE 0)
                                  - (IF state[c] = "SUSPENDED" THEN 1 ELSE 0)
    PROVE  GaugesExact'
  <1>1. active = Count(state, "ACTIVE") /\ suspended = Count(state, "SUSPENDED")
    BY DEF GaugesExact, Count
  <1>2. state \in [Client -> States]
    BY DEF TypeOK, ClientTypeOK
  <1>3. PICK g : g = [state EXCEPT ![c] = new]
    OBVIOUS
  <1>4. g[c] = new /\ SameBut(state, g, c)
    BY <1>2, <1>3 DEF SameBut
  <1>5. Count(g, "ACTIVE") =
          Count(state, "ACTIVE") + One(g[c], "ACTIVE") - One(state[c], "ACTIVE")
    BY <1>4, CountMove
  <1>6. Count(g, "SUSPENDED") =
          Count(state, "SUSPENDED") + One(g[c], "SUSPENDED") - One(state[c], "SUSPENDED")
    BY <1>4, CountMove
  <1>7. active' = Count(g, "ACTIVE") /\ suspended' = Count(g, "SUSPENDED")
    BY <1>1, <1>4, <1>5, <1>6 DEF One
  <1>8. state' = g
    BY <1>3
  <1>9. QED
    BY <1>7, <1>8 DEF GaugesExact, Count

\* suspendClient moves the gauges with the client it parks.
LEMMA SuspendGauges ==
    ASSUME TypeOK, GaugesExact,
           NEW c \in Client, NEW kind \in Kinds, NEW before,
           SuspendClient(c, kind, before)
    PROVE  GaugesExact'
  <1>2. state \in [Client -> States] /\ active \in Int /\ suspended \in Int
    BY DEF TypeOK, ClientTypeOK, CounterTypeOK
  <1>3. CASE AlreadySuspended(c)
    BY <1>3 DEF SuspendClient, GaugesExact
  <1>4. CASE ~AlreadySuspended(c)
    <2>1. /\ state' = [state EXCEPT ![c] = "SUSPENDED"]
          /\ active' = IF state[c] = "ACTIVE" THEN active - 1 ELSE active
          /\ suspended' = suspended + 1
          /\ state[c] # "SUSPENDED"
      BY <1>4 DEF SuspendClient, LeaveActive, AlreadySuspended
    <2>2. active' = active + 0 - (IF state[c] = "ACTIVE" THEN 1 ELSE 0)
      BY <1>2, <2>1
    <2>3. suspended' = suspended + 1 - 0
      BY <1>2, <2>1
    <2>4. QED
      BY <2>1, <2>2, <2>3, MoveGauges DEF States
  <1>5. QED
    BY <1>3, <1>4

\* The gauges are the numbers of ACTIVE and SUSPENDED clients in every
\* reachable state, for any number of clients and workers.
THEOREM GaugesHold == Spec => []GaugesExact
  <1>1. Init => GaugesExact
    <2>1. ASSUME Init, NEW v \in {"ACTIVE", "SUSPENDED"}
          PROVE  {c \in Client : state[c] = v} = {}
      BY <2>1 DEF Init
    <2>2. QED
      BY <2>1, FS_EmptySet DEF Init, GaugesExact
  <1>2. TypeOK /\ GaugesExact /\ [Next]_vars => GaugesExact'
    <2> SUFFICES ASSUME TypeOK, GaugesExact, [Next]_vars PROVE GaugesExact'
      OBVIOUS
    <2>2. state \in [Client -> States] /\ active \in Int /\ suspended \in Int
      BY DEF TypeOK, ClientTypeOK, CounterTypeOK
    <2>3. ASSUME UNCHANGED <<state, active, suspended>> PROVE GaugesExact'
      BY <2>3 DEF GaugesExact
    <2>5. ASSUME NEW c \in Client, ClientStep(c) PROVE GaugesExact'
      <3>1. ASSUME NEW s \in Server, AddClient(c, s) PROVE GaugesExact'
        <4>1. /\ state' = [state EXCEPT ![c] = "PENDING"] /\ state[c] = "NONE"
              /\ UNCHANGED <<active, suspended>>
          BY <3>1 DEF AddClient
        <4>2. /\ active' = active + 0 - 0
              /\ suspended' = suspended + 0 - 0
          BY <2>2, <4>1
        <4>3. QED
          BY <4>1, <4>2, MoveGauges DEF States
      <3>2. ASSUME NEW opened \in BOOLEAN, ActivateDueClient(c, opened) PROVE GaugesExact'
        <4>1. CASE opened
          <5>1. /\ state' = [state EXCEPT ![c] = "ACTIVE"] /\ state[c] = "WAITING"
                /\ active' = active + 1 /\ suspended' = suspended
            BY <3>2, <4>1 DEF ActivateDueClient
          <5>2. /\ active' = active + 1 - 0
                /\ suspended' = suspended + 0 - 0
            BY <2>2, <5>1
          <5>3. QED
            BY <5>1, <5>2, MoveGauges DEF States
        <4>2. CASE ~opened
          BY <3>2, <4>2, SuspendGauges DEF ActivateDueClient, Kinds
        <4>3. QED
          BY <4>1, <4>2
      <3>3. CASE BeginDatagram(c)
        BY <2>3, <3>3 DEF BeginDatagram, clientVars
      <3>4. CASE HandleTokenError(c)
        BY <3>4, SuspendGauges DEF HandleTokenError, Kinds
      <3>5. CASE HandleUnauthorized(c)
        BY <2>3, <3>5, SuspendGauges DEF HandleUnauthorized, Kinds
      <3>6. CASE HandleReconnect(c)
        BY <3>6, SuspendGauges DEF HandleReconnect, Kinds
      <3>7. CASE RxSilent(c)
        BY <3>7, SuspendGauges DEF RxSilent, Kinds
      <3>8. ASSUME NEW expiring \in BOOLEAN, NEW outcome \in Outcomes,
                   SendDueUpdate(c, expiring, outcome)
            PROVE  GaugesExact'
        <4>1. \/ \E before : SuspendClient(c, "REASSIGN", before)
              \/ UNCHANGED <<state, active, suspended>>
          BY <3>8 DEF SendDueUpdate
        <4>2. QED
          BY <2>3, <4>1, SuspendGauges DEF Kinds
      <3>9. QED
        BY <2>5, <3>1, <3>2, <3>3, <3>4, <3>5, <3>6, <3>7, <3>8 DEF ClientStep
    <2>6. ASSUME NEW w \in Worker, WorkerStep(w) PROVE GaugesExact'
      <3>1. CASE ApplyPendingClients(w)
        <4>1. \A v \in {"ACTIVE", "SUSPENDED"} :
                {c \in Client : state'[c] = v} = {c \in Client : state[c] = v}
          BY <3>1 DEF ApplyPendingClients
        <4>2. UNCHANGED <<active, suspended>>
          BY <3>1 DEF ApplyPendingClients
        <4>3. QED
          BY <4>1, <4>2 DEF GaugesExact
      <3>2. CASE ApplyPendingUpdates(w)
        <4>1. PICK u : u = Head(inbox[w])
          OBVIOUS
        <4>2. inbox[w] \in Seq(Update) /\ inbox[w] # <<>>
          BY <3>2 DEF ApplyPendingUpdates, TypeOK, ControlTypeOK
        <4>3. u \in Update
          BY <4>1, <4>2
        <4>4. u.client \in Client
          BY <4>3 DEF Update
        <4>5. \/ UNCHANGED <<state, active, suspended>>
              \/ /\ state[u.client] = "SUSPENDED"
                 /\ state' = [state EXCEPT ![u.client] = "WAITING"]
                 /\ suspended' = suspended - 1 /\ active' = active
              \/ /\ state[u.client] = "ACTIVE"
                 /\ state' = [state EXCEPT ![u.client] = "WAITING"]
                 /\ active' = active - 1 /\ suspended' = suspended
          BY <3>2, <4>1 DEF ApplyPendingUpdates, LeaveActive
        <4>6. QED
          BY <2>2, <2>3, <4>4, <4>5, MoveGauges DEF States
      <3>3. CASE EndDatagram(w) \/ StopWorker(w)
        BY <2>3, <3>3 DEF EndDatagram, StopWorker, clientVars
      <3>4. QED
        BY <2>6, <3>1, <3>2, <3>3 DEF WorkerStep
    <2>7. CASE ControlStep \/ ShutdownQueue \/ Tick \/ Stopped \/ UNCHANGED vars
      <3>1. UNCHANGED clientVars
        BY <2>7 DEF ControlStep, Pop, PopShutdown, RefreshToken, RefreshFails,
           AssignServer, AssignFails, PostUpdate, ShutdownQueue, Tick, Stopped, vars
      <3>2. QED
        BY <2>3, <3>1 DEF clientVars
    <2>8. QED
      BY <2>5, <2>6, <2>7 DEF Next
  <1>3. QED
    BY <1>1, <1>2, TypeCorrect, PTL DEF Spec
=============================================================================
