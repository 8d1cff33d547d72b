------------------------ MODULE ClientSessionProofs ------------------------
(***************************************************************************)
(* SessionControl hands out assignments in order, and implements           *)
(* ClientSession: for every set of clients, workers and servers and every  *)
(* value of the limits.                                                    *)
(***************************************************************************)
EXTENDS SessionControlProofs

-----------------------------------------------------------------------------
(* Where requests and answers can be.                                      *)

\* A client whose worker has not taken it over takes part in nothing.
Joined(c) == state[c] \in {"WAITING", "ACTIVE", "SUSPENDED"}
OnlyJoinedAsk == \A c \in Client : Involved(c) => Joined(c)

\* Every answer is in the inbox of the worker that owns its client.
AnswersAtHome ==
    \A w \in Worker : \A i \in DOMAIN inbox[w] : WorkerOf[inbox[w][i].client] = w

PipeInv == OnlyJoinedAsk /\ AnswersAtHome

-----------------------------------------------------------------------------
(* In which order assignments were handed out.                             *)

CredsBehind == \A c \in Client : creds[c].readyAt <= issued

\* A good answer is no older than what its client has.
InboxAhead ==
    \A w \in Worker : \A i \in DOMAIN inbox[w] :
        ~inbox[w][i].failed => /\ creds[inbox[w][i].client].readyAt <= inbox[w][i].creds.readyAt
                               /\ inbox[w][i].creds.readyAt <= issued

\* An inbox holds its good answers in the order in which they were obtained.
InboxSorted ==
    \A w \in Worker : \A i, j \in DOMAIN inbox[w] :
        i < j /\ ~inbox[w][i].failed /\ ~inbox[w][j].failed
            => inbox[w][i].creds.readyAt <= inbox[w][j].creds.readyAt

\* The good answer the control thread is about to post is the newest.
HandNewest ==
    ctl.pc = "post" /\ ~ctl.update.failed =>
        /\ creds[ctl.update.client].readyAt <= ctl.update.creds.readyAt
        /\ ctl.update.creds.readyAt <= issued
        /\ \A w \in Worker : \A i \in DOMAIN inbox[w] :
              ~inbox[w][i].failed => inbox[w][i].creds.readyAt <= ctl.update.creds.readyAt

OrderInv == CredsBehind /\ InboxAhead /\ InboxSorted /\ HandNewest

-----------------------------------------------------------------------------
(* What an operation on a client comes to, for the pipeline.               *)

\* One request of client c more, and two.
AsksOnce(c) == \E r \in Request : r.client = c /\ queue' = Append(queue, r)
AsksTwice(c) == \E q, r \in Request : /\ q.client = c /\ r.client = c
                                      /\ queue' = Append(Append(queue, q), r)

\* The operation leaves the client in the state it was in, with or without a
\* question asked; it activates the client; or it parks it.
GoesOn(c) ==
    /\ state' = state
    /\ \/ queue' = queue
       \/ state[c] = "ACTIVE" /\ AsksOnce(c)
Activates(c) ==
    /\ state[c] = "WAITING" /\ state' = [state EXCEPT ![c] = "ACTIVE"]
    /\ queue' = queue
Parks(c) ==
    /\ state[c] \in {"WAITING", "ACTIVE"}
    /\ state' = [state EXCEPT ![c] = "SUSPENDED"]
    /\ AsksOnce(c) \/ AsksTwice(c)

\* Only the client in a datagram changes, to one that is ACTIVE.
DatagramOf(c) == \A w \in Worker : rx'[w] = rx[w] \/ (rx'[w] = c /\ state[c] = "ACTIVE")

\* suspendClient leaves a SUSPENDED client alone and parks another.
LEMMA SuspendParks ==
    ASSUME TypeOK, NEW c \in Client, Joined(c), NEW kind \in Kinds,
           NEW before \in Seq(Request), SuspendClient(c, kind, before),
           \/ before = <<>>
           \/ state[c] = "ACTIVE" /\ before = <<Asking(c, "REFRESH")>>
    PROVE  GoesOn(c) \/ Parks(c)
  <1>1. /\ queue \in Seq(Request)
        /\ Asking(c, kind) \in Request /\ Asking(c, kind).client = c
        /\ Asking(c, "REFRESH") \in Request /\ Asking(c, "REFRESH").client = c
    BY DEF TypeOK, ControlTypeOK, ClientTypeOK, Asking, Request, Kinds
  <1>2. CASE AlreadySuspended(c)
    <2>1. before = <<>> /\ queue' = queue \o before /\ state' = state
      BY <1>2 DEF SuspendClient, Push, AlreadySuspended
    <2>2. queue' = queue
      BY <1>1, <2>1
    <2>3. QED
      BY <2>1, <2>2 DEF GoesOn
  <1>3. CASE ~AlreadySuspended(c)
    <2>1. /\ state[c] \in {"WAITING", "ACTIVE"}
          /\ state' = [state EXCEPT ![c] = "SUSPENDED"]
          /\ queue' = queue \o (before \o <<Asking(c, kind)>>)
      BY <1>3 DEF SuspendClient, Push, AlreadySuspended, Joined
    <2>2. CASE before = <<>>
      <3>1. queue' = Append(queue, Asking(c, kind))
        BY <1>1, <2>1, <2>2
      <3>2. QED
        BY <1>1, <2>1, <3>1 DEF Parks, AsksOnce
    <2>3. CASE before = <<Asking(c, "REFRESH")>>
      <3>1. queue' = Append(Append(queue, Asking(c, "REFRESH")), Asking(c, kind))
        BY <1>1, <2>1, <2>3
      <3>2. QED
        BY <1>1, <2>1, <3>1 DEF Parks, AsksTwice
    <2>4. QED
      BY <2>2, <2>3
  <1>4. QED
    BY <1>2, <1>3

\* Every operation on a client but its being added goes on, activates or parks
\* it, and touches neither answers nor credentials.
LEMMA ClientEffect ==
    ASSUME TypeOK, PipeInv, NEW c \in Client, ClientStep(c)
    PROVE  \/ \E s \in Server : AddClient(c, s)
           \/ /\ GoesOn(c) \/ Activates(c) \/ Parks(c)
              /\ DatagramOf(c)
              /\ UNCHANGED <<creds, gaveUp, ctl, inbox, issued>>
  <1> DEFINE Same == UNCHANGED <<creds, gaveUp, ctl, inbox, issued>>
  <1>1. InDatagram(c) => Joined(c)
    BY ConstantsAssumption DEF InDatagram, PipeInv, OnlyJoinedAsk, Involved
  <1>2. <<>> \in Seq(Request)
    OBVIOUS
  <1>3. ASSUME NEW kind \in Kinds, Joined(c), SuspendClient(c, kind, <<>>)
        PROVE  GoesOn(c) \/ Parks(c)
    BY <1>2, <1>3, SuspendParks
  <1>4. ASSUME NEW opened \in BOOLEAN, ActivateDueClient(c, opened)
        PROVE  (Activates(c) \/ GoesOn(c) \/ Parks(c)) /\ DatagramOf(c) /\ Same
    <2>1. state[c] = "WAITING" /\ DatagramOf(c) /\ Same
      BY <1>4 DEF ActivateDueClient, DatagramOf, apiVars
    <2>2. CASE opened
      BY <1>4, <2>1, <2>2 DEF ActivateDueClient, Activates
    <2>3. CASE ~opened
      BY <1>3, <1>4, <2>1, <2>3 DEF ActivateDueClient, Joined, Kinds
    <2>4. QED
      BY <2>1, <2>2, <2>3
  <1>5. CASE BeginDatagram(c)
    <2>1. state[c] = "ACTIVE" /\ rx' = [rx EXCEPT ![WorkerOf[c]] = c]
      BY <1>5 DEF BeginDatagram
    <2>2. DatagramOf(c)
      BY <2>1 DEF DatagramOf, TypeOK, ControlTypeOK
    <2>3. QED
      BY <1>5, <2>2 DEF BeginDatagram, GoesOn, clientVars, controlVars, apiVars
  <1>6. CASE HandleTokenError(c)
    BY <1>1, <1>3, <1>6 DEF HandleTokenError, DatagramOf, apiVars, Kinds
  <1>7. CASE HandleUnauthorized(c)
    <2>1. Joined(c) /\ DatagramOf(c) /\ Same
      BY <1>1, <1>7 DEF HandleUnauthorized, DatagramOf, apiVars
    <2>2. CASE Wedged(unauthorizedCount[c] + 1)
      BY <1>3, <1>7, <2>1, <2>2 DEF HandleUnauthorized, Kinds
    <2>3. CASE ~Wedged(unauthorizedCount[c] + 1)
      BY <1>7, <2>1, <2>3 DEF HandleUnauthorized, GoesOn
    <2>4. QED
      BY <2>2, <2>3
  <1>8. CASE HandleReconnect(c)
    BY <1>1, <1>3, <1>8 DEF HandleReconnect, DatagramOf, apiVars, Kinds
  <1>9. CASE RxSilent(c)
    BY <1>3, <1>9 DEF RxSilent, Joined, DatagramOf, apiVars, Kinds
  <1>10. ASSUME NEW expiring \in BOOLEAN, NEW outcome \in Outcomes,
                SendDueUpdate(c, expiring, outcome)
         PROVE  (GoesOn(c) \/ Parks(c)) /\ DatagramOf(c) /\ Same
    <2> DEFINE ask == expiring /\ ~refreshRequested[c]
               asked == IF ask THEN <<Asking(c, "REFRESH")>> ELSE <<>>
    <2>1. Asking(c, "REFRESH") \in Request /\ Asking(c, "REFRESH").client = c
      BY DEF TypeOK, ClientTypeOK, Asking, Request, Kinds
    <2>2. asked \in Seq(Request) /\ queue \in Seq(Request)
      BY <2>1 DEF TypeOK, ControlTypeOK
    <2>3. /\ state[c] = "ACTIVE" /\ DatagramOf(c) /\ Same
          /\ \/ SuspendClient(c, "REASSIGN", asked)
             \/ Push(asked) /\ state' = state
      BY <1>10 DEF SendDueUpdate, DatagramOf, apiVars
    <2>4. asked \in {<<>>, <<Asking(c, "REFRESH")>>}
      OBVIOUS
    <2> HIDE DEF asked
    <2>5. CASE SuspendClient(c, "REASSIGN", asked)
      BY <2>2, <2>3, <2>4, <2>5, SuspendParks DEF Joined, Kinds
    <2>6. CASE Push(asked) /\ state' = state
      <3>1. queue' = queue \o asked
        BY <2>6 DEF Push
      <3>2. CASE asked = <<>>
        BY <2>2, <2>3, <2>6, <3>1, <3>2 DEF GoesOn
      <3>3. CASE asked = <<Asking(c, "REFRESH")>>
        <4>1. queue' = Append(queue, Asking(c, "REFRESH"))
          BY <2>1, <2>2, <3>1, <3>3
        <4>2. QED
          BY <2>1, <2>3, <2>6, <4>1 DEF GoesOn, AsksOnce
      <3>4. QED
        BY <2>4, <3>2, <3>3
    <2>7. QED
      BY <2>3, <2>5, <2>6
  <1>11. QED
    BY <1>4, <1>5, <1>6, <1>7, <1>8, <1>9, <1>10 DEF ClientStep

-----------------------------------------------------------------------------
(* What the steps of a worker and of the control thread come to.           *)

\* An answer is read by the worker that owns its client, which then waits, or
\* stays as it is if control gave up.
Reads(u) ==
    LET c == u.client
    IN  /\ UNCHANGED <<queue, ctl, rx, issued>>
        /\ u.failed => /\ UNCHANGED <<state, creds>>
                       /\ gaveUp' = [gaveUp EXCEPT ![c] = (state[c] = "SUSPENDED")]
        /\ ~u.failed => /\ state' = [state EXCEPT ![c] = "WAITING"]
                        /\ creds' = [creds EXCEPT ![c] = u.creds]
                        /\ gaveUp' = [gaveUp EXCEPT ![c] = FALSE]

\* applyPendingUpdates reads the head of its own worker's inbox.
LEMMA UpdateEffect ==
    ASSUME TypeOK, PipeInv, NEW w \in Worker, ApplyPendingUpdates(w)
    PROVE  \E u \in Update :
              /\ inbox[w] \in Seq(Update) /\ inbox[w] # <<>> /\ u = Head(inbox[w])
              /\ inbox' = [inbox EXCEPT ![w] = Tail(inbox[w])]
              /\ u.client \in Client /\ WorkerOf[u.client] = w /\ Joined(u.client)
              /\ Reads(u)
  <1>1. PICK u : u = Head(inbox[w])
    OBVIOUS
  <1>2. /\ inbox[w] \in Seq(Update) /\ inbox[w] # <<>> /\ u \in Update
        /\ inbox' = [inbox EXCEPT ![w] = Tail(inbox[w])]
        /\ UNCHANGED <<queue, ctl, rx, issued>>
    BY <1>1 DEF ApplyPendingUpdates, TypeOK, ControlTypeOK, apiVars
  <1>3. u.client \in Client
    BY <1>2 DEF Update
  <1>4. 1 \in DOMAIN inbox[w] /\ inbox[w][1] = u
    BY <1>1, <1>2
  <1>5. WorkerOf[u.client] = w
    BY <1>4 DEF PipeInv, AnswersAtHome
  <1>6. Joined(u.client)
    BY <1>3, <1>4 DEF PipeInv, OnlyJoinedAsk, Involved, Has
  <1>7. CASE u.failed
    <2>1. /\ UNCHANGED <<state, creds>>
          /\ gaveUp' = [gaveUp EXCEPT ![u.client] = (state[u.client] = "SUSPENDED")]
      BY <1>1, <1>7 DEF ApplyPendingUpdates
    <2>2. QED
      BY <1>1, <1>2, <1>3, <1>5, <1>6, <1>7, <2>1 DEF Reads
  <1>8. CASE ~u.failed
    <2>1. /\ creds' = [creds EXCEPT ![u.client] = u.creds]
          /\ gaveUp' = [gaveUp EXCEPT ![u.client] = FALSE]
      BY <1>1, <1>8 DEF ApplyPendingUpdates
    <2>2. CASE state[u.client] = "WAITING"
      <3>1. state' = state
        BY <1>1, <1>8, <2>2 DEF ApplyPendingUpdates
      <3>2. state' = [state EXCEPT ![u.client] = "WAITING"]
        BY <1>3, <2>2, <3>1 DEF TypeOK, ClientTypeOK
      <3>3. QED
        BY <1>1, <1>2, <1>3, <1>5, <1>6, <1>8, <2>1, <3>2 DEF Reads
    <2>3. CASE state[u.client] # "WAITING"
      <3>1. state' = [state EXCEPT ![u.client] = "WAITING"]
        BY <1>1, <1>6, <1>8, <2>3 DEF ApplyPendingUpdates, Joined
      <3>2. QED
        BY <1>1, <1>2, <1>3, <1>5, <1>6, <1>8, <2>1, <3>1 DEF Reads
    <2>4. QED
      BY <2>2, <2>3
  <1>9. QED
    BY <1>7, <1>8

\* The control thread takes a request, works on it, or posts its answer.
Takes ==
    /\ queue # <<>> /\ queue' = Tail(queue)
    /\ ctl.update.client = NoClient
    /\ ctl'.update.client = Head(queue).client /\ ctl'.pc # "post"
    /\ UNCHANGED <<inbox, issued>>
Works ==
    /\ UNCHANGED <<queue, inbox>>
    /\ ctl'.update.client = ctl.update.client
    /\ issued' \in {issued, issued + 1}
    /\ ctl'.pc = "post" /\ ~ctl'.update.failed =>
          \/ ctl' = ctl /\ issued' = issued
          \/ /\ ctl.update \in Update
             /\ issued' = issued + 1 /\ ctl'.update.creds.readyAt = issued'
Posts ==
    /\ ctl.pc = "post" /\ ctl.update \in Update
    /\ Deliver(ctl.update)
    /\ ctl' = Waiting
    /\ UNCHANGED <<queue, issued>>

\* Every other step is one of those three and leaves the clients alone.
LEMMA ControlEffect ==
    ASSUME TypeOK, ControlStep \/ ShutdownQueue \/ Tick \/ Stopped \/ UNCHANGED vars
    PROVE  /\ UNCHANGED <<state, creds, gaveUp, rx>>
           /\ Takes \/ Works \/ Posts
  <1>1. CASE Pop
    <2>1. ctl.update.client = NoClient
      BY <1>1 DEF Pop, TypeOK, ControlTypeOK, ControlFree, ControlBusy, NoUpdate
    <2>2. QED
      BY <1>1, <2>1 DEF Pop, Takes, clientVars, apiVars
  <1>2. CASE PopShutdown
    <2>1. ctl'.pc = "done" /\ ctl'.update = ctl.update
      BY <1>2 DEF PopShutdown, TypeOK, ControlTypeOK, ControlFree, ControlBusy
    <2>2. QED
      BY <1>2, <2>1 DEF PopShutdown, Works, clientVars, apiVars
  <1>3. ASSUME ctl.pc \in {"refresh", "assign", "post"}
        PROVE  ctl.update \in Update
    BY <1>3 DEF TypeOK, ControlTypeOK, ControlFree, ControlBusy
  <1>4. ASSUME NEW kept \in BOOLEAN, RefreshToken(kept)
        PROVE  UNCHANGED <<state, creds, gaveUp, rx>> /\ Works
    <2>1. CASE kept
      BY <1>3, <1>4, <2>1 DEF RefreshToken, Proceed, Works, clientVars
    <2>2. CASE ~kept
      BY <1>4, <2>2 DEF RefreshToken, Proceed, Works, clientVars
    <2>3. QED
      BY <2>1, <2>2
  <1>5. CASE RefreshFails
    BY <1>5 DEF RefreshFails, GiveUp, Works, clientVars, apiVars
  <1>6. ASSUME NEW s \in Server, AssignServer(s)
        PROVE  UNCHANGED <<state, creds, gaveUp, rx>> /\ Works
    BY <1>3, <1>6 DEF AssignServer, Proceed, Works, clientVars
  <1>7. CASE AssignFails
    BY <1>7 DEF AssignFails, GiveUp, Retry, Works, clientVars, apiVars
  <1>8. CASE PostUpdate
    BY <1>3, <1>8 DEF PostUpdate, Posts, clientVars, apiVars
  <1>9. CASE ShutdownQueue \/ Tick \/ Stopped \/ UNCHANGED vars
    BY <1>9 DEF ShutdownQueue, Tick, Stopped, vars, Works, clientVars, controlVars, apiVars
  <1>10. QED
    BY <1>1, <1>2, <1>4, <1>5, <1>6, <1>7, <1>8, <1>9 DEF ControlStep

\* What is in the inboxes once the head of one has been read.
LEMMA InboxTail ==
    ASSUME TypeOK, NEW w \in Worker, inbox[w] # <<>>,
           inbox' = [inbox EXCEPT ![w] = Tail(inbox[w])],
           NEW v \in Worker, NEW i \in DOMAIN inbox'[v]
    PROVE  LET j == IF v = w THEN i + 1 ELSE i
           IN  j \in DOMAIN inbox[v] /\ inbox'[v][i] = inbox[v][j]
  <1>1. inbox[w] \in Seq(Update) /\ inbox[v] \in Seq(Update)
    BY DEF TypeOK, ControlTypeOK
  <1>2. CASE v = w
    <2>1. inbox'[v] = Tail(inbox[w])
      BY <1>2 DEF TypeOK, ControlTypeOK
    <2>2. i \in DOMAIN Tail(inbox[w])
      BY <2>1
    <2>3. i + 1 \in DOMAIN inbox[w] /\ Tail(inbox[w])[i] = inbox[w][i + 1]
      BY <1>1, <2>2
    <2>4. QED
      BY <1>2, <2>1, <2>3
  <1>3. CASE v # w
    BY <1>3 DEF TypeOK, ControlTypeOK
  <1>4. QED
    BY <1>2, <1>3

\* What is in the inboxes once an answer has been posted.
LEMMA InboxAppend ==
    ASSUME TypeOK, NEW w \in Worker, NEW u \in Update,
           inbox' = [inbox EXCEPT ![w] = Append(inbox[w], u)],
           NEW v \in Worker, NEW i \in DOMAIN inbox'[v]
    PROVE  \/ i \in DOMAIN inbox[v] /\ inbox'[v][i] = inbox[v][i]
           \/ /\ v = w /\ inbox'[v][i] = u
              /\ i \in Nat /\ \A j \in DOMAIN inbox[v] : j \in Nat /\ j < i
  <1>1. inbox[w] \in Seq(Update) /\ inbox[v] \in Seq(Update)
    BY DEF TypeOK, ControlTypeOK
  <1>2. CASE v = w
    <2>1. inbox'[v] = Append(inbox[w], u)
      BY <1>2 DEF TypeOK, ControlTypeOK
    <2>2. i \in DOMAIN Append(inbox[w], u)
      BY <2>1
    <2>3. QED
      BY <1>1, <1>2, <2>1, <2>2
  <1>3. CASE v # w
    BY <1>3 DEF TypeOK, ControlTypeOK
  <1>4. QED
    BY <1>2, <1>3

-----------------------------------------------------------------------------
(* The pipeline holds only what belongs there.                             *)

\* A question of a client is the only thing an operation on it adds.
LEMMA AsksOwn ==
    ASSUME TypeOK, NEW c \in Client, queue' = queue \/ AsksOnce(c) \/ AsksTwice(c)
    PROVE  \A d \in Client \ {c} : Has(queue', d) => Has(queue, d)
  <1>1. queue \in Seq(Request)
    BY DEF TypeOK, ControlTypeOK
  <1>2. CASE AsksOnce(c)
    <2>1. PICK r \in Request : r.client = c /\ queue' = Append(queue, r)
      BY <1>2 DEF AsksOnce
    <2>2. QED
      BY <1>1, <2>1, HasAppend
  <1>3. CASE AsksTwice(c)
    <2>1. PICK q \in Request, r \in Request :
              q.client = c /\ r.client = c /\ queue' = Append(Append(queue, q), r)
      BY <1>3 DEF AsksTwice
    <2>2. PICK s : s = Append(queue, q)
      OBVIOUS
    <2>3. s \in Seq(Request) /\ queue' = Append(s, r)
      BY <1>1, <2>1, <2>2
    <2>4. \A d \in Client \ {c} : Has(s, d) => Has(queue, d)
      BY <1>1, <2>1, <2>2, HasAppend
    <2>5. QED
      BY <2>1, <2>3, <2>4, HasAppend
  <1>4. QED
    BY <1>2, <1>3

\* An operation on a client keeps the pipeline: it asks only for itself.
LEMMA PipeClient ==
    ASSUME TypeOK, PipeInv, NEW c \in Client, ClientStep(c)
    PROVE  PipeInv'
  <1> USE DEF PipeInv
  <1>1. CASE \E s \in Server : AddClient(c, s)
    <2>1. PICK s \in Server : AddClient(c, s)
      BY <1>1
    <2>2. /\ state[c] = "NONE" /\ UNCHANGED <<queue, ctl, inbox, rx>>
          /\ \A d \in Client \ {c} : state'[d] = state[d]
      BY <2>1 DEF AddClient, controlVars, TypeOK, ClientTypeOK
    <2>3. ~Involved(c)
      BY <2>2 DEF OnlyJoinedAsk, Joined
    <2>4. \A d \in Client : Involved(d)' => Involved(d)
      BY <2>2 DEF Involved, InHand
    <2>5. QED
      BY <2>2, <2>3, <2>4 DEF OnlyJoinedAsk, AnswersAtHome, Joined
  <1>2. CASE /\ GoesOn(c) \/ Activates(c) \/ Parks(c)
             /\ DatagramOf(c)
             /\ UNCHANGED <<creds, gaveUp, ctl, inbox, issued>>
    <2>1. \A d \in Client \ {c} : Has(queue', d) => Has(queue, d)
      BY <1>2, AsksOwn DEF GoesOn, Activates, Parks
    <2>2. \A d \in Client \ {c} : Involved(d)' => Involved(d)
      BY <1>2, <2>1 DEF Involved, InHand, DatagramOf
    <2>3. \A d \in Client \ {c} : state'[d] = state[d]
      BY <1>2 DEF GoesOn, Activates, Parks, TypeOK, ClientTypeOK
    <2>4. \A d \in Client \ {c} : Involved(d)' => Joined(d)'
      BY <2>2, <2>3 DEF OnlyJoinedAsk, Joined
    <2>5. Involved(c)' => Joined(c)'
      <3>1. CASE GoesOn(c)
        <4>1. CASE queue' = queue
          BY <1>2, <3>1, <4>1 DEF GoesOn, DatagramOf, OnlyJoinedAsk, Involved, InHand, Joined
        <4>2. CASE state[c] = "ACTIVE"
          BY <3>1, <4>2 DEF GoesOn, Joined
        <4>3. QED
          BY <3>1, <4>1, <4>2 DEF GoesOn
      <3>2. CASE Activates(c) \/ Parks(c)
        BY <3>2 DEF Activates, Parks, Joined, TypeOK, ClientTypeOK
      <3>3. QED
        BY <1>2, <3>1, <3>2
    <2>6. QED
      BY <1>2, <2>4, <2>5 DEF OnlyJoinedAsk, AnswersAtHome
  <1>3. QED
    BY <1>1, <1>2, ClientEffect

\* A worker's step keeps the pipeline: it takes an answer out, or clients over.
LEMMA PipeWorker ==
    ASSUME TypeOK, PipeInv, NEW w \in Worker, WorkerStep(w)
    PROVE  PipeInv'
  <1> USE DEF PipeInv
  <1>1. ASSUME \A d \in Client : Involved(d)' => Involved(d),
               \A d \in Client : Joined(d) => Joined(d)',
               AnswersAtHome'
        PROVE  PipeInv'
    BY <1>1 DEF OnlyJoinedAsk
  <1>2. CASE ApplyPendingClients(w)
    <2>1. /\ UNCHANGED <<queue, ctl, inbox, rx>>
          /\ \A d \in Client : state'[d] = state[d] \/ state'[d] = "WAITING"
      BY <1>2 DEF ApplyPendingClients, controlVars
    <2>2. QED
      BY <1>1, <2>1 DEF AnswersAtHome, Involved, InHand, Joined
  <1>3. CASE EndDatagram(w) \/ StopWorker(w)
    <2>1. /\ UNCHANGED <<state, queue, ctl, inbox>>
          /\ \A v \in Worker : rx'[v] = rx[v] \/ rx'[v] = NoClient
      BY <1>3 DEF EndDatagram, StopWorker, clientVars, controlVars, TypeOK, ControlTypeOK
    <2>2. \A d \in Client : Involved(d)' => Involved(d)
      BY <2>1, ConstantsAssumption DEF Involved, InHand
    <2>3. QED
      BY <1>1, <2>1, <2>2 DEF AnswersAtHome, Joined
  <1>4. CASE ApplyPendingUpdates(w)
    <2>1. PICK u \in Update :
              /\ inbox[w] \in Seq(Update) /\ inbox[w] # <<>> /\ u = Head(inbox[w])
              /\ inbox' = [inbox EXCEPT ![w] = Tail(inbox[w])]
              /\ u.client \in Client /\ WorkerOf[u.client] = w /\ Joined(u.client)
              /\ Reads(u)
      BY <1>4, UpdateEffect
    <2>2. ASSUME NEW v \in Worker, NEW i \in DOMAIN inbox'[v]
          PROVE  \E j \in DOMAIN inbox[v] : inbox'[v][i] = inbox[v][j]
      BY <2>1, <2>2, InboxTail
    <2>3. AnswersAtHome'
      BY <2>2 DEF AnswersAtHome
    <2>4. \A d \in Client, v \in Worker : Has(inbox'[v], d) => Has(inbox[v], d)
      BY <2>2 DEF Has
    <2>5. \A d \in Client : Involved(d)' => Involved(d)
      BY <2>1, <2>4 DEF Reads, Involved, InHand
    <2>6. \A d \in Client : Joined(d) => Joined(d)'
      BY <2>1 DEF Reads, Joined, TypeOK, ClientTypeOK
    <2>7. QED
      BY <1>1, <2>3, <2>5, <2>6
  <1>5. QED
    BY <1>2, <1>3, <1>4 DEF WorkerStep

\* The control thread posts an answer to the worker of its client.
LEMMA PipeControl ==
    ASSUME TypeOK, PipeInv,
           ControlStep \/ ShutdownQueue \/ Tick \/ Stopped \/ UNCHANGED vars
    PROVE  PipeInv'
  <1> USE DEF PipeInv
  <1>1. UNCHANGED <<state, rx>>
    BY ControlEffect
  <1>2. ASSUME \A d \in Client : Involved(d)' => Involved(d), AnswersAtHome'
        PROVE  PipeInv'
    BY <1>1, <1>2 DEF OnlyJoinedAsk, Joined
  <1>3. CASE Takes
    <2>1. \A d \in Client : Involved(d)' => Involved(d)
      BY <1>1, <1>3, HasTail DEF Takes, Involved, InHand, TypeOK, ControlTypeOK
    <2>2. QED
      BY <1>2, <1>3, <2>1 DEF Takes, AnswersAtHome
  <1>4. CASE Works
    BY <1>1, <1>2, <1>4 DEF Works, Involved, InHand, AnswersAtHome
  <1>5. CASE Posts
    <2> DEFINE u == ctl.update
               w == WorkerOf[u.client]
    <2>1. u \in Update /\ u.client \in Client
      BY <1>5 DEF Posts, Update
    <2>2. w \in Worker /\ inbox' = [inbox EXCEPT ![w] = Append(inbox[w], u)]
      BY <1>5, <2>1, ConstantsAssumption DEF Posts, Deliver
    <2>3. ASSUME NEW v \in Worker, NEW i \in DOMAIN inbox'[v]
          PROVE  \/ \E j \in DOMAIN inbox[v] : inbox'[v][i] = inbox[v][j]
                 \/ v = w /\ inbox'[v][i] = u
      BY <2>1, <2>2, <2>3, InboxAppend
    <2>4. AnswersAtHome'
      BY <2>3 DEF AnswersAtHome
    <2>5. \A d \in Client, v \in Worker : Has(inbox'[v], d) => Has(inbox[v], d) \/ InHand(d)
      BY <2>3 DEF Has, InHand
    <2>6. \A d \in Client : ~InHand(d)' /\ (Has(queue, d)' <=> Has(queue, d))
      BY <1>5, ConstantsAssumption DEF Posts, InHand, Waiting, NoUpdate
    <2>7. QED
      BY <1>1, <1>2, <2>4, <2>5, <2>6 DEF Involved
  <1>6. QED
    BY <1>3, <1>4, <1>5, ControlEffect

\* Questions and answers belong to clients that their workers have taken over,
\* and every answer is in the inbox of its client's worker.
LEMMA PipeHolds == Spec => []PipeInv
  <1>1. Init => PipeInv
    BY ConstantsAssumption
    DEF Init, PipeInv, OnlyJoinedAsk, AnswersAtHome, Involved, Has, InHand, Waiting, NoUpdate
  <1>2. TypeOK /\ PipeInv /\ [Next]_vars => PipeInv'
    BY PipeClient, PipeWorker, PipeControl DEF Next
  <1>3. QED
    BY <1>1, <1>2, TypeCorrect, PTL DEF Spec

-----------------------------------------------------------------------------
(* Assignments are applied in the order in which they were obtained.       *)

\* The types the order is about.
LEMMA OrderTypes ==
    ASSUME TypeOK
    PROVE  /\ issued \in Nat
           /\ \A c \in Client : creds[c].readyAt \in Nat
           /\ \A w \in Worker : inbox[w] \in Seq(Update)
           /\ \A w \in Worker : \A i \in DOMAIN inbox[w] :
                 /\ i \in Nat /\ inbox[w][i].client \in Client
                 /\ inbox[w][i].creds.readyAt \in Nat
  <1>1. issued \in Nat /\ \A c \in Client : creds[c].readyAt \in Nat
    BY DEF TypeOK, ClientTypeOK, ApiTypeOK, Creds
  <1>2. \A w \in Worker : inbox[w] \in Seq(Update)
    BY DEF TypeOK, ControlTypeOK
  <1>3. \A w \in Worker : \A i \in DOMAIN inbox[w] : i \in Nat /\ inbox[w][i] \in Update
    BY <1>2
  <1>4. \A u \in Update : u.client \in Client /\ u.creds.readyAt \in Nat
    BY DEF Update, Creds
  <1>5. QED
    BY <1>1, <1>2, <1>3, <1>4

\* Neither new deadlines nor new clients come before what is under way.
LEMMA OrderClient ==
    ASSUME TypeOK, PipeInv, OrderInv, NEW c \in Client, ClientStep(c)
    PROVE  OrderInv' /\ \A d \in Client : creds'[d].readyAt >= creds[d].readyAt
  <1> USE DEF OrderInv
  <1>1. CASE \E s \in Server : AddClient(c, s)
    <2>1. PICK s \in Server : AddClient(c, s)
      BY <1>1
    <2>2. /\ state[c] = "NONE" /\ UNCHANGED <<ctl, inbox>>
          /\ issued' = issued + 1 /\ creds'[c].readyAt = issued + 1
          /\ \A d \in Client \ {c} : creds'[d] = creds[d]
      BY <2>1 DEF AddClient, controlVars, TypeOK, ClientTypeOK
    <2>3. ~Involved(c)
      BY <2>2 DEF PipeInv, OnlyJoinedAsk, Joined
    <2>4. \A w \in Worker : \A i \in DOMAIN inbox[w] : inbox[w][i].client # c
      BY <2>3 DEF Involved, Has
    <2>5. ctl.update.client # c
      BY <2>3 DEF Involved, InHand
    <2>6. CredsBehind' /\ \A d \in Client : creds'[d].readyAt >= creds[d].readyAt
      BY <2>2, OrderTypes DEF CredsBehind
    <2>7. InboxAhead'
      BY <2>2, <2>4, OrderTypes DEF InboxAhead
    <2>8. InboxSorted'
      BY <2>2 DEF InboxSorted
    <2>9. HandNewest'
      <3>1. ASSUME ctl.pc = "post", ~ctl.update.failed
            PROVE  /\ ctl.update.client \in Client /\ ctl.update.creds.readyAt \in Nat
        BY <3>1 DEF TypeOK, ControlTypeOK, ControlFree, ControlBusy, Update, Creds
      <3>2. QED
        BY <2>2, <2>5, <3>1, OrderTypes DEF HandNewest
    <2>10. QED
      BY <2>6, <2>7, <2>8, <2>9
  <1>2. CASE UNCHANGED <<creds, ctl, inbox, issued>>
    <2>1. OrderInv'
      BY <1>2 DEF CredsBehind, InboxAhead, InboxSorted, HandNewest
    <2>2. QED
      BY <1>2, <2>1, OrderTypes
  <1>3. QED
    BY <1>1, <1>2, ClientEffect

\* Reading an answer makes its deadline the client's: the answers behind it in
\* the same inbox, the only one with answers for that client, are no older.
LEMMA OrderWorker ==
    ASSUME TypeOK, PipeInv, OrderInv, NEW w \in Worker, WorkerStep(w)
    PROVE  OrderInv' /\ \A d \in Client : creds'[d].readyAt >= creds[d].readyAt
  <1> USE DEF OrderInv
  <1>1. CASE ApplyPendingClients(w) \/ EndDatagram(w) \/ StopWorker(w)
    <2>1. UNCHANGED <<creds, ctl, inbox, issued>>
      BY <1>1 DEF ApplyPendingClients, EndDatagram, StopWorker, clientVars, controlVars, apiVars
    <2>2. OrderInv'
      BY <2>1 DEF CredsBehind, InboxAhead, InboxSorted, HandNewest
    <2>3. QED
      BY <2>1, <2>2, OrderTypes
  <1>2. CASE ApplyPendingUpdates(w)
    <2>1. PICK u \in Update :
              /\ inbox[w] \in Seq(Update) /\ inbox[w] # <<>> /\ u = Head(inbox[w])
              /\ inbox' = [inbox EXCEPT ![w] = Tail(inbox[w])]
              /\ u.client \in Client /\ WorkerOf[u.client] = w /\ Joined(u.client)
              /\ Reads(u)
      BY <1>2, UpdateEffect
    <2>2. 1 \in DOMAIN inbox[w] /\ inbox[w][1] = u
      BY <2>1
    <2>3. /\ UNCHANGED <<ctl, issued>>
          /\ \A d \in Client : \/ creds'[d] = creds[d]
                               \/ d = u.client /\ ~u.failed /\ creds'[d] = u.creds
      BY <2>1 DEF Reads, TypeOK, ClientTypeOK
    <2>4. ~u.failed => /\ creds[u.client].readyAt <= u.creds.readyAt
                       /\ u.creds.readyAt <= issued
      BY <2>2 DEF InboxAhead
    <2>5. u.creds.readyAt \in Nat
      BY <2>1 DEF Update, Creds
    <2>6. \A d \in Client : creds'[d].readyAt >= creds[d].readyAt
      BY <2>3, <2>4, <2>5, OrderTypes
    <2>7. CredsBehind'
      BY <2>3, <2>4 DEF CredsBehind
    <2>8. InboxAhead'
      <3>1. ASSUME NEW v \in Worker, NEW i \in DOMAIN inbox'[v], ~inbox'[v][i].failed
            PROVE  /\ creds'[inbox'[v][i].client].readyAt <= inbox'[v][i].creds.readyAt
                   /\ inbox'[v][i].creds.readyAt <= issued
        <4>1. PICK j \in DOMAIN inbox[v] :
                  inbox'[v][i] = inbox[v][j] /\ (v = w => j = i + 1)
          <5>1. /\ (IF v = w THEN i + 1 ELSE i) \in DOMAIN inbox[v]
                /\ inbox'[v][i] = inbox[v][IF v = w THEN i + 1 ELSE i]
            BY <2>1, InboxTail
          <5>2. QED
            BY <5>1
        <4>2. /\ creds[inbox[v][j].client].readyAt <= inbox[v][j].creds.readyAt
              /\ inbox[v][j].creds.readyAt <= issued
          BY <3>1, <4>1 DEF InboxAhead
        <4>3. CASE inbox[v][j].client = u.client /\ ~u.failed
          <5>1. v = w
            BY <2>1, <4>3 DEF PipeInv, AnswersAtHome
          <5>2. 1 < j
            <6>1. i \in Nat /\ i >= 1
              <7>1. inbox'[w] = Tail(inbox[w]) /\ Tail(inbox[w]) \in Seq(Update)
                BY <2>1 DEF TypeOK, ControlTypeOK
              <7>2. i \in DOMAIN Tail(inbox[w])
                BY <5>1, <7>1
              <7>3. QED
                BY <7>1, <7>2
            <6>2. QED
              BY <4>1, <5>1, <6>1
          <5>3. u.creds.readyAt <= inbox[v][j].creds.readyAt
            BY <2>2, <3>1, <4>1, <4>3, <5>1, <5>2 DEF InboxSorted
          <5>4. creds'[u.client] = u.creds
            BY <2>1, <4>3 DEF Reads, TypeOK, ClientTypeOK
          <5>5. QED
            BY <4>1, <4>2, <4>3, <5>3, <5>4
        <4>4. CASE ~(inbox[v][j].client = u.client /\ ~u.failed)
          <5>1. inbox[v][j].client \in Client
            BY OrderTypes
          <5>2. QED
            BY <2>3, <4>1, <4>2, <4>4, <5>1
        <4>5. QED
          BY <4>3, <4>4
      <3>2. QED
        BY <2>3, <3>1 DEF InboxAhead
    <2>9. InboxSorted'
      <3>1. ASSUME NEW v \in Worker, NEW i \in DOMAIN inbox'[v], NEW k \in DOMAIN inbox'[v],
                   i < k, ~inbox'[v][i].failed, ~inbox'[v][k].failed
            PROVE  inbox'[v][i].creds.readyAt <= inbox'[v][k].creds.readyAt
        <4>1. /\ (IF v = w THEN i + 1 ELSE i) \in DOMAIN inbox[v]
              /\ inbox'[v][i] = inbox[v][IF v = w THEN i + 1 ELSE i]
          BY <2>1, InboxTail
        <4>2. /\ (IF v = w THEN k + 1 ELSE k) \in DOMAIN inbox[v]
              /\ inbox'[v][k] = inbox[v][IF v = w THEN k + 1 ELSE k]
          BY <2>1, InboxTail
        <4>3. i \in Nat /\ k \in Nat
          <5>1. inbox'[v] \in Seq(Update)
            BY <2>1 DEF TypeOK, ControlTypeOK
          <5>2. QED
            BY <5>1
        <4>4. CASE v = w
          BY <3>1, <4>1, <4>2, <4>3, <4>4 DEF InboxSorted
        <4>5. CASE v # w
          BY <3>1, <4>1, <4>2, <4>5 DEF InboxSorted
        <4>6. QED
          BY <4>4, <4>5
      <3>2. QED
        BY <3>1 DEF InboxSorted
    <2>10. HandNewest'
      <3>1. SUFFICES ASSUME ctl.pc = "post", ~ctl.update.failed PROVE HandNewest'
        BY <2>3 DEF HandNewest
      <3>2. /\ creds[ctl.update.client].readyAt <= ctl.update.creds.readyAt
            /\ ctl.update.creds.readyAt <= issued
            /\ \A v \in Worker : \A i \in DOMAIN inbox[v] :
                  ~inbox[v][i].failed => inbox[v][i].creds.readyAt <= ctl.update.creds.readyAt
        BY <3>1 DEF HandNewest
      <3>3. ctl.update.client \in Client
        BY <3>1 DEF TypeOK, ControlTypeOK, ControlFree, ControlBusy, Update
      <3>4. creds'[ctl.update.client].readyAt <= ctl.update.creds.readyAt
        BY <2>2, <2>3, <3>2, <3>3
      <3>5. ASSUME NEW v \in Worker, NEW i \in DOMAIN inbox'[v], ~inbox'[v][i].failed
            PROVE  inbox'[v][i].creds.readyAt <= ctl.update.creds.readyAt
        <4>1. \E j \in DOMAIN inbox[v] : inbox'[v][i] = inbox[v][j]
          BY <2>1, InboxTail
        <4>2. QED
          BY <3>2, <3>5, <4>1
      <3>6. QED
        BY <2>3, <3>2, <3>4, <3>5 DEF HandNewest
    <2>11. QED
      BY <2>6, <2>7, <2>8, <2>9, <2>10
  <1>3. QED
    BY <1>1, <1>2 DEF WorkerStep

\* A new answer is newer than every posted one, and is posted behind them.
LEMMA OrderControl ==
    ASSUME TypeOK, OrderInv,
           ControlStep \/ ShutdownQueue \/ Tick \/ Stopped \/ UNCHANGED vars
    PROVE  OrderInv' /\ \A d \in Client : creds'[d].readyAt >= creds[d].readyAt
  <1> USE DEF OrderInv
  <1>1. creds' = creds /\ \A d \in Client : creds'[d].readyAt >= creds[d].readyAt
    BY ControlEffect, OrderTypes
  <1>2. ASSUME inbox' = inbox, issued' \in {issued, issued + 1}
        PROVE  CredsBehind' /\ InboxAhead' /\ InboxSorted'
    BY <1>1, <1>2, OrderTypes DEF CredsBehind, InboxAhead, InboxSorted
  <1>3. CASE Takes
    <2>1. HandNewest'
      BY <1>3 DEF Takes, HandNewest
    <2>2. QED
      BY <1>1, <1>2, <1>3, <2>1 DEF Takes
  <1>4. CASE Works
    <2>1. CASE ctl' = ctl /\ issued' = issued
      BY <1>1, <1>2, <1>4, <2>1 DEF Works, HandNewest
    <2>2. CASE /\ ctl.update \in Update
               /\ issued' = issued + 1 /\ ctl'.update.creds.readyAt = issued'
      <3>1. ctl.update.client \in Client
        BY <2>2 DEF Update
      <3>2. HandNewest'
        BY <1>1, <1>4, <2>2, <3>1, OrderTypes
        DEF Works, HandNewest, CredsBehind, InboxAhead
      <3>3. QED
        BY <1>1, <1>2, <1>4, <3>2 DEF Works
    <2>3. CASE ~(ctl'.pc = "post" /\ ~ctl'.update.failed)
      BY <1>1, <1>2, <1>4, <2>3 DEF Works, HandNewest
    <2>4. QED
      BY <1>4, <2>1, <2>2, <2>3 DEF Works
  <1>5. CASE Posts
    <2> DEFINE u == ctl.update
               w == WorkerOf[u.client]
    <2>1. u \in Update /\ u.client \in Client
      BY <1>5 DEF Posts, Update
    <2>2. /\ w \in Worker /\ inbox' = [inbox EXCEPT ![w] = Append(inbox[w], u)]
          /\ issued' = issued /\ ctl' = Waiting
      BY <1>5, <2>1, ConstantsAssumption DEF Posts, Deliver
    <2>3. ~u.failed => /\ creds[u.client].readyAt <= u.creds.readyAt
                       /\ u.creds.readyAt <= issued
                       /\ \A v \in Worker : \A i \in DOMAIN inbox[v] :
                             ~inbox[v][i].failed => inbox[v][i].creds.readyAt <= u.creds.readyAt
      BY <1>5 DEF Posts, HandNewest
    <2>4. CredsBehind' /\ HandNewest'
      BY <1>1, <2>2 DEF CredsBehind, HandNewest, Waiting
    <2> HIDE DEF u, w
    <2>5. ASSUME NEW v \in Worker, NEW i \in DOMAIN inbox'[v]
          PROVE  \/ i \in DOMAIN inbox[v] /\ inbox'[v][i] = inbox[v][i]
                 \/ /\ v = w /\ inbox'[v][i] = u
                    /\ i \in Nat /\ \A j \in DOMAIN inbox[v] : j \in Nat /\ j < i
      BY <2>1, <2>2, InboxAppend
    <2>6. InboxAhead'
      <3>1. ASSUME NEW v \in Worker, NEW i \in DOMAIN inbox'[v], ~inbox'[v][i].failed
            PROVE  /\ creds[inbox'[v][i].client].readyAt <= inbox'[v][i].creds.readyAt
                   /\ inbox'[v][i].creds.readyAt <= issued
        BY <2>3, <2>5, <3>1 DEF InboxAhead
      <3>2. QED
        BY <1>1, <2>2, <3>1 DEF InboxAhead
    <2>7. InboxSorted'
      <3>1. ASSUME NEW v \in Worker, NEW i \in DOMAIN inbox'[v], NEW k \in DOMAIN inbox'[v],
                   i < k, ~inbox'[v][i].failed, ~inbox'[v][k].failed
            PROVE  inbox'[v][i].creds.readyAt <= inbox'[v][k].creds.readyAt
        <4>1. CASE k \in DOMAIN inbox[v] /\ inbox'[v][k] = inbox[v][k]
          <5>1. i \in DOMAIN inbox[v] /\ inbox'[v][i] = inbox[v][i]
            BY <2>5, <3>1, <4>1
          <5>2. QED
            BY <3>1, <4>1, <5>1 DEF InboxSorted
        <4>2. CASE inbox'[v][k] = u
          <5>1. CASE i \in DOMAIN inbox[v] /\ inbox'[v][i] = inbox[v][i]
            BY <2>3, <3>1, <4>2, <5>1
          <5>2. CASE inbox'[v][i] = u
            <6>1. u.creds.readyAt \in Nat
              BY <2>1 DEF Update, Creds
            <6>2. QED
              BY <4>2, <5>2, <6>1
          <5>3. QED
            BY <2>5, <5>1, <5>2
        <4>3. QED
          BY <2>5, <4>1, <4>2
      <3>2. QED
        BY <3>1 DEF InboxSorted
    <2>8. QED
      BY <1>1, <2>4, <2>6, <2>7
  <1>6. QED
    BY <1>3, <1>4, <1>5, ControlEffect

\* Every step keeps the order and takes no client back to an older assignment.
LEMMA OrderStep ==
    ASSUME TypeOK, PipeInv, OrderInv, [Next]_vars
    PROVE  OrderInv' /\ \A c \in Client : creds'[c].readyAt >= creds[c].readyAt
  BY OrderClient, OrderWorker, OrderControl DEF Next

\* An assignment never replaces a later one, although a background refresh and
\* a suspension put two requests of one client into the pipeline: the queue,
\* the one control thread and the inbox keep the order in which deadlines were
\* obtained (controlLoop, postUpdate, applyPendingUpdates).
THEOREM AssignmentsStayInOrder == Spec => AssignmentsInOrder
  <1>1. Init => OrderInv
    BY DEF Init, OrderInv, CredsBehind, InboxAhead, InboxSorted, HandNewest, NoCreds, Waiting
  <1>2. TypeOK /\ PipeInv /\ OrderInv /\ [Next]_vars => OrderInv'
    BY OrderStep
  <1>3. TypeOK /\ PipeInv /\ OrderInv /\ [Next]_vars
          => [\A c \in Client : creds'[c].readyAt >= creds[c].readyAt]_vars
    BY OrderStep
  <1>4. QED
    BY <1>1, <1>2, <1>3, TypeCorrect, PipeHolds, PTL DEF Spec, AssignmentsInOrder

-----------------------------------------------------------------------------
(* Counting the requests and answers of a client.                          *)

\* A sequence holds finitely many elements of a client.
LEMMA CountType ==
    ASSUME NEW R, NEW s \in Seq(R), NEW c
    PROVE  /\ IsFiniteSet({i \in DOMAIN s : s[i].client = c})
           /\ CountOf(s, c) \in Nat
  <1>1. IsFiniteSet(1 .. Len(s)) /\ DOMAIN s = 1 .. Len(s)
    BY FS_Interval
  <1>2. IsFiniteSet({i \in DOMAIN s : s[i].client = c})
    BY <1>1, FS_Subset
  <1>3. QED
    BY <1>2, FS_CardinalityType DEF CountOf

IsOf(r, c) == IF r.client = c THEN 1 ELSE 0

\* A sequence of one element has one element of that element's client.
LEMMA CountOne ==
    ASSUME NEW r, NEW c PROVE CountOf(<<r>>, c) = IsOf(r, c)
  <1> DEFINE A == {i \in DOMAIN <<r>> : <<r>>[i].client = c}
  <1>1. CASE r.client = c
    <2>1. A = {1}
      BY <1>1
    <2>2. QED
      BY <1>1, <2>1, FS_Singleton DEF CountOf, IsOf
  <1>2. CASE r.client # c
    <2>1. A = {}
      BY <1>2
    <2>2. QED
      BY <1>2, <2>1, FS_EmptySet DEF CountOf, IsOf
  <1>3. QED
    BY <1>1, <1>2

\* Appending an element adds one to the count of its client alone.
LEMMA CountAppend ==
    ASSUME NEW R, NEW s \in Seq(R), NEW r \in R, NEW c
    PROVE  CountOf(Append(s, r), c) = CountOf(s, c) + IsOf(r, c)
  <1> DEFINE A == {i \in DOMAIN s : s[i].client = c}
             t == Append(s, r)
             B == {i \in DOMAIN t : t[i].client = c}
             n == Len(s) + 1
  <1>1. IsFiniteSet(A) /\ Cardinality(A) \in Nat
    BY CountType DEF CountOf
  <1>2. CASE r.client = c
    <2>1. B = A \union {n} /\ n \notin A
      BY <1>2
    <2>2. Cardinality(B) = Cardinality(A) + 1
      BY <1>1, <2>1, FS_AddElement
    <2>3. QED
      BY <1>2, <2>2 DEF CountOf, IsOf
  <1>3. CASE r.client # c
    <2>1. B = A
      BY <1>3
    <2> HIDE DEF A, B
    <2>2. Cardinality(B) = Cardinality(A)
      BY <2>1, Zenon
    <2>3. Cardinality(B) = Cardinality(A) + 0
      BY <1>1, <2>2
    <2>4. QED
      BY <1>3, <2>3 DEF CountOf, IsOf, A, B
  <1>4. QED
    BY <1>2, <1>3

\* Taking the head takes one from the count of its client alone: the others
\* move down by one place.
LEMMA CountTail ==
    ASSUME NEW R, NEW s \in Seq(R), s # <<>>, NEW c
    PROVE  CountOf(s, c) = CountOf(Tail(s), c) + IsOf(Head(s), c)
  <1> DEFINE A == {i \in DOMAIN s : s[i].client = c}
             t == Tail(s)
             B == {i \in DOMAIN t : t[i].client = c}
             f == [i \in B |-> i + 1]
  <1>0. t \in Seq(R) /\ Head(s) = s[1]
    OBVIOUS
  <1>1. IsFiniteSet(A) /\ IsFiniteSet(B) /\ Cardinality(A) \in Nat /\ Cardinality(B) \in Nat
    BY <1>0, CountType DEF CountOf
  <1>2. ExistsBijection(B, A \ {1})
    <2>1. f \in [B -> A \ {1}]
      <3>1. ASSUME NEW i \in B PROVE i + 1 \in A \ {1}
        BY <3>1
      <3>2. QED
        BY <3>1
    <2>2. \A i, j \in B : f[i] = f[j] => i = j
      OBVIOUS
    <2>3. \A k \in A \ {1} : \E i \in B : f[i] = k
      <3>1. ASSUME NEW k \in A \ {1} PROVE k - 1 \in B
        BY <3>1
      <3>2. ASSUME NEW k \in A \ {1} PROVE f[k - 1] = k
        BY <3>1, <3>2
      <3>3. QED
        BY <3>1, <3>2
    <2> HIDE DEF f, A, B
    <2>4. QED
      BY <2>1, <2>2, <2>3
      DEF ExistsBijection, Bijection, Injection, Surjection, IsInjective
  <1>3. Cardinality(A \ {1}) = Cardinality(B)
    BY <1>1, <1>2, FS_Bijection
  <1>4. CASE s[1].client = c
    <2>1. 1 \in A
      BY <1>4
    <2>2. Cardinality(A \ {1}) = Cardinality(A) - 1
      BY <1>1, <2>1, FS_RemoveElement
    <2> HIDE DEF A, B
    <2>3. Cardinality(A) = Cardinality(B) + 1
      BY <1>1, <1>3, <2>2
    <2>4. QED
      BY <1>0, <1>4, <2>3 DEF CountOf, IsOf, A, B
  <1>5. CASE s[1].client # c
    <2>1. A \ {1} = A
      BY <1>5
    <2> HIDE DEF A, B
    <2>2. Cardinality(A \ {1}) = Cardinality(A)
      BY <2>1, Zenon
    <2>3. Cardinality(A) = Cardinality(B) + 0
      BY <1>1, <1>3, <2>2
    <2>4. QED
      BY <1>0, <1>5, <2>3 DEF CountOf, IsOf, A, B
  <1>6. QED
    BY <1>4, <1>5

-----------------------------------------------------------------------------
(* What the steps do to the answers a client has coming.                   *)

\* The three places where an answer can be coming from.
LEMMA OwedParts ==
    ASSUME TypeOK, NEW c \in Client
    PROVE  /\ CountOf(queue, c) \in Nat
           /\ CountOf(<<ctl.update>>, c) = IsOf(ctl.update, c)
           /\ WorkerOf[c] \in Worker /\ inbox[WorkerOf[c]] \in Seq(Update)
           /\ CountOf(inbox[WorkerOf[c]], c) \in Nat
           /\ Owed(c) \in Nat
  <1>1. queue \in Seq(Request) /\ WorkerOf[c] \in Worker /\ inbox[WorkerOf[c]] \in Seq(Update)
    BY ConstantsAssumption DEF TypeOK, ControlTypeOK
  <1>2. CountOf(queue, c) \in Nat /\ CountOf(inbox[WorkerOf[c]], c) \in Nat
    BY <1>1, CountType
  <1>3. CountOf(<<ctl.update>>, c) = IsOf(ctl.update, c)
    BY CountOne
  <1>4. QED
    BY <1>1, <1>2, <1>3 DEF Owed, IsOf

\* The debts are those of a function that differs by n for one client.
LEMMA OwedMove ==
    ASSUME TypeOK, NEW c \in Client, NEW n \in Int, Owed(c)' = Owed(c) + n,
           \A d \in Client \ {c} : Owed(d)' = Owed(d)
    PROVE  owedTo' = [owedTo EXCEPT ![c] = owedTo[c] + n]
  <1>1. owedTo[c] = Owed(c)
    BY DEF owedTo
  <1>2. \A d \in Client : Owed(d)' = IF d = c THEN Owed(c) + n ELSE Owed(d)
    OBVIOUS
  <1>3. QED
    BY <1>1, <1>2 DEF owedTo

\* Each question adds one answer to those its client has coming.
LEMMA OwedAsk ==
    ASSUME TypeOK, NEW c \in Client, UNCHANGED <<ctl, inbox>>
    PROVE  /\ queue' = queue => owedTo' = owedTo
           /\ AsksOnce(c) => owedTo' = [owedTo EXCEPT ![c] = owedTo[c] + 1]
           /\ AsksTwice(c) => owedTo' = [owedTo EXCEPT ![c] = owedTo[c] + 2]
  <1>1. queue \in Seq(Request)
    BY DEF TypeOK, ControlTypeOK
  <1>2. ASSUME queue' = queue PROVE owedTo' = owedTo
    BY <1>2 DEF owedTo, Owed
  <1>3. ASSUME NEW n \in Nat,
               \A d \in Client : CountOf(queue', d) = CountOf(queue, d) + (IF d = c THEN n ELSE 0)
        PROVE  owedTo' = [owedTo EXCEPT ![c] = owedTo[c] + n]
    <2>1. \A d \in Client : Owed(d)' = Owed(d) + (IF d = c THEN n ELSE 0)
      <3>1. ASSUME NEW d \in Client PROVE Owed(d)' = Owed(d) + (IF d = c THEN n ELSE 0)
        <4>1. /\ CountOf(queue, d) \in Nat /\ CountOf(inbox[WorkerOf[d]], d) \in Nat
              /\ CountOf(<<ctl.update>>, d) \in Nat
          BY OwedParts DEF IsOf
        <4>2. Owed(d)' = CountOf(queue', d) + CountOf(<<ctl.update>>, d)
                         + CountOf(inbox[WorkerOf[d]], d)
          BY DEF Owed
        <4>3. QED
          BY <1>3, <4>1, <4>2 DEF Owed
      <3>2. QED
        BY <3>1
    <2>2. \A d \in Client : Owed(d) \in Nat
      BY OwedParts
    <2>3. Owed(c)' = Owed(c) + n /\ \A d \in Client \ {c} : Owed(d)' = Owed(d)
      BY <2>1, <2>2
    <2>4. QED
      BY <2>3, OwedMove
  <1>4. ASSUME AsksOnce(c) PROVE owedTo' = [owedTo EXCEPT ![c] = owedTo[c] + 1]
    <2>1. PICK r \in Request : r.client = c /\ queue' = Append(queue, r)
      BY <1>4 DEF AsksOnce
    <2>2. \A d \in Client : CountOf(queue', d) = CountOf(queue, d) + (IF d = c THEN 1 ELSE 0)
      BY <1>1, <2>1, CountAppend DEF IsOf
    <2>3. QED
      BY <1>3, <2>2
  <1>5. ASSUME AsksTwice(c) PROVE owedTo' = [owedTo EXCEPT ![c] = owedTo[c] + 2]
    <2>1. PICK q \in Request, r \in Request :
              q.client = c /\ r.client = c /\ queue' = Append(Append(queue, q), r)
      BY <1>5 DEF AsksTwice
    <2>2. PICK s : s = Append(queue, q)
      OBVIOUS
    <2>3. s \in Seq(Request) /\ queue' = Append(s, r)
      BY <1>1, <2>1, <2>2
    <2>4. \A d \in Client : CountOf(s, d) = CountOf(queue, d) + (IF d = c THEN 1 ELSE 0)
      BY <1>1, <2>1, <2>2, CountAppend DEF IsOf
    <2>5. \A d \in Client : CountOf(queue', d) = CountOf(s, d) + (IF d = c THEN 1 ELSE 0)
      BY <2>1, <2>3, CountAppend DEF IsOf
    <2>6. \A d \in Client : CountOf(queue', d) = CountOf(queue, d) + (IF d = c THEN 2 ELSE 0)
      BY <2>4, <2>5, OwedParts
    <2>7. QED
      BY <1>3, <2>6
  <1>6. QED
    BY <1>2, <1>4, <1>5

\* Reading an answer takes one from those its client has coming.
LEMMA OwedRead ==
    ASSUME TypeOK, NEW w \in Worker, NEW u \in Update,
           inbox[w] # <<>>, u = Head(inbox[w]),
           inbox' = [inbox EXCEPT ![w] = Tail(inbox[w])],
           u.client \in Client, WorkerOf[u.client] = w, UNCHANGED <<queue, ctl>>
    PROVE  /\ owedTo[u.client] > 0
           /\ owedTo' = [owedTo EXCEPT ![u.client] = owedTo[u.client] - 1]
  <1>1. ASSUME NEW d \in Client
        PROVE  CountOf(inbox'[WorkerOf[d]], d) =
                 CountOf(inbox[WorkerOf[d]], d) - (IF d = u.client THEN 1 ELSE 0)
    <2>1. CASE WorkerOf[d] = w
      <3>1. inbox'[w] = Tail(inbox[w]) /\ Tail(inbox[w]) \in Seq(Update)
        BY DEF TypeOK, ControlTypeOK
      <3>2. CountOf(inbox[w], d) = CountOf(Tail(inbox[w]), d) + IsOf(u, d)
        BY CountTail DEF TypeOK, ControlTypeOK
      <3>3. CountOf(Tail(inbox[w]), d) \in Nat
        BY <3>1, CountType
      <3>4. QED
        BY <2>1, <3>1, <3>2, <3>3 DEF IsOf
    <2>2. CASE WorkerOf[d] # w
      <3>1. inbox'[WorkerOf[d]] = inbox[WorkerOf[d]] /\ d # u.client
        BY <2>2, OwedParts DEF TypeOK, ControlTypeOK
      <3>2. QED
        BY <3>1, OwedParts
    <2>3. QED
      BY <2>1, <2>2
  <1>2. ASSUME NEW d \in Client
        PROVE  Owed(d)' = Owed(d) - (IF d = u.client THEN 1 ELSE 0)
    <2>1. /\ CountOf(queue, d) \in Nat /\ CountOf(inbox[WorkerOf[d]], d) \in Nat
          /\ CountOf(<<ctl.update>>, d) \in Nat
      BY OwedParts DEF IsOf
    <2>2. Owed(d)' = CountOf(queue, d) + CountOf(<<ctl.update>>, d)
                     + CountOf(inbox'[WorkerOf[d]], d)
      BY DEF Owed
    <2>3. QED
      BY <1>1, <2>1, <2>2 DEF Owed
  <1>3. \A d \in Client : Owed(d) \in Nat
    BY OwedParts
  <1>4. /\ Owed(u.client)' = Owed(u.client) + (0 - 1)
        /\ \A d \in Client \ {u.client} : Owed(d)' = Owed(d)
    BY <1>2, <1>3
  <1>5. owedTo' = [owedTo EXCEPT ![u.client] = owedTo[u.client] + (0 - 1)]
    BY <1>4, OwedMove
  <1>6. owedTo[u.client] > 0
    <2>1. inbox[w] \in Seq(Update) /\ Tail(inbox[w]) \in Seq(Update)
      BY DEF TypeOK, ControlTypeOK
    <2>2. CountOf(inbox[w], u.client) = CountOf(Tail(inbox[w]), u.client) + IsOf(u, u.client)
      BY <2>1, CountTail
    <2>3. CountOf(Tail(inbox[w]), u.client) \in Nat
      BY <2>1, CountType
    <2>4. CountOf(inbox[w], u.client) > 0
      BY <2>2, <2>3 DEF IsOf
    <2>5. CountOf(queue, u.client) \in Nat /\ CountOf(<<ctl.update>>, u.client) \in Nat
      BY OwedParts DEF IsOf
    <2>6. CountOf(inbox[w], u.client) \in Nat
      BY OwedParts
    <2>7. owedTo[u.client] = CountOf(queue, u.client) + CountOf(<<ctl.update>>, u.client)
                             + CountOf(inbox[w], u.client)
      BY DEF owedTo, Owed
    <2>8. QED
      BY <2>4, <2>5, <2>6, <2>7
  <1>7. owedTo[u.client] \in Nat
    BY <1>3 DEF owedTo
  <1>8. owedTo[u.client] + (0 - 1) = owedTo[u.client] - 1
    BY <1>7
  <1>9. QED
    BY <1>5, <1>6, <1>8

\* The control thread moves answers along and neither makes nor loses one.
LEMMA OwedControl ==
    ASSUME TypeOK, Takes \/ Works \/ Posts
    PROVE  owedTo' = owedTo
  <1>1. SUFFICES ASSUME NEW d \in Client PROVE Owed(d)' = Owed(d)
    BY DEF owedTo
  <1>2. /\ CountOf(queue, d) \in Nat /\ CountOf(inbox[WorkerOf[d]], d) \in Nat
        /\ CountOf(<<ctl.update>>, d) = IsOf(ctl.update, d)
        /\ WorkerOf[d] \in Worker /\ inbox[WorkerOf[d]] \in Seq(Update)
    BY OwedParts
  <1>3. CountOf(<<ctl'.update>>, d) = IsOf(ctl'.update, d)
    BY CountOne
  <1>4. /\ Owed(d) = CountOf(queue, d) + IsOf(ctl.update, d) + CountOf(inbox[WorkerOf[d]], d)
        /\ Owed(d)' = CountOf(queue', d) + IsOf(ctl'.update, d) + CountOf(inbox'[WorkerOf[d]], d)
    BY <1>2, <1>3 DEF Owed
  <1>5. CASE Takes
    <2>1. queue \in Seq(Request) /\ queue # <<>> /\ queue' = Tail(queue) /\ inbox' = inbox
      BY <1>5 DEF Takes, TypeOK, ControlTypeOK
    <2>2. CountOf(queue, d) = CountOf(queue', d) + IsOf(Head(queue), d)
      BY <2>1, CountTail
    <2>3. IsOf(ctl.update, d) = 0 /\ IsOf(ctl'.update, d) = IsOf(Head(queue), d)
      BY <1>5, ConstantsAssumption DEF Takes, IsOf
    <2>4. CountOf(queue', d) \in Nat
      <3>1. Tail(queue) \in Seq(Request)
        BY <2>1
      <3>2. QED
        BY <2>1, <3>1, CountType
    <2>5. IsOf(Head(queue), d) \in Nat
      BY DEF IsOf
    <2>6. QED
      BY <1>2, <1>4, <2>1, <2>2, <2>3, <2>4, <2>5
  <1>6. CASE Works
    <2>1. queue' = queue /\ inbox' = inbox /\ IsOf(ctl'.update, d) = IsOf(ctl.update, d)
      BY <1>6 DEF Works, IsOf
    <2>2. QED
      BY <1>4, <2>1
  <1>7. CASE Posts
    <2>1. PICK u \in Update : u = ctl.update
      BY <1>7 DEF Posts
    <2>2. u.client \in Client /\ WorkerOf[u.client] \in Worker
      BY <2>1, ConstantsAssumption DEF Update
    <2>3. /\ queue' = queue
          /\ inbox' = [inbox EXCEPT ![WorkerOf[u.client]] = Append(inbox[WorkerOf[u.client]], u)]
      BY <1>7, <2>1 DEF Posts, Deliver
    <2>4. IsOf(ctl'.update, d) = 0
      BY <1>7, ConstantsAssumption DEF Posts, Waiting, NoUpdate, IsOf
    <2>5. CountOf(inbox'[WorkerOf[d]], d) = CountOf(inbox[WorkerOf[d]], d) + IsOf(u, d)
      <3>1. CASE WorkerOf[d] = WorkerOf[u.client]
        <4>1. inbox'[WorkerOf[d]] = Append(inbox[WorkerOf[d]], u)
          BY <1>2, <2>3, <3>1 DEF TypeOK, ControlTypeOK
        <4>2. QED
          BY <1>2, <4>1, CountAppend
      <3>2. CASE WorkerOf[d] # WorkerOf[u.client]
        <4>1. inbox'[WorkerOf[d]] = inbox[WorkerOf[d]] /\ IsOf(u, d) = 0
          BY <1>2, <2>2, <2>3, <3>2 DEF TypeOK, ControlTypeOK, IsOf
        <4>2. QED
          BY <1>2, <4>1
      <3>3. QED
        BY <3>1, <3>2
    <2>6. IsOf(u, d) \in Nat
      BY DEF IsOf
    <2>7. QED
      BY <1>2, <1>4, <2>1, <2>3, <2>4, <2>5, <2>6
  <1>8. QED
    BY <1>5, <1>6, <1>7

-----------------------------------------------------------------------------
(* Every step is a step of ClientSession or changes nothing it sees.       *)

\* The phase of one client follows its state.
LEMMA PhaseMove ==
    ASSUME TypeOK, NEW c \in Client, NEW st \in States, state' = [state EXCEPT ![c] = st]
    PROVE  phaseOf' = [phaseOf EXCEPT ![c] = Phase(st)]
  BY DEF TypeOK, ClientTypeOK, phaseOf

\* The phase of each state of a client.
LEMMA PhaseNames ==
    /\ Phase("NONE") = "off" /\ Phase("PENDING") = "off" /\ Phase("WAITING") = "waiting"
    /\ Phase("ACTIVE") = "active" /\ Phase("SUSPENDED") = "suspended"
  BY DEF Phase

\* The abstract next-state relation, stuttering included.
Simulated == [Abstract!SessionNext]_(Abstract!sessionVars)

\* An operation on a client is Ask, Activate or Suspend, or is not seen.
LEMMA ClientSimulates ==
    ASSUME TypeOK, PipeInv, NEW c \in Client, ClientStep(c)
    PROVE  Simulated
  <1>1. phaseOf[c] = Phase(state[c])
    BY DEF phaseOf
  <1>2. CASE \E s \in Server : AddClient(c, s)
    <2>1. PICK s \in Server : AddClient(c, s)
      BY <1>2
    <2>2. /\ state[c] = "NONE" /\ state' = [state EXCEPT ![c] = "PENDING"]
          /\ UNCHANGED <<queue, ctl, inbox, gaveUp>>
      BY <2>1 DEF AddClient, controlVars
    <2>3. phaseOf' = [phaseOf EXCEPT ![c] = "off"]
      BY <2>2, PhaseMove, PhaseNames DEF States
    <2>4. phaseOf' = phaseOf
      BY <1>1, <2>2, <2>3, PhaseNames DEF phaseOf
    <2>5. owedTo' = owedTo
      BY <2>2, OwedAsk
    <2>6. QED
      BY <2>2, <2>4, <2>5 DEF Simulated, Abstract!sessionVars
  <1>3. CASE /\ GoesOn(c) \/ Activates(c) \/ Parks(c)
             /\ UNCHANGED <<gaveUp, ctl, inbox>>
    <2>1. CASE GoesOn(c)
      <3>1. phaseOf' = phaseOf
        BY <2>1 DEF GoesOn, phaseOf
      <3>2. CASE queue' = queue
        BY <1>3, <3>1, <3>2, OwedAsk DEF Simulated, Abstract!sessionVars
      <3>3. CASE state[c] = "ACTIVE" /\ AsksOnce(c)
        <4>1. owedTo' = [owedTo EXCEPT ![c] = owedTo[c] + 1]
          BY <1>3, <3>3, OwedAsk
        <4>2. phaseOf[c] = "active"
          BY <1>1, <3>3, PhaseNames
        <4>3. Abstract!Ask(c)
          BY <1>3, <3>1, <4>1, <4>2 DEF Abstract!Ask
        <4>4. QED
          BY <4>3 DEF Simulated, Abstract!SessionNext
      <3>4. QED
        BY <2>1, <3>2, <3>3 DEF GoesOn
    <2>2. CASE Activates(c)
      <3>1. phaseOf' = [phaseOf EXCEPT ![c] = "active"] /\ phaseOf[c] = "waiting"
        BY <1>1, <2>2, PhaseMove, PhaseNames DEF Activates, States
      <3>2. owedTo' = owedTo
        BY <1>3, <2>2, OwedAsk DEF Activates
      <3>3. Abstract!Activate(c)
        BY <1>3, <3>1, <3>2 DEF Abstract!Activate
      <3>4. QED
        BY <3>3 DEF Simulated, Abstract!SessionNext
    <2>3. CASE Parks(c)
      <3>1. /\ phaseOf' = [phaseOf EXCEPT ![c] = "suspended"]
            /\ phaseOf[c] \in {"waiting", "active"}
        BY <1>1, <2>3, PhaseMove, PhaseNames DEF Parks, States
      <3>2. PICK n \in 1 .. 2 : owedTo' = [owedTo EXCEPT ![c] = owedTo[c] + n]
        <4>1. 1 \in 1 .. 2 /\ 2 \in 1 .. 2
          OBVIOUS
        <4>2. CASE AsksOnce(c)
          BY <1>3, <4>1, <4>2, OwedAsk
        <4>3. CASE AsksTwice(c)
          BY <1>3, <4>1, <4>3, OwedAsk
        <4>4. QED
          BY <2>3, <4>2, <4>3 DEF Parks
      <3>3. Abstract!Suspend(c, n)
        BY <1>3, <3>1, <3>2 DEF Abstract!Suspend
      <3>4. QED
        BY <3>2, <3>3 DEF Simulated, Abstract!SessionNext
    <2>4. QED
      BY <1>3, <2>1, <2>2, <2>3
  <1>4. QED
    BY <1>2, <1>3, ClientEffect

\* A worker's step is JoinAll, Answer or Refuse, or is not seen.
LEMMA WorkerSimulates ==
    ASSUME TypeOK, PipeInv, NEW w \in Worker, WorkerStep(w)
    PROVE  Simulated
  <1>1. CASE ApplyPendingClients(w)
    <2> DEFINE S == {c \in Client : WorkerOf[c] = w /\ state[c] = "PENDING"}
    <2>1. /\ S # {} /\ UNCHANGED <<queue, ctl, inbox, gaveUp>>
          /\ state' = [c \in Client |-> IF c \in S THEN "WAITING" ELSE state[c]]
      BY <1>1 DEF ApplyPendingClients, controlVars
    <2>2. S \in (SUBSET Client) \ {{}}
      BY <2>1
    <2>3. \A c \in S : phaseOf[c] = "off"
      BY PhaseNames DEF phaseOf
    <2> HIDE DEF S
    <2>4. phaseOf' = [c \in Client |-> IF c \in S THEN "waiting" ELSE phaseOf[c]]
      BY <2>1, PhaseNames DEF phaseOf
    <2>5. owedTo' = owedTo
      BY <2>1 DEF owedTo, Owed
    <2>6. Abstract!JoinAll
      BY <2>1, <2>2, <2>3, <2>4, <2>5 DEF Abstract!JoinAll
    <2>7. QED
      BY <2>6 DEF Simulated, Abstract!SessionNext
  <1>2. CASE EndDatagram(w) \/ StopWorker(w)
    BY <1>2 DEF EndDatagram, StopWorker, clientVars, controlVars,
       Simulated, Abstract!sessionVars, phaseOf, owedTo, Owed
  <1>3. CASE ApplyPendingUpdates(w)
    <2>1. PICK u \in Update :
              /\ inbox[w] \in Seq(Update) /\ inbox[w] # <<>> /\ u = Head(inbox[w])
              /\ inbox' = [inbox EXCEPT ![w] = Tail(inbox[w])]
              /\ u.client \in Client /\ WorkerOf[u.client] = w /\ Joined(u.client)
              /\ Reads(u)
      BY <1>3, UpdateEffect
    <2>2. /\ owedTo[u.client] > 0
          /\ owedTo' = [owedTo EXCEPT ![u.client] = owedTo[u.client] - 1]
      BY <2>1, OwedRead DEF Reads
    <2>3. CASE u.failed
      <3>1. /\ state' = state
            /\ gaveUp' = [gaveUp EXCEPT ![u.client] = (state[u.client] = "SUSPENDED")]
        BY <2>1, <2>3 DEF Reads
      <3>2. phaseOf' = phaseOf
        BY <3>1 DEF phaseOf
      <3>3. (phaseOf[u.client] = "suspended") = (state[u.client] = "SUSPENDED")
        BY <2>1, PhaseNames DEF phaseOf, Joined
      <3>4. Abstract!Refuse(u.client)
        BY <2>2, <3>1, <3>2, <3>3 DEF Abstract!Refuse
      <3>5. QED
        BY <2>1, <3>4 DEF Simulated, Abstract!SessionNext
    <2>4. CASE ~u.failed
      <3>1. /\ state' = [state EXCEPT ![u.client] = "WAITING"]
            /\ gaveUp' = [gaveUp EXCEPT ![u.client] = FALSE]
        BY <2>1, <2>4 DEF Reads
      <3>2. phaseOf' = [phaseOf EXCEPT ![u.client] = "waiting"]
        BY <2>1, <3>1, PhaseMove, PhaseNames DEF States
      <3>3. Abstract!Answer(u.client)
        BY <2>2, <3>1, <3>2 DEF Abstract!Answer
      <3>4. QED
        BY <2>1, <3>3 DEF Simulated, Abstract!SessionNext
    <2>5. QED
      BY <2>3, <2>4
  <1>4. QED
    BY <1>1, <1>2, <1>3 DEF WorkerStep

\* ClientSession sees nothing of the control thread at work.
LEMMA ControlSimulates ==
    ASSUME TypeOK, ControlStep \/ ShutdownQueue \/ Tick \/ Stopped \/ UNCHANGED vars
    PROVE  Simulated
  <1>1. UNCHANGED <<state, gaveUp>> /\ (Takes \/ Works \/ Posts)
    BY ControlEffect
  <1>2. owedTo' = owedTo
    BY <1>1, OwedControl
  <1>3. QED
    BY <1>1, <1>2 DEF Simulated, Abstract!sessionVars, phaseOf

\* The queue, the control thread, its retries and the inboxes together behave
\* as ClientSession says: a client that cannot go on asks and stops, every
\* question is answered exactly once, by a new session or a refusal, and no
\* answer reaches a client that did not ask (suspendClient, controlLoop,
\* applyPendingUpdates).
THEOREM SessionControlImplementsClientSession == Spec => ImplementsClientSession
  <1>1. Init => Abstract!SessionInit
    <2> SUFFICES ASSUME Init PROVE Abstract!SessionInit
      OBVIOUS
    <2>1. phaseOf = [c \in Client |-> "off"]
      BY PhaseNames DEF Init, phaseOf
    <2>2. ASSUME NEW c \in Client PROVE Owed(c) = 0
      <3>1. WorkerOf[c] \in Worker
        BY ConstantsAssumption
      <3>2. CountOf(<<>>, c) = 0
        <4>1. {i \in DOMAIN <<>> : <<>>[i].client = c} = {}
          OBVIOUS
        <4>2. QED
          BY <4>1, FS_EmptySet DEF CountOf
      <3>3. CountOf(<<ctl.update>>, c) = 0
        BY CountOne, ConstantsAssumption DEF Init, Waiting, NoUpdate, IsOf
      <3>4. queue = <<>> /\ inbox[WorkerOf[c]] = <<>>
        BY <3>1 DEF Init
      <3>5. QED
        BY <3>2, <3>3, <3>4 DEF Owed
    <2>3. owedTo = [c \in Client |-> 0]
      BY <2>2 DEF owedTo
    <2>4. QED
      BY <2>1, <2>3 DEF Init, Abstract!SessionInit
  <1>2. TypeOK /\ PipeInv /\ [Next]_vars => [Abstract!SessionNext]_(Abstract!sessionVars)
    BY ClientSimulates, WorkerSimulates, ControlSimulates DEF Next, Simulated
  <1>3. QED
    BY <1>1, <1>2, TypeCorrect, PipeHolds, PTL
    DEF Spec, ImplementsClientSession, Abstract!SessionSpec
=============================================================================
