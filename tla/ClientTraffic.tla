---------------------------- MODULE ClientTraffic ----------------------------
(***************************************************************************)
(* One client on the wire: it walks and sends (Walk), its Buddy answers    *)
(* (Wire), and the worker tells apart the refusals that the server's       *)
(* permission cache explains from those that nothing explains              *)
(* (handleDatagram in Worker.cpp).  The Buddy is external, modelled from   *)
(* what the comments and the README say of it: it keeps a few boxes of     *)
(* chunks, each around a place where a lookup ran, and refuses what is     *)
(* sent from outside them; a refusal makes it evict what it pleases and    *)
(* look up again, which takes a while.                                     *)
(*                                                                         *)
(* Time is counted in ticks; grace periods are countdowns.  What suspends  *)
(* and reassigns a client is the subject of SessionControl: here it may    *)
(* happen at any time.                                                     *)
(***************************************************************************)
EXTENDS Walk, Wire, FiniteSets

CONSTANTS
    Radii,          \* permWindowRadiusChunks: the values looked at
    ServerRadius,   \* external: what that is an assumption about
    Grace,          \* FIRST_CONTACT_GRACE_MS, in ticks
    Episode,        \* permReloadGraceMs, in ticks
    LoadTicks,      \* external: how long a lookup takes at most, backoff included
    MaxBoxes,       \* external: how many boxes are kept for a client
    Flight,         \* external: how long an answer may be under way
    MaxFlying,      \* bound: refusals under way at once
    Lengths         \* bound: lengths of the datagrams looked at

ASSUME TrafficAssumption ==
    /\ Radii \subseteq Nat /\ ServerRadius \in Nat
    /\ LoadTicks \in Nat \ {0} /\ Flight \in Nat
    /\ MaxBoxes \in Nat \ {0} /\ MaxFlying \in Nat /\ Grace \in Nat /\ Episode \in Nat
    /\ Lengths \subseteq 0 .. RecvBuffer

VARIABLES
    up,             \* ACTIVE, as opposed to suspended or waiting
    centre,         \* permWindowCenterX, Y, Z
    grace, episode, \* what is left of the periods begun at activatedAt, permReloadAt
    filed,          \* how the refusal just handled was classified
    radius,         \* permWindowRadiusChunks
    faulty,         \* external: a Buddy that never grants the client anything
    boxes, lookup,  \* external: centres of the granted boxes; lookup under way
    flying,         \* refusals on their way to the client
    noticed,        \* history: re-centred since the last lookup began
    seen            \* history: the chunks it was in; {} once two are more than radius apart

clientVars == <<up, centre, grace, episode, filed>>
settings == <<radius, faulty>>
serverVars == <<boxes, lookup, flying>>
histVars == <<noticed, seen>>
trafficVars == <<walkVars, wireVars, clientVars, settings, serverVars, histVars>>

NoChunk == [a \in {} |-> 0]
NoLookup == [to |-> NoChunk, left |-> 0]

\* The test of the client's box: more than R chunks off on some axis.
SlipBeyond(c, from) == \E a \in Axis : Abs(c[a] - from[a]) >= radius
Beyond(c, from) == \E a \in Axis : Abs(c[a] - from[a]) > radius

-----------------------------------------------------------------------------
(* The Buddy (external).                                                   *)

Granted(c) == \E b \in boxes : \A a \in Axis : Abs(c[a] - b[a]) <= ServerRadius

\* A refusal says nothing; what it came from is kept for the properties:
\* `crossing' is a packet sent from outside a box that is centred where the
\* client thinks it is, `last' holds while no other lookup has begun since.
Refusal(c) == [from |-> c, crossing |-> centre \in boxes, last |-> TRUE, age |-> 0]

\* An update from chunk c.  While a lookup is under way another place may
\* become the one it runs at.
Serve(c) ==
    \/ Granted(c) /\ UNCHANGED <<boxes, lookup, flying, noticed>>
    \/ /\ ~Granted(c) /\ lookup = NoLookup
       /\ \E n \in 1 .. LoadTicks : lookup' = [to |-> c, left |-> n]
       /\ boxes' \in SUBSET boxes /\ Cardinality(boxes') < MaxBoxes
       /\ flying' = {[r EXCEPT !.last = FALSE] : r \in flying} \union {Refusal(c)}
       /\ noticed' = FALSE
    \/ /\ ~Granted(c) /\ lookup # NoLookup
       /\ lookup' \in {lookup, [lookup EXCEPT !.to = c]}
       /\ flying' = flying \union {Refusal(c)}
       /\ UNCHANGED <<boxes, noticed>>

\* The network loses a refusal.
Lose(r) ==
    /\ rxPc = "idle"
    /\ flying' = flying \ {r}
    /\ UNCHANGED <<walkVars, wireVars, clientVars, settings, boxes, lookup, histVars>>

SlipCountdown(n) == n - 1
Countdown(n) == IF n = 0 THEN 0 ELSE n - 1

\* Time passes, and the lookup comes back: with the box, or with nothing.
Tick ==
    /\ rxPc = "idle" /\ \A r \in flying : r.age < Flight
    /\ grace' = Countdown(grace) /\ episode' = Countdown(episode)
    /\ flying' = {[r EXCEPT !.age = @ + 1] : r \in flying}
    /\ lookup' = IF lookup.left <= 1 THEN NoLookup ELSE [lookup EXCEPT !.left = @ - 1]
    /\ boxes' = IF lookup.left = 1 /\ ~faulty THEN boxes \union {lookup.to} ELSE boxes
    /\ UNCHANGED <<walkVars, wireVars, up, centre, filed, settings, histVars>>

-----------------------------------------------------------------------------
(* The worker.                                                             *)

\* activateDueClients: a fresh assignment on a Buddy that knows nothing of the
\* client, and a new socket; if that fails to open, the client is suspended
\* again.  The reload episode is not forgotten.
Activate ==
    /\ ~up /\ rxPc = "idle"
    /\ up' \in BOOLEAN /\ centre' = Chunk /\ grace' = Grace
    /\ boxes' = {} /\ lookup' = NoLookup /\ flying' = {} /\ noticed' = FALSE
    /\ UNCHANGED <<walkVars, wireVars, episode, filed, settings, seen>>

\* Two places more than the radius apart, on some axis.
Apart(places) == \E c, d \in places, a \in Axis : c[a] - d[a] > radius

\* The send of sendDueUpdates: a step of the walk, then the packet with the
\* chunk it leads to, which the network may lose.
Send(step, lost) ==
    /\ up /\ rxPc = "idle"
    /\ UpdateWalk(step)
    /\ IF step \in Steps THEN UNCHANGED stalls ELSE stalls < MaxStalls /\ stalls' = stalls + 1
    /\ seen' = IF seen = {} \/ Apart(seen \union {Chunk'}) THEN {} ELSE seen \union {Chunk'}
    /\ IF lost THEN UNCHANGED <<boxes, lookup, flying, noticed>>
       ELSE Cardinality(flying) < MaxFlying /\ Serve(Chunk')
    /\ UNCHANGED <<wireVars, clientVars, settings>>

\* suspendClient, or a move to another server.  (In the middle of a datagram the
\* messages left of it are still handled, so it is taken to happen after them.)
Suspend ==
    /\ up /\ rxPc = "idle"
    /\ up' = FALSE
    /\ UNCHANGED <<walkVars, wireVars, centre, grace, episode, filed, settings, serverVars, histVars>>

\* A refusal among the messages of the datagram at hand: first contact, the
\* crossing of the box or a follow-on of one, or unexplained.
Unexplained(r) ==
    [as |-> "unexplained", noticed |-> noticed /\ r.last,
     crossing |-> r.crossing /\ r.from = Chunk]
Filed(as) == [as |-> as, noticed |-> FALSE, crossing |-> FALSE]

SlipClassify(r) ==
    CASE grace > 0 -> filed' = Filed("firstContact") /\ UNCHANGED <<centre, episode, noticed>>
      [] grace = 0 /\ Beyond(Chunk, centre) ->
             /\ filed' = Filed("windowReload")
             /\ centre' = Chunk /\ episode' = Episode /\ noticed' = TRUE
      [] OTHER -> filed' = Unexplained(r) /\ UNCHANGED <<centre, episode, noticed>>
Classify(r) ==
    CASE grace > 0 -> filed' = Filed("firstContact") /\ UNCHANGED <<centre, episode, noticed>>
      [] grace = 0 /\ episode > 0 ->
             filed' = Filed("windowReload") /\ UNCHANGED <<centre, episode, noticed>>
      [] grace = 0 /\ episode = 0 /\ Beyond(Chunk, centre) ->
             /\ filed' = Filed("windowReload")
             /\ centre' = Chunk /\ episode' = Episode /\ noticed' = TRUE
      [] OTHER -> filed' = Unexplained(r) /\ UNCHANGED <<centre, episode, noticed>>

\* The callback on one message.  A datagram may be delivered twice.
HandleRefusal(r, again) ==
    /\ member.len >= 3
    /\ MemberDone /\ Classify(r)
    /\ flying' = IF again THEN flying ELSE flying \ {r}
    /\ UNCHANGED <<walkVars, up, grace, settings, boxes, lookup, seen>>

HandleOther ==
    /\ MemberDone /\ filed' = Filed("none")
    /\ UNCHANGED <<walkVars, up, centre, grace, episode, settings, serverVars, histVars>>

\* drainSocket and the walk through the datagram.
Drain ==
    /\ \/ up /\ \E kind \in Kinds, len \in Lengths, authentic \in BOOLEAN :
              Receive(kind, len, authentic)
       \/ \E msgLen \in 0 .. LengthMax : TakeMember(msgLen)
       \/ WalkDone
    /\ filed' = Filed("none")
    /\ UNCHANGED <<walkVars, up, centre, grace, episode, settings, serverVars, histVars>>

-----------------------------------------------------------------------------
Init ==
    /\ WalkInit /\ WireInit
    /\ up = FALSE /\ centre = Chunk /\ grace = 0 /\ episode = 0 /\ filed = Filed("none")
    /\ radius \in Radii /\ faulty \in BOOLEAN
    /\ boxes = {} /\ lookup = NoLookup /\ flying = {}
    /\ noticed = FALSE /\ seen = {Chunk}

Next ==
    \/ Activate \/ Suspend \/ Tick \/ Drain \/ HandleOther
    \/ \E step \in Steps \union Stalls, lost \in BOOLEAN : Send(step, lost)
    \/ \E r \in flying : Lose(r) \/ \E again \in BOOLEAN : HandleRefusal(r, again)

Spec == Init /\ [][Next]_trafficVars

-----------------------------------------------------------------------------
(* Properties.                                                             *)

\* Every variable has its type.
TypeOK ==
    /\ WalkTypeOK /\ WireTypeOK
    /\ up \in BOOLEAN /\ centre \in [Axis -> Int]
    /\ grace \in 0 .. Grace /\ episode \in 0 .. Episode
    /\ filed \in [as : {"none", "firstContact", "windowReload", "unexplained"},
                  noticed : BOOLEAN, crossing : BOOLEAN]
    /\ radius \in Radii /\ faulty \in BOOLEAN
    /\ boxes \subseteq [Axis -> Int]
    /\ lookup \in [to : [Axis -> Int] \union {NoChunk}, left : 0 .. LoadTicks]
    /\ flying \subseteq [from : [Axis -> Int], crossing : BOOLEAN, last : BOOLEAN,
                         age : 0 .. Flight]
    /\ noticed \in BOOLEAN /\ seen \subseteq [Axis -> Int]

\* If the reload grace covers a lookup and the way back, then of what a Buddy
\* refuses these are not reported as unexplained: whatever a lookup refuses,
\* once the client has re-centred since that lookup began, however late it
\* arrives; and, if the radius is not larger than the Buddy's, a packet from
\* outside a box centred where the client thinks it is, as long as the client
\* still stands where it sent it.  (A refusal by a Buddy whose boxes are all
\* centred elsewhere, or of a client that has walked on, may be: README,
\* "Expect a residual of a few percent here even on a healthy tier".)
RefusalsExplained ==
    LoadTicks + Flight <= Episode =>
        ~filed.noticed /\ (radius <= ServerRadius => ~filed.crossing)

\* Worker.cpp: "both a stationary walk and a spawn radius of 0 produce none at
\* all -- so this is geometry, not a clock".  A client never has a refusal
\* explained away as a crossing before it was in two chunks more than the
\* radius apart, whatever its Buddy refuses and however often it is reassigned
\* meanwhile: a missing permission stays visible as unexplained.
CrossingsAreGeometry == filed.as = "windowReload" => seen = {}

-----------------------------------------------------------------------------
(* What the comments say and the code contradicts.                         *)

\* SimClient.hpp, on permWindowCenter: "re-centred whenever a refusal triggers
\* a re-query".  The modelled centre is one of the server's, once the lookup
\* is back and the refusals it caused have arrived: not so after a crossing
\* within the reload grace of another, or when the crossing's refusals were
\* lost.
CentreFollowsLookup ==
    boxes # {} /\ lookup = NoLookup /\ flying = {} => centre \in boxes
=============================================================================
