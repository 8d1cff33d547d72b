----------------------------- MODULE TrafficProofs -----------------------------
(***************************************************************************)
(* A client on the wire, for every geometry, length of step, layout,       *)
(* datagram and order of losses, answers and time: its walk stays in its   *)
(* region (updateWalk's reflections may overshoot, its clamps do not),     *)
(* handleDatagram reads nothing outside the bytes it received, and a       *)
(* refusal is filed as what caused it.                                     *)
(***************************************************************************)
EXTENDS ClientTraffic, TLAPS

-----------------------------------------------------------------------------
(* The walk.                                                               *)

\* A position inside the c-th of k chunks of size s is inside all of them.
LEMMA Multiples ==
    ASSUME NEW m \in Int, NEW k \in Nat, NEW c \in Int, NEW s \in Nat \ {0}, NEW j \in Int,
           0 <= c, c < k, 0 <= j, j <= s
    PROVE  /\ (m + c) * s + j \in Int /\ m * s \in Int /\ k * s \in Int
           /\ m * s <= (m + c) * s + j
           /\ (m + c) * s + j <= m * s + k * s
<1>1. m * s \in Int /\ k * s \in Int /\ c * s \in Int /\ (m + c) * s = m * s + c * s
  OBVIOUS
<1>2. 0 <= c * s
  OBVIOUS
<1>3. k * s = (c + 1) * s + (k - c - 1) * s /\ (k - c - 1) * s \in Nat
  OBVIOUS
<1>4. (c + 1) * s = c * s + s
  OBVIOUS
<1> QED
  BY <1>1, <1>2, <1>3, <1>4

\* Reflected at both ends and clamped, a coordinate is between them.
LEMMA BounceStays ==
    ASSUME NEW v \in Int, NEW lo \in Int, NEW hi \in Int, lo <= hi
    PROVE  Bounce(v, lo, hi) \in lo .. hi
BY DEF Bounce, Reflected

\* The inductive invariant: the walk is typed and where it belongs.
Home == home \in [Horizontal -> Int]
WalkInv ==
    /\ shape \in Shapes
    /\ world \in [Axis -> Int] /\ heading \in [Axis -> -1 .. 1]
    /\ Home /\ Confined

\* The region does not move, and is not empty.
LEMMA RegionProper ==
    ASSUME Home, NEW a \in Axis, shape = "cube" \/ (shape = "sparse" /\ a \in Horizontal)
    PROVE  Lo(a) \in Int /\ Hi(a) \in Int /\ Lo(a) <= Hi(a)
<1>1. ChunkSize \in Nat \ {0} /\ VolumeChunks \in Nat \ {0} /\ VolumeBaseUp \in Int
  BY WalkAssumption
<1>2. CubeMin(a) \in Int
  BY <1>1 DEF CubeMin
<1>3. 1 * ChunkSize \in Nat /\ VolumeChunks * ChunkSize \in Nat
  BY <1>1
<1>4. Lo(a) \in Int
  <2>1. CASE shape = "sparse" /\ a \in Horizontal
    <3>1. home[a] \in Int
      BY <2>1 DEF Home
    <3> QED
      BY <1>1, <2>1, <3>1 DEF Lo
  <2>2. CASE shape = "cube"
    BY <1>1, <1>2, <2>2 DEF Lo
  <2> QED
    BY <2>1, <2>2
<1> QED
  BY <1>3, <1>4 DEF Hi

\* A client starts inside its region.
LEMMA WalkInitInv == WalkInit => WalkInv
<1> SUFFICES ASSUME WalkInit
             PROVE  WalkInv
  OBVIOUS
<1>1. /\ ChunkSize \in Nat \ {0} /\ VolumeChunks \in Nat \ {0} /\ VolumeBaseUp \in Int
      /\ SparseRange \in Nat /\ SpawnRadius \in Nat /\ Up \notin Horizontal
  BY WalkAssumption
<1>2. shape \in Shapes /\ heading \in [Axis -> -1 .. 1]
  BY DEF WalkInit, Headings
<1>3. CASE shape = "sparse" /\ PlaceSparse
  <2>1. home \in [Horizontal -> Int]
    BY <1>1, <1>3 DEF PlaceSparse
  <2>2. PICK j \in [Horizontal -> 1 .. ChunkSize - 1] :
            world = [a \in Axis |-> IF a = Up THEN 0 ELSE home[a] * ChunkSize + j[a]]
    BY <1>3 DEF PlaceSparse
  <2>3. ASSUME NEW a \in Horizontal
        PROVE  world[a] \in Int /\ world[a] \in Lo(a) .. Hi(a)
    <3>1. world[a] = home[a] * ChunkSize + j[a] /\ home[a] \in Int /\ j[a] \in 1 .. ChunkSize - 1
      BY <1>1, <2>1, <2>2 DEF Axis
    <3>2. home[a] * ChunkSize \in Int /\ 1 * ChunkSize = ChunkSize
      BY <1>1, <3>1
    <3>3. Lo(a) = home[a] * ChunkSize /\ Hi(a) = home[a] * ChunkSize + ChunkSize
      BY <1>3, <3>2 DEF Lo, Hi
    <3> QED
      BY <1>1, <3>1, <3>2, <3>3
  <2>4. world \in [Axis -> Int]
    <3>1. world[Up] \in Int
      BY <2>2 DEF Axis
    <3>2. \A a \in Horizontal : world[a] \in Int
      BY <2>3
    <3>3. \A a \in Axis : world[a] \in Int
      BY <3>1, <3>2 DEF Axis
    <3> QED
      BY <2>2, <3>3
  <2> QED
    BY <1>2, <1>3, <2>1, <2>3, <2>4 DEF WalkInv, Home, Confined
<1>4. CASE shape = "cube" /\ PlaceInCube
  <2>1. home \in [Horizontal -> Int]
    BY <1>4 DEF PlaceInCube
  <2>2. PICK c \in [Axis -> 0 .. VolumeChunks - 1], j \in [Axis -> 1 .. ChunkSize - 1] :
            world = [a \in Axis |-> (CubeMin(a) + c[a]) * ChunkSize + j[a]]
    BY <1>4 DEF PlaceInCube
  <2>3. ASSUME NEW a \in Axis
        PROVE  world[a] \in Int /\ world[a] \in Lo(a) .. Hi(a)
    <3>1. /\ world[a] = (CubeMin(a) + c[a]) * ChunkSize + j[a]
          /\ c[a] \in 0 .. VolumeChunks - 1 /\ j[a] \in 1 .. ChunkSize - 1
      BY <2>2
    <3>2. CubeMin(a) \in Int
      BY <1>1 DEF CubeMin
    <3>3. /\ world[a] \in Int /\ CubeMin(a) * ChunkSize \in Int /\ VolumeChunks * ChunkSize \in Int
          /\ CubeMin(a) * ChunkSize <= world[a]
          /\ world[a] <= CubeMin(a) * ChunkSize + VolumeChunks * ChunkSize
      BY <1>1, <3>1, <3>2, Multiples
    <3>4. /\ Lo(a) = CubeMin(a) * ChunkSize
          /\ Hi(a) = CubeMin(a) * ChunkSize + VolumeChunks * ChunkSize
      BY <1>4 DEF Lo, Hi
    <3> QED
      BY <3>3, <3>4
  <2> QED
    BY <1>2, <1>4, <2>1, <2>2, <2>3 DEF WalkInv, Home, Confined
<1>5. CASE shape = "plane" /\ PlaceOnPlane
  <2>1. PICK c \in [Horizontal -> -SpawnRadius .. SpawnRadius] :
            world = [a \in Axis |-> IF a = Up THEN 0 ELSE c[a] * ChunkSize]
    BY <1>5 DEF PlaceOnPlane
  <2>2. \A a \in Horizontal : c[a] * ChunkSize \in Int
    BY <1>1
  <2>3. world \in [Axis -> Int]
    BY <2>1, <2>2 DEF Axis
  <2>4. home \in [Horizontal -> Int]
    BY <1>5 DEF PlaceOnPlane
  <2> QED
    BY <1>2, <1>5, <2>3, <2>4 DEF WalkInv, Home, Confined
<1> QED
  BY <1>3, <1>4, <1>5 DEF WalkInit

\* Headings stay rounded to whole numbers when a coordinate bounces.
LEMMA BounceHeadingStays ==
    ASSUME NEW v \in Int, NEW lo \in Int, NEW hi \in Int, NEW d \in -1 .. 1
    PROVE  BounceHeading(v, d, lo, hi) \in -1 .. 1
BY DEF BounceHeading, Abs

\* A step of any length ends inside the region.
LEMMA UpdateWalkInv ==
    ASSUME WalkInv, NEW step \in Nat, UpdateWalk(step)
    PROVE  WalkInv'
<1>1. /\ shape \in Shapes /\ world \in [Axis -> Int] /\ heading \in [Axis -> -1 .. 1]
      /\ Home /\ Confined /\ Up \notin Horizontal
  BY WalkAssumption DEF WalkInv
<1>2. shape' = shape /\ home' = home
  BY DEF UpdateWalk
<1>3. \A a \in Axis : Lo(a)' = Lo(a) /\ Hi(a)' = Hi(a)
  BY <1>2 DEF Lo, Hi
<1>4. \A a \in Axis : Moved(step)[a] \in Int
  <2>1. \A a \in Axis : heading[a] * step \in Int /\ world[a] \in Int
    BY <1>1
  <2> QED
    BY <2>1 DEF Moved
<1>5. ASSUME NEW a \in Axis, shape = "cube" \/ (shape = "sparse" /\ a \in Horizontal)
      PROVE  /\ Bounce(Moved(step)[a], Lo(a), Hi(a)) \in Lo(a) .. Hi(a)
             /\ Bounce(Moved(step)[a], Lo(a), Hi(a)) \in Int
             /\ BounceHeading(Moved(step)[a], heading[a], Lo(a), Hi(a)) \in -1 .. 1
  <2>1. Lo(a) \in Int /\ Hi(a) \in Int /\ Lo(a) <= Hi(a)
    BY <1>1, <1>5, RegionProper
  <2>2. Moved(step)[a] \in Int /\ heading[a] \in -1 .. 1
    BY <1>1, <1>4
  <2>3. Bounce(Moved(step)[a], Lo(a), Hi(a)) \in Lo(a) .. Hi(a)
    BY <2>1, <2>2, BounceStays
  <2>4. BounceHeading(Moved(step)[a], heading[a], Lo(a), Hi(a)) \in -1 .. 1
    BY <2>1, <2>2, BounceHeadingStays
  <2> QED
    BY <2>1, <2>3, <2>4
<1>6. CASE step = 0
  <2>1. world' = world /\ heading' = heading
    BY <1>6 DEF UpdateWalk
  <2>2. \A a \in Horizontal : a \in Axis
    BY DEF Axis
  <2>3. Confined'
    BY <1>1, <1>2, <1>3, <2>1, <2>2 DEF Confined
  <2> QED
    BY <1>1, <1>2, <2>1, <2>3 DEF WalkInv, Home
<1>7. CASE MoveSparse(step)
  <2>1. \A a \in Horizontal : a \in Axis /\ a # Up
    BY <1>1 DEF Axis
  <2>2. shape = "sparse"
    BY <1>7 DEF MoveSparse
  <2>3. /\ world' = [a \in Axis |-> IF a = Up THEN world[a] ELSE Bounce(Moved(step)[a], Lo(a), Hi(a))]
        /\ heading' = [a \in Axis |-> IF a = Up THEN heading[a]
                           ELSE BounceHeading(Moved(step)[a], heading[a], Lo(a), Hi(a))]
    BY <1>7 DEF MoveSparse
  <2>4. \A a \in Axis : a = Up \/ a \in Horizontal
    BY DEF Axis
  <2>5. world' \in [Axis -> Int] /\ heading' \in [Axis -> -1 .. 1]
    BY <1>1, <1>5, <2>2, <2>3, <2>4
  <2>6. \A a \in Horizontal : world'[a] \in Lo(a) .. Hi(a)
    BY <1>5, <2>1, <2>2, <2>3
  <2>7. Confined'
    BY <1>2, <1>3, <2>1, <2>2, <2>6 DEF Confined
  <2> QED
    BY <1>1, <1>2, <2>5, <2>7 DEF WalkInv, Home
<1>8. CASE MoveInCube(step)
  <2>1. shape = "cube"
    BY <1>8 DEF MoveInCube
  <2>2. world' = [a \in Axis |-> Bounce(Moved(step)[a], Lo(a), Hi(a))]
    BY <1>8 DEF MoveInCube
  <2>3. world' \in [Axis -> Int]
    BY <1>5, <2>1, <2>2
  <2>4. heading' \in [Axis -> -1 .. 1]
    <3>1. CASE heading' = [a \in Axis |-> BounceHeading(Moved(step)[a], heading[a], Lo(a), Hi(a))]
      BY <1>5, <2>1, <3>1
    <3>2. CASE heading' \in Headings
      BY <3>2 DEF Headings
    <3> QED
      BY <1>8, <3>1, <3>2 DEF MoveInCube
  <2>5. Confined'
    BY <1>2, <1>3, <1>5, <2>1, <2>2 DEF Confined
  <2> QED
    BY <1>1, <1>2, <2>3, <2>4, <2>5 DEF WalkInv, Home
<1>9. CASE MoveOnPlane(step)
  <2>1. shape = "plane" /\ world' = Moved(step)
    BY <1>9 DEF MoveOnPlane
  <2>2. world' \in [Axis -> Int]
    BY <1>4, <2>1 DEF Moved
  <2>3. heading' \in [Axis -> -1 .. 1]
    BY <1>1, <1>9 DEF MoveOnPlane
  <2>4. Confined'
    BY <1>2, <2>1 DEF Confined
  <2> QED
    BY <1>1, <1>2, <2>2, <2>3, <2>4 DEF WalkInv, Home
<1> QED
  BY <1>6, <1>7, <1>8, <1>9 DEF UpdateWalk

\* A sparse client never leaves the chunk it owns, nor a client of the cube the
\* cube, for every chunk size, cube, range and walking speed and however long
\* the worker's loop stalls between two updateWalk calls.
THEOREM WalkConfined == WalkSpec => []Confined
<1>1. WalkInv /\ [Stroll]_walkVars => WalkInv'
  <2> SUFFICES ASSUME WalkInv, [Stroll]_walkVars
               PROVE  WalkInv'
    OBVIOUS
  <2>1. CASE Stroll
    <3>1. PICK step \in Nat : UpdateWalk(step)
      BY <2>1, WalkAssumption DEF Stroll
    <3> QED
      BY <3>1, UpdateWalkInv
  <2>2. CASE UNCHANGED walkVars
    BY <2>2 DEF walkVars, WalkInv, Home, Confined, Lo, Hi
  <2> QED
    BY <2>1, <2>2
<1>2. WalkInv => Confined
  BY DEF WalkInv
<1> QED
  BY WalkInitInv, <1>1, <1>2, PTL DEF WalkSpec

-----------------------------------------------------------------------------
(* The datagram.                                                           *)

\* The inductive invariant: the members end inside the datagram, before the
\* tag of a signed bundle, the walk has not passed that end, and the member
\* handed to the callback lies before the walk's offset.
WithinEnd ==
    /\ datagram.end <= datagram.len
    /\ datagram.kind = "signed" => datagram.end = datagram.len - TagSize
    /\ rxPc # "idle" => offset <= datagram.end
    /\ rxPc = "member" => member.at + member.len = offset

WireInv == WireTypeOK /\ WithinEnd

\* Initially no datagram is at hand.
LEMMA WireInitInv == WireInit => WireInv
BY WireAssumption DEF WireInit, WireInv, WireTypeOK, WithinEnd, Nothing, NoMember, Kinds

\* A datagram that is done with leaves nothing behind.
LEMMA ConcludeInv == Conclude => WireInv'
BY WireAssumption DEF Conclude, WireInv, WireTypeOK, WithinEnd, Nothing, NoMember

\* A datagram that was received is walked inside its length.
LEMMA ReceiveInv ==
    ASSUME WireInv,
           NEW kind \in Kinds, NEW len \in 0 .. RecvBuffer, NEW authentic \in BOOLEAN,
           Receive(kind, len, authentic)
    PROVE  WireInv'
<1>1. CASE Conclude
  BY <1>1, ConcludeInv
<1>2. CASE /\ len > 0 /\ kind = "plain"
           /\ datagram' = [kind |-> kind, len |-> len, end |-> len]
           /\ offset' = len /\ member' = [at |-> 0, len |-> len]
           /\ rxPc' = "member"
  BY <1>2, WireAssumption DEF WireInv, WireTypeOK, WithinEnd, Kinds
<1>3. CASE /\ \/ len > 0 /\ kind = "bundle"
              \/ len > TagSize + 1 /\ kind = "signed" /\ authentic
           /\ datagram' = [kind |-> kind, len |-> len, end |-> MembersEnd(kind, len)]
           /\ offset' = 1 /\ member' = NoMember
           /\ rxPc' = "walk"
  <2>1. MembersEnd(kind, len) \in 1 .. len
    BY <1>3, WireAssumption DEF MembersEnd
  <2>2. kind = "signed" => MembersEnd(kind, len) = len - TagSize
    BY DEF MembersEnd
  <2> QED
    BY <1>3, <2>1, <2>2, WireAssumption DEF WireInv, WireTypeOK, WithinEnd, NoMember
<1> QED
  BY <1>1, <1>2, <1>3 DEF Receive

\* A member is handed on only if it ends inside the datagram.
LEMMA TakeMemberInv ==
    ASSUME WireInv, NEW msgLen \in 0 .. LengthMax, TakeMember(msgLen)
    PROVE  WireInv'
<1>1. CASE Conclude
  BY <1>1, ConcludeInv
<1>2. CASE /\ offset + 2 + msgLen <= datagram.end
           /\ member' = [at |-> offset + 2, len |-> msgLen]
           /\ offset' = offset + 2 + msgLen
           /\ rxPc' = "member" /\ UNCHANGED datagram
  BY <1>2, WireAssumption DEF WireInv, WireTypeOK, WithinEnd
<1>3. offset \in Int /\ datagram.end \in Int /\ msgLen \in Int
  BY WireAssumption DEF WireInv, WireTypeOK
<1> QED
  BY <1>1, <1>2, <1>3 DEF TakeMember

\* Every step on a datagram keeps the walk inside.
LEMMA WireNextInv == WireInv /\ [WireNext]_wireVars => WireInv'
<1> SUFFICES ASSUME WireInv, [WireNext]_wireVars
             PROVE  WireInv'
  OBVIOUS
<1>1. CASE \E kind \in Kinds, len \in 0 .. RecvBuffer, authentic \in BOOLEAN :
               Receive(kind, len, authentic)
  BY <1>1, ReceiveInv
<1>2. CASE \E msgLen \in 0 .. LengthMax : TakeMember(msgLen)
  BY <1>2, TakeMemberInv
<1>3. CASE MemberDone
  BY <1>3, WireAssumption DEF MemberDone, WireInv, WireTypeOK, WithinEnd, NoMember
<1>4. CASE WalkDone
  BY <1>4, ConcludeInv DEF WalkDone
<1>5. CASE UNCHANGED wireVars
  BY <1>5 DEF wireVars, WireInv, WireTypeOK, WithinEnd
<1> QED
  BY <1>1, <1>2, <1>3, <1>4, <1>5 DEF WireNext

\* What the callback reads of a message lies in the message, whatever its
\* length: type and error code (handleDatagram), verifyNotification's prefix
\* and tag, notificationEpochMs's slot.
LEMMA CallbackReads ==
    ASSUME NEW at \in Nat, NEW len \in Nat
    PROVE  Reads(at, len) \subseteq Bytes(at, len)
<1>1. /\ TagSize \in Nat /\ SlotSize \in Nat /\ AuthAt \in Nat /\ HeaderSize \in Nat
  BY WireAssumption
<1>2. ErrorReads(at, len) \subseteq Bytes(at, len)
  BY DEF ErrorReads, Bytes
<1>3. VerifyReads(at, len, TRUE) \subseteq Bytes(at, len)
  BY <1>1 DEF VerifyReads, Bytes, TailWithHmac
<1>4. EpochReads(at, len) \subseteq Bytes(at, len)
  BY <1>1 DEF EpochReads, Bytes, TailNoHmac
<1> QED
  BY <1>2, <1>3, <1>4 DEF Reads

\* A walk that is inside reads inside.
LEMMA WireInvReads == WireInv => ReadsInside
<1> SUFFICES ASSUME WireInv
             PROVE  ReadsInside
  OBVIOUS
<1>1. /\ offset \in Nat /\ member.at \in Nat /\ member.len \in Nat
      /\ datagram.len \in Nat /\ datagram.end \in Nat /\ TagSize \in Nat
  BY WireAssumption DEF WireInv, WireTypeOK
<1>2. Reads(member.at, member.len) \subseteq Bytes(member.at, member.len)
  BY <1>1, CallbackReads
<1>3. ASSUME rxPc = "walk", offset + 2 <= datagram.end
      PROVE  Bytes(offset, 2) \subseteq 0 .. datagram.len - 1
  BY <1>1, <1>3 DEF Bytes, WireInv, WithinEnd
<1>4. ASSUME rxPc = "member"
      PROVE  /\ Bytes(member.at, member.len) \subseteq 0 .. datagram.len - 1
             /\ datagram.kind = "signed" => member.at + member.len <= datagram.len - TagSize
  <2>1. member.at + member.len <= datagram.end /\ datagram.end <= datagram.len
    BY <1>4 DEF WireInv, WithinEnd
  <2>2. datagram.kind = "signed" => datagram.end = datagram.len - TagSize
    BY DEF WireInv, WithinEnd
  <2>3. Bytes(member.at, member.len) \subseteq 0 .. datagram.len - 1
    BY <1>1, <2>1 DEF Bytes
  <2> QED
    BY <1>1, <2>1, <2>2, <2>3
<1> QED
  BY <1>2, <1>3, <1>4 DEF ReadsInside

\* Whatever a Buddy sends, however long and whatever its length fields say,
\* forEachMessage and its callback read only bytes that were received, and in
\* a signed bundle only bytes that the tag covers.
THEOREM ReadsStayInside == WireSpec => []ReadsInside
<1>1. WireSpec => []WireInv
  BY WireInitInv, WireNextInv, PTL DEF WireSpec
<1> QED
  BY <1>1, WireInvReads, PTL

\* buildActorUpdate and verifyNotification agree on an actor update of either
\* pose format: signed prefix, tag, token id and sequence number follow one
\* another and fill it, and the prefix a verifier of the tail computes is the
\* one that was signed.
THEOREM UpdateFieldsTile ==
    ASSUME NEW payload \in PayloadSizes
    PROVE  /\ ActorUpdateSize(payload) - TailWithHmac = HmacOffset(payload)
           /\ 0 .. ActorUpdateSize(payload) - 1 =
                  Bytes(0, HmacOffset(payload))
                  \union Bytes(HmacOffset(payload), TagSize)
                  \union Bytes(TokenIdOffset(payload), SlotSize)
                  \union Bytes(SeqOffset(payload), 1)
           /\ Bytes(0, HmacOffset(payload)) \intersect Bytes(HmacOffset(payload), TagSize) = {}
           /\ Bytes(HmacOffset(payload), TagSize)
                  \intersect Bytes(TokenIdOffset(payload), SlotSize) = {}
           /\ Bytes(TokenIdOffset(payload), SlotSize)
                  \intersect Bytes(SeqOffset(payload), 1) = {}
<1>1. payload \in Nat /\ HeaderSize \in Nat /\ TagSize \in Nat /\ SlotSize \in Nat
  BY WireAssumption
<1> QED
  BY <1>1 DEF ActorUpdateSize, TailWithHmac, HmacOffset, TokenIdOffset, SeqOffset, Bytes

-----------------------------------------------------------------------------
(* The client and its Buddy: the inductive invariant.                      *)

Place == [Axis -> Int]
LookupType == [to : Place \union {NoChunk}, left : 0 .. LoadTicks]
RefusalType == [from : Place, crossing : BOOLEAN, last : BOOLEAN, age : 0 .. Flight]
FiledType == [as : {"none", "firstContact", "windowReload", "unexplained"},
              noticed : BOOLEAN, crossing : BOOLEAN]

ClientTyped ==
    /\ up \in BOOLEAN /\ centre \in Place
    /\ grace \in 0 .. Grace /\ episode \in 0 .. Episode /\ filed \in FiledType
BuddyTyped ==
    /\ radius \in Radii /\ faulty \in BOOLEAN /\ noticed \in BOOLEAN
    /\ boxes \subseteq Place /\ lookup \in LookupType /\ flying \subseteq RefusalType

\* A lookup runs somewhere, and is over when its time is.
LookupInv == lookup = NoLookup \/ (lookup.left # 0 /\ lookup.to \in Place)

\* The reload grace covers a lookup and the way back.
Ample == LoadTicks + Flight <= Episode

\* A refusal of a crossing is still beyond the client's box, or arrives within
\* the reload episode that another refusal began.
CrossingInv == Ample /\ radius <= ServerRadius => \A r \in flying :
    r.crossing => Beyond(r.from, centre) \/ episode + r.age > Flight

\* Once the client has re-centred, the episode outlasts the lookup and what it
\* refuses.
EpisodeInv == Ample /\ noticed =>
    /\ lookup # NoLookup => episode >= lookup.left + Flight
    /\ \A r \in flying : r.last => episode + r.age > Flight

\* A client that has kept within the radius of itself has not re-centred.
GeometryInv ==
    /\ seen \subseteq Place
    /\ seen # {} => /\ Chunk \in seen /\ centre \in seen /\ ~Apart(seen)
                    /\ episode = 0 /\ filed.as # "windowReload"

PlaceInv == WalkTypeOK /\ Confined
RefusalInv == /\ ClientTyped /\ BuddyTyped
              /\ LookupInv /\ CrossingInv /\ EpisodeInv /\ RefusalsExplained
TrafficInv == PlaceInv /\ WireInv /\ RefusalInv /\ GeometryInv

\* The type invariant is the conjunction of its parts.
LEMMA TypeGroups ==
    TypeOK <=> WalkTypeOK /\ WireTypeOK /\ ClientTyped /\ BuddyTyped /\ seen \subseteq Place
BY DEF TypeOK, ClientTyped, BuddyTyped, Place, LookupType, RefusalType, FiledType

\* The constants, as the proofs use them.
LEMMA Settings ==
    /\ Radii \subseteq Nat /\ ServerRadius \in Nat /\ LoadTicks \in Nat \ {0} /\ Flight \in Nat
    /\ Grace \in Nat /\ Episode \in Nat
    /\ NoLookup.left = 0 /\ NoLookup.to = NoChunk /\ NoLookup \in LookupType
<1>1. NoLookup.left = 0 /\ NoLookup.to = NoChunk
  BY DEF NoLookup
<1>2. NoLookup \in LookupType
  BY TrafficAssumption DEF NoLookup, LookupType
<1> QED
  BY <1>1, <1>2, TrafficAssumption

\* The chunk of a position is a place.
LEMMA ChunkTyped ==
    /\ world \in [Axis -> Int] => Chunk \in Place
    /\ world' \in [Axis -> Int] => Chunk' \in Place
<1>1. ChunkSize \in Nat \ {0}
  BY WalkAssumption
<1>2. \A v \in Int : ChunkOf(v) \in Int
  BY <1>1 DEF ChunkOf
<1> QED
  BY <1>2 DEF Chunk, Place

-----------------------------------------------------------------------------
(* The walk and the datagram go on inside the larger specification.        *)

\* Every step keeps the walk through the datagram inside.
LEMMA TrafficWire ==
    ASSUME WireInv, [Next]_trafficVars
    PROVE  WireInv'
<1>1. Lengths \subseteq 0 .. RecvBuffer
  BY TrafficAssumption
<1>2. CASE Drain
  <2>1. WireNext
    BY <1>1, <1>2 DEF Drain, WireNext
  <2> QED
    BY <2>1, WireNextInv
<1>3. CASE HandleOther \/ \E r \in flying, again \in BOOLEAN : HandleRefusal(r, again)
  <2>1. WireNext
    BY <1>3 DEF HandleOther, HandleRefusal, WireNext
  <2> QED
    BY <2>1, WireNextInv
<1>4. CASE \/ Activate \/ Suspend \/ Tick \/ UNCHANGED trafficVars
           \/ \E step \in Steps \union Stalls, lost \in BOOLEAN : Send(step, lost)
           \/ \E r \in flying : Lose(r)
  <2>1. UNCHANGED wireVars
    BY <1>4 DEF Activate, Suspend, Tick, Send, Lose, trafficVars
  <2> QED
    BY <2>1, WireNextInv
<1> QED
  BY <1>2, <1>3, <1>4 DEF Next

\* Every step keeps the client in its region.
LEMMA TrafficWalk ==
    ASSUME PlaceInv, [Next]_trafficVars
    PROVE  PlaceInv'
<1>0. /\ WalkTypeOK /\ Confined
      /\ Steps \subseteq Nat /\ Stalls \subseteq Nat /\ MaxStalls \in Nat /\ Up \notin Horizontal
  BY WalkAssumption DEF PlaceInv
<1>1. CASE UNCHANGED walkVars
  BY <1>0, <1>1 DEF PlaceInv, WalkTypeOK, Confined, Lo, Hi, walkVars
<1>2. ASSUME NEW step \in Steps \union Stalls, NEW lost \in BOOLEAN, Send(step, lost)
      PROVE  PlaceInv'
  <2>1. step \in Nat /\ UpdateWalk(step)
    BY <1>0, <1>2 DEF Send
  <2>2. shape' = shape /\ home' = home
    BY <2>1 DEF UpdateWalk
  <2>3. WalkInv
    BY <1>0, WalkAssumption DEF WalkInv, WalkTypeOK, Home
  <2>4. WalkInv'
    BY <2>1, <2>3, UpdateWalkInv
  <2>5. stalls' \in 0 .. MaxStalls
    BY <1>0, <1>2 DEF Send, WalkTypeOK
  <2>6. WalkTypeOK' /\ Confined'
    BY <1>0, <2>2, <2>4, <2>5 DEF WalkTypeOK, WalkInv
  <2> QED
    BY <2>6 DEF PlaceInv
<1>3. CASE \/ Activate \/ Suspend \/ Tick \/ Drain \/ HandleOther \/ UNCHANGED trafficVars
           \/ \E r \in flying : Lose(r) \/ \E again \in BOOLEAN : HandleRefusal(r, again)
  <2>1. UNCHANGED walkVars
    BY <1>3 DEF Activate, Suspend, Tick, Drain, HandleOther, Lose, HandleRefusal, trafficVars
  <2> QED
    BY <1>1, <2>1 DEF walkVars
<1> QED
  BY <1>2, <1>3 DEF Next

-----------------------------------------------------------------------------
(* Refusals.                                                               *)

\* A refusal that was filed is well formed.
LEMMA FiledTyped ==
    ASSUME NEW as \in {"none", "firstContact", "windowReload", "unexplained"}
    PROVE  /\ Filed(as) \in FiledType /\ Filed(as).as = as
           /\ ~Filed(as).noticed /\ ~Filed(as).crossing
BY DEF Filed, FiledType

\* A step after which no more is on its way, no box has moved and no time has
\* passed; only what was filed has to be looked at.
LEMMA QuietStep ==
    ASSUME RefusalInv, UNCHANGED <<centre, episode, settings, boxes, lookup, noticed>>,
           up' \in BOOLEAN, grace' \in 0 .. Grace, flying' \subseteq flying,
           filed' \in FiledType,
           Ample => ~filed'.noticed /\ (radius <= ServerRadius => ~filed'.crossing)
    PROVE  RefusalInv'
<1>1. ClientTyped' /\ BuddyTyped'
  BY DEF RefusalInv, ClientTyped, BuddyTyped, settings
<1>2. LookupInv'
  BY DEF RefusalInv, LookupInv
<1>3. CrossingInv' /\ EpisodeInv'
  BY DEF RefusalInv, CrossingInv, EpisodeInv, Beyond, settings
<1>4. RefusalsExplained'
  BY DEF RefusalsExplained, Ample, settings
<1> QED
  BY <1>1, <1>2, <1>3, <1>4 DEF RefusalInv

\* A step that only loses or consumes refusals keeps them explained.
LEMMA QuietFiled ==
    ASSUME RefusalInv, UNCHANGED <<centre, episode, settings, boxes, lookup, noticed, grace>>,
           up' \in BOOLEAN, flying' \subseteq flying, filed' = filed \/ filed' = Filed("none")
    PROVE  RefusalInv'
<1>1. grace \in 0 .. Grace /\ filed \in FiledType
  BY DEF RefusalInv, ClientTyped
<1>2. CASE filed' = filed
  BY <1>1, <1>2, QuietStep DEF RefusalInv, RefusalsExplained, Ample
<1>3. CASE filed' = Filed("none")
  BY <1>1, <1>3, FiledTyped, QuietStep
<1> QED
  BY <1>2, <1>3

\* What is refused although a box is centred where the client thinks it is
\* comes from more than the Buddy's radius away from there.
LEMMA RefusalFacts ==
    ASSUME RefusalInv, NEW c \in Place
    PROVE  /\ Refusal(c) \in RefusalType /\ Refusal(c).from = c
           /\ Refusal(c).last /\ Refusal(c).age = 0
           /\ ~Granted(c) /\ radius <= ServerRadius /\ Refusal(c).crossing => Beyond(c, centre)
<1>1. /\ Refusal(c).from = c /\ Refusal(c).last /\ Refusal(c).age = 0
      /\ Refusal(c).crossing <=> centre \in boxes
  BY DEF Refusal
<1>2. Refusal(c) \in RefusalType
  <2>1. 0 \in 0 .. Flight
    BY Settings
  <2> QED
    BY <2>1 DEF Refusal, RefusalType
<1>3. ASSUME ~Granted(c), radius <= ServerRadius, centre \in boxes
      PROVE  Beyond(c, centre)
  <2>1. PICK a \in Axis : ~(Abs(c[a] - centre[a]) <= ServerRadius)
    BY <1>3 DEF Granted
  <2>2. c[a] \in Int /\ centre[a] \in Int /\ radius \in Nat /\ ServerRadius \in Nat
    BY Settings DEF Place, RefusalInv, ClientTyped, BuddyTyped
  <2>3. Abs(c[a] - centre[a]) > radius
    BY <1>3, <2>1, <2>2 DEF Abs
  <2> QED
    BY <2>3 DEF Beyond
<1> QED
  BY <1>1, <1>2, <1>3

\* The Buddy's answer to an update keeps refusals explained.
LEMMA ServeKeeps ==
    ASSUME RefusalInv, NEW c \in Place, Serve(c), UNCHANGED <<clientVars, settings>>
    PROVE  RefusalInv'
<1>0. /\ ClientTyped /\ BuddyTyped /\ LookupInv /\ CrossingInv /\ EpisodeInv
      /\ RefusalsExplained /\ UNCHANGED <<up, centre, grace, episode, filed, radius, faulty>>
  BY DEF RefusalInv, clientVars, settings
<1>1. ClientTyped' /\ RefusalsExplained'
  BY <1>0 DEF ClientTyped, RefusalsExplained
<1>2. CASE Granted(c) /\ UNCHANGED <<boxes, lookup, flying, noticed>>
  BY <1>0, <1>2, QuietFiled DEF ClientTyped
<1> DEFINE new == Refusal(c)
<1>3. /\ new \in RefusalType /\ new.from = c /\ new.last /\ new.age = 0
      /\ ~Granted(c) /\ radius <= ServerRadius /\ new.crossing => Beyond(c, centre)
  BY RefusalFacts
<1>4. episode \in Nat /\ Flight \in Nat /\ LoadTicks \in Nat \ {0} /\ lookup.left \in Nat
  BY <1>0, Settings DEF ClientTyped, BuddyTyped, LookupType
<1>5. CASE /\ ~Granted(c) /\ lookup = NoLookup
           /\ \E n \in 1 .. LoadTicks : lookup' = [to |-> c, left |-> n]
           /\ boxes' \in SUBSET boxes
           /\ flying' = {[r EXCEPT !.last = FALSE] : r \in flying} \union {new}
           /\ noticed' = FALSE
  <2> HIDE DEF new
  <2> DEFINE old == {[r EXCEPT !.last = FALSE] : r \in flying}
  <2>1. PICK n \in 1 .. LoadTicks : lookup' = [to |-> c, left |-> n]
    BY <1>5
  <2>2. ASSUME NEW q \in old
        PROVE  /\ q \in RefusalType /\ ~q.last
               /\ \E r \in flying : q.from = r.from /\ q.crossing = r.crossing /\ q.age = r.age
    <3>1. PICK r \in flying : q = [r EXCEPT !.last = FALSE]
      OBVIOUS
    <3>2. r \in RefusalType
      BY <1>0 DEF BuddyTyped
    <3> QED
      BY <3>1, <3>2 DEF RefusalType
  <2> HIDE DEF old
  <2>3. flying' = old \union {new} /\ noticed' = FALSE /\ boxes' \in SUBSET boxes
    BY <1>5 DEF old
  <2>4. n \in 0 .. LoadTicks /\ n # 0
    BY <1>4
  <2>5. lookup' \in LookupType /\ LookupInv'
    BY <2>1, <2>4 DEF LookupType, LookupInv
  <2>6. BuddyTyped'
    BY <1>0, <1>3, <2>2, <2>3, <2>5 DEF BuddyTyped
  <2>7. EpisodeInv'
    BY <2>3 DEF EpisodeInv
  <2>8. CrossingInv'
    <3> SUFFICES ASSUME Ample, radius <= ServerRadius, NEW q \in flying', q.crossing
                 PROVE  Beyond(q.from, centre) \/ episode + q.age > Flight
      BY <1>0 DEF CrossingInv, Beyond, Ample
    <3>1. CASE q = new
      BY <1>3, <1>5, <3>1
    <3>2. CASE q \in old
      BY <1>0, <2>2, <3>2 DEF CrossingInv
    <3> QED
      BY <2>3, <3>1, <3>2
  <2> QED
    BY <1>1, <2>5, <2>6, <2>7, <2>8 DEF RefusalInv
<1>6. CASE /\ ~Granted(c) /\ lookup # NoLookup
           /\ lookup' \in {lookup, [lookup EXCEPT !.to = c]}
           /\ flying' = flying \union {new}
           /\ UNCHANGED <<boxes, noticed>>
  <2> HIDE DEF new
  <2>1. lookup.left # 0 /\ lookup.to \in Place /\ lookup \in LookupType
    BY <1>0, <1>6 DEF LookupInv, BuddyTyped
  <2>2. lookup' \in LookupType /\ lookup'.left = lookup.left /\ lookup'.to \in Place
    BY <1>6, <2>1 DEF LookupType
  <2>3. BuddyTyped' /\ LookupInv'
    BY <1>0, <1>3, <1>6, <2>1, <2>2 DEF BuddyTyped, LookupInv
  <2>4. CrossingInv'
    BY <1>0, <1>3, <1>6 DEF CrossingInv, Beyond, Ample
  <2>5. EpisodeInv'
    <3>1. Ample /\ noticed => episode >= lookup.left + Flight /\ episode + new.age > Flight
      BY <1>0, <1>3, <1>4, <1>6, <2>1 DEF EpisodeInv
    <3> QED
      BY <1>0, <1>6, <2>2, <3>1 DEF EpisodeInv, Ample
  <2> QED
    BY <1>1, <2>3, <2>4, <2>5 DEF RefusalInv
<1> QED
  BY <1>2, <1>5, <1>6 DEF Serve

\* A tick takes one off the episode, off the lookup and off the flights alike.
LEMMA TickKeeps ==
    ASSUME RefusalInv, Tick
    PROVE  RefusalInv'
<1>0. /\ ClientTyped /\ BuddyTyped /\ LookupInv /\ CrossingInv /\ EpisodeInv /\ RefusalsExplained
  BY DEF RefusalInv
<1> DEFINE older == {[r EXCEPT !.age = @ + 1] : r \in flying}
<1>1. /\ \A r \in flying : r.age < Flight
      /\ grace' = Countdown(grace) /\ episode' = Countdown(episode) /\ flying' = older
      /\ lookup' = (IF lookup.left <= 1 THEN NoLookup ELSE [lookup EXCEPT !.left = @ - 1])
      /\ boxes' = (IF lookup.left = 1 /\ ~faulty THEN boxes \union {lookup.to} ELSE boxes)
      /\ UNCHANGED <<up, centre, filed, radius, faulty, noticed>>
  BY DEF Tick, settings, histVars
<1>2. /\ episode \in 0 .. Episode /\ grace \in 0 .. Grace /\ lookup.left \in 0 .. LoadTicks
      /\ lookup \in LookupType
  BY <1>0 DEF ClientTyped, BuddyTyped, LookupType
<1>3. /\ Flight \in Nat /\ LoadTicks \in Nat \ {0} /\ Grace \in Nat /\ Episode \in Nat
      /\ NoLookup.left = 0 /\ NoLookup \in LookupType
  BY Settings
<1>4. /\ episode' \in 0 .. Episode /\ grace' \in 0 .. Grace
      /\ episode = 0 => episode' = 0
      /\ episode > 0 => episode' = episode - 1
  BY <1>1, <1>2, <1>3 DEF Countdown
<1>5. ASSUME NEW q \in older
      PROVE  /\ q \in RefusalType
             /\ \E r \in flying : /\ q.from = r.from /\ q.crossing = r.crossing /\ q.last = r.last
                                  /\ r.age \in 0 .. Flight /\ r.age < Flight /\ q.age = r.age + 1
  <2>1. PICK r \in flying : q = [r EXCEPT !.age = @ + 1]
    OBVIOUS
  <2>2. r \in RefusalType /\ r.age \in 0 .. Flight /\ r.age < Flight
    BY <1>0, <1>1 DEF BuddyTyped, RefusalType
  <2>3. r.age + 1 \in 0 .. Flight
    BY <1>3, <2>2
  <2> QED
    BY <2>1, <2>2, <2>3 DEF RefusalType
<1> HIDE DEF older
<1>6. lookup' \in LookupType /\ LookupInv'
      /\ (lookup' # NoLookup => lookup # NoLookup /\ lookup.left >= 1 /\ lookup'.left = lookup.left - 1)
  <2>1. CASE lookup.left <= 1
    BY <1>1, <1>3, <2>1 DEF LookupInv
  <2>2. CASE ~(lookup.left <= 1)
    <3>1. lookup' = [lookup EXCEPT !.left = lookup.left - 1] /\ lookup.left - 1 \in 0 .. LoadTicks
          /\ lookup.left - 1 # 0
      BY <1>1, <1>2, <1>3, <2>2
    <3>2. lookup' \in LookupType /\ lookup'.left = lookup.left - 1 /\ lookup'.to = lookup.to
      BY <1>2, <3>1 DEF LookupType
    <3>3. lookup # NoLookup
      BY <1>2, <1>3, <2>2
    <3> QED
      BY <1>0, <1>2, <1>3, <2>2, <3>1, <3>2, <3>3 DEF LookupInv
  <2> QED
    BY <2>1, <2>2
<1>7. boxes' \subseteq Place
  <2>1. lookup.left = 1 => lookup.to \in Place
    BY <1>0, <1>3 DEF LookupInv
  <2> QED
    BY <1>0, <1>1, <2>1 DEF BuddyTyped
<1>8. ClientTyped' /\ BuddyTyped'
  BY <1>0, <1>1, <1>4, <1>5, <1>6, <1>7 DEF ClientTyped, BuddyTyped
<1>9. RefusalsExplained'
  BY <1>0, <1>1 DEF RefusalsExplained
<1>10. ASSUME NEW r \in flying, NEW q \in flying', r.age \in 0 .. Flight, r.age < Flight,
              q.age = r.age + 1, episode + r.age > Flight
       PROVE  episode' + q.age > Flight
  BY <1>2, <1>3, <1>4, <1>10
<1>11. CrossingInv'
  <2> SUFFICES ASSUME Ample, radius <= ServerRadius, NEW q \in flying', q.crossing
               PROVE  Beyond(q.from, centre) \/ episode' + q.age > Flight
    BY <1>1 DEF CrossingInv, Beyond, Ample
  <2>1. PICK r \in flying : /\ q.from = r.from /\ q.crossing = r.crossing
                            /\ r.age \in 0 .. Flight /\ r.age < Flight /\ q.age = r.age + 1
    BY <1>1, <1>5
  <2>2. Beyond(r.from, centre) \/ episode + r.age > Flight
    BY <1>0, <2>1 DEF CrossingInv
  <2> QED
    BY <1>10, <2>1, <2>2
<1>12. EpisodeInv'
  <2> SUFFICES ASSUME Ample, noticed
               PROVE  /\ lookup' # NoLookup => episode' >= lookup'.left + Flight
                      /\ \A q \in flying' : q.last => episode' + q.age > Flight
    BY <1>1 DEF EpisodeInv, Ample
  <2>1. lookup' # NoLookup => episode' >= lookup'.left + Flight
    BY <1>0, <1>2, <1>3, <1>4, <1>6 DEF EpisodeInv
  <2>2. ASSUME NEW q \in flying', q.last
        PROVE  episode' + q.age > Flight
    <3>1. PICK r \in flying : /\ q.last = r.last
                              /\ r.age \in 0 .. Flight /\ r.age < Flight /\ q.age = r.age + 1
      BY <1>1, <1>5
    <3>2. episode + r.age > Flight
      BY <1>0, <2>2, <3>1 DEF EpisodeInv
    <3> QED
      BY <1>10, <3>1, <3>2
  <2> QED
    BY <2>1, <2>2
<1> QED
  BY <1>6, <1>8, <1>9, <1>11, <1>12 DEF RefusalInv

\* A fresh assignment starts with no box and nothing on the way.
LEMMA ActivateKeeps ==
    ASSUME PlaceInv, RefusalInv, Activate
    PROVE  RefusalInv'
<1>0. ClientTyped /\ BuddyTyped /\ RefusalsExplained
  BY DEF RefusalInv
<1>1. /\ up' \in BOOLEAN /\ centre' = Chunk /\ grace' = Grace
      /\ boxes' = {} /\ lookup' = NoLookup /\ flying' = {} /\ noticed' = FALSE
      /\ UNCHANGED <<episode, filed, radius, faulty>>
  BY DEF Activate, settings
<1>2. ClientTyped' /\ BuddyTyped'
  <2>1. Chunk \in Place
    BY ChunkTyped DEF PlaceInv, WalkTypeOK
  <2>2. Grace \in 0 .. Grace
    BY Settings
  <2> QED
    BY <1>0, <1>1, <2>1, <2>2, Settings DEF ClientTyped, BuddyTyped
<1>3. LookupInv' /\ CrossingInv' /\ EpisodeInv'
  BY <1>1 DEF LookupInv, CrossingInv, EpisodeInv
<1>4. RefusalsExplained'
  BY <1>0, <1>1 DEF RefusalsExplained
<1> QED
  BY <1>2, <1>3, <1>4 DEF RefusalInv

\* What the classification makes of one refusal.
LEMMA HandleKeeps ==
    ASSUME PlaceInv, RefusalInv, NEW r \in flying, NEW again \in BOOLEAN, HandleRefusal(r, again)
    PROVE  RefusalInv'
<1>0. /\ ClientTyped /\ BuddyTyped /\ LookupInv /\ CrossingInv /\ EpisodeInv
  BY DEF RefusalInv
<1>1. /\ Classify(r) /\ flying' \subseteq flying
      /\ UNCHANGED <<up, grace, settings, boxes, lookup>>
  BY DEF HandleRefusal
<1>2. /\ grace \in 0 .. Grace /\ episode \in 0 .. Episode /\ Grace \in Nat /\ Episode \in Nat
      /\ Flight \in Nat /\ LoadTicks \in Nat \ {0} /\ up \in BOOLEAN /\ noticed \in BOOLEAN
  BY <1>0, Settings DEF ClientTyped, BuddyTyped
<1>3. r \in RefusalType /\ r.age \in 0 .. Flight /\ r.crossing \in BOOLEAN /\ r.last \in BOOLEAN
  BY <1>0 DEF BuddyTyped, RefusalType
<1>4. CASE grace > 0
  <2>1. filed' = Filed("firstContact") /\ UNCHANGED <<centre, episode, noticed>>
    BY <1>1, <1>2, <1>4 DEF Classify
  <2> QED
    BY <1>1, <1>2, <2>1, FiledTyped, QuietStep
<1>5. CASE grace = 0 /\ episode > 0
  <2>1. filed' = Filed("windowReload") /\ UNCHANGED <<centre, episode, noticed>>
    BY <1>1, <1>2, <1>5 DEF Classify
  <2> QED
    BY <1>1, <1>2, <2>1, FiledTyped, QuietStep
<1>6. CASE grace = 0 /\ episode = 0 /\ Beyond(Chunk, centre)
  <2>1. filed' = Filed("windowReload") /\ centre' = Chunk /\ episode' = Episode /\ noticed' = TRUE
    BY <1>1, <1>2, <1>6 DEF Classify
  <2>2. ClientTyped' /\ BuddyTyped'
    <3>1. Chunk \in Place
      BY ChunkTyped DEF PlaceInv, WalkTypeOK
    <3>2. Episode \in 0 .. Episode
      BY <1>2
    <3> QED
      BY <1>0, <1>1, <2>1, <3>1, <3>2, FiledTyped DEF ClientTyped, BuddyTyped, settings
  <2>3. LookupInv'
    BY <1>0, <1>1 DEF LookupInv
  <2>4. Ample => \A q \in flying' : Episode + q.age > Flight
    <3>1. \A q \in flying' : q.age \in 0 .. Flight
      BY <1>0, <1>1 DEF BuddyTyped, RefusalType
    <3> QED
      BY <1>2, <3>1 DEF Ample
  <2>5. CrossingInv'
    BY <2>1, <2>4 DEF CrossingInv, Ample
  <2>6. Ample => Episode >= lookup.left + Flight
    <3>1. lookup.left \in 0 .. LoadTicks
      BY <1>0 DEF BuddyTyped, LookupType
    <3> QED
      BY <1>2, <3>1 DEF Ample
  <2>7. EpisodeInv'
    BY <1>1, <2>1, <2>4, <2>6 DEF EpisodeInv, Ample
  <2>8. RefusalsExplained'
    BY <2>1, FiledTyped DEF RefusalsExplained
  <2> QED
    BY <2>2, <2>3, <2>5, <2>7, <2>8 DEF RefusalInv
<1>7. CASE grace = 0 /\ episode = 0 /\ ~Beyond(Chunk, centre)
  <2>1. filed' = Unexplained(r) /\ UNCHANGED <<centre, episode, noticed>>
    BY <1>1, <1>7 DEF Classify
  <2>2. /\ Unexplained(r) \in FiledType
        /\ Unexplained(r).noticed <=> noticed /\ r.last
        /\ Unexplained(r).crossing <=> r.crossing /\ r.from = Chunk
    BY <1>2, <1>3 DEF Unexplained, FiledType
  <2>3. ~(episode + r.age > Flight)
    BY <1>2, <1>3, <1>7
  <2>4. Ample => ~Unexplained(r).noticed
    BY <1>0, <2>2, <2>3 DEF EpisodeInv
  <2>5. Ample /\ radius <= ServerRadius => ~Unexplained(r).crossing
    BY <1>0, <1>7, <2>2, <2>3 DEF CrossingInv
  <2> QED
    BY <1>1, <1>2, <2>1, <2>2, <2>4, <2>5, QuietStep
<1> QED
  BY <1>2, <1>4, <1>5, <1>6, <1>7

\* Every step keeps refusals explained.
LEMMA TrafficRefusals ==
    ASSUME TrafficInv, [Next]_trafficVars
    PROVE  RefusalInv'
<1>0. PlaceInv /\ RefusalInv /\ up \in BOOLEAN
  BY DEF TrafficInv, RefusalInv, ClientTyped
<1>1. PlaceInv'
  BY <1>0, TrafficWalk
<1>2. CASE Suspend \/ Drain \/ HandleOther \/ UNCHANGED trafficVars \/ \E r \in flying : Lose(r)
  <2>1. /\ UNCHANGED <<centre, episode, settings, boxes, lookup, noticed, grace>>
        /\ up' \in BOOLEAN /\ flying' \subseteq flying /\ (filed' = filed \/ filed' = Filed("none"))
    BY <1>0, <1>2 DEF Suspend, Drain, HandleOther, Lose, trafficVars, clientVars, serverVars, histVars
  <2> QED
    BY <1>0, <2>1, QuietFiled
<1>3. ASSUME NEW step \in Steps \union Stalls, NEW lost \in BOOLEAN, Send(step, lost)
      PROVE  RefusalInv'
  <2>1. UNCHANGED <<clientVars, settings>>
    BY <1>3 DEF Send
  <2>2. CASE lost
    <3>1. UNCHANGED <<centre, episode, settings, boxes, lookup, noticed, grace, up, flying, filed>>
      BY <1>3, <2>2 DEF Send, clientVars
    <3> QED
      BY <1>0, <3>1, QuietFiled
  <2>3. CASE ~lost
    <3>1. Serve(Chunk')
      BY <1>3, <2>3 DEF Send
    <3>2. Chunk' \in Place
      BY <1>1, ChunkTyped DEF PlaceInv, WalkTypeOK
    <3> QED
      BY <1>0, <2>1, <3>1, <3>2, ServeKeeps
  <2> QED
    BY <2>2, <2>3
<1>4. CASE Activate
  BY <1>0, <1>4, ActivateKeeps
<1>5. CASE Tick
  BY <1>0, <1>5, TickKeeps
<1>6. ASSUME NEW r \in flying, NEW again \in BOOLEAN, HandleRefusal(r, again)
      PROVE  RefusalInv'
  BY <1>0, <1>6, HandleKeeps
<1> QED
  BY <1>2, <1>3, <1>4, <1>5, <1>6 DEF Next

-----------------------------------------------------------------------------
(* Crossings.                                                              *)

\* Two places of which one is beyond the other are apart.
LEMMA BeyondIsApart ==
    ASSUME NEW places \in SUBSET Place, NEW c \in places, NEW d \in places, Beyond(c, d), radius \in Nat
    PROVE  Apart(places)
<1>1. PICK a \in Axis : Abs(c[a] - d[a]) > radius
  BY DEF Beyond
<1>2. c[a] \in Int /\ d[a] \in Int
  BY DEF Place
<1>3. c[a] - d[a] > radius \/ d[a] - c[a] > radius
  BY <1>1, <1>2 DEF Abs
<1> QED
  BY <1>3 DEF Apart

\* Every step of a client that has kept within its radius keeps it from being
\* re-centred.
LEMMA TrafficGeometry ==
    ASSUME TrafficInv, [Next]_trafficVars
    PROVE  GeometryInv'
<1>0. /\ PlaceInv /\ GeometryInv /\ radius \in Nat /\ grace \in Nat /\ episode \in Nat
  BY Settings DEF TrafficInv, RefusalInv, ClientTyped, BuddyTyped
<1>1. PlaceInv' /\ Chunk \in Place /\ Chunk' \in Place
  BY <1>0, TrafficWalk, ChunkTyped DEF PlaceInv, WalkTypeOK
<1>2. ASSUME UNCHANGED <<walkVars, radius, seen>>, centre' \in {centre, Chunk},
             episode' = 0 \/ episode' = episode, filed' = filed \/ filed'.as # "windowReload"
      PROVE  GeometryInv'
  <2>1. Chunk' = Chunk
    BY <1>2 DEF Chunk, walkVars
  <2>2. Apart(seen)' <=> Apart(seen)
    BY <1>2 DEF Apart
  <2> QED
    BY <1>0, <1>2, <2>1, <2>2 DEF GeometryInv
<1>3. CASE Activate \/ Suspend \/ Drain \/ HandleOther \/ UNCHANGED trafficVars \/ \E r \in flying : Lose(r)
  <2>1. /\ UNCHANGED <<walkVars, radius, seen, episode>> /\ centre' \in {centre, Chunk}
        /\ filed' = filed \/ filed' = Filed("none")
    BY <1>3 DEF Activate, Suspend, Drain, HandleOther, Lose, trafficVars, clientVars, settings, histVars
  <2> QED
    BY <1>2, <2>1, FiledTyped
<1>4. CASE Tick
  <2>1. UNCHANGED <<walkVars, radius, seen, centre, filed>> /\ episode' = Countdown(episode)
    BY <1>4 DEF Tick, settings, histVars
  <2>2. CASE seen = {}
    BY <2>1, <2>2 DEF GeometryInv
  <2>3. CASE seen # {}
    <3>1. episode = 0 /\ episode' = 0
      BY <1>0, <2>1, <2>3 DEF GeometryInv, Countdown
    <3> QED
      BY <1>2, <2>1, <3>1
  <2> QED
    BY <2>2, <2>3
<1>5. ASSUME NEW step \in Steps \union Stalls, NEW lost \in BOOLEAN, Send(step, lost)
      PROVE  GeometryInv'
  <2>1. /\ seen' = IF seen = {} \/ Apart(seen \union {Chunk'}) THEN {} ELSE seen \union {Chunk'}
        /\ UNCHANGED <<radius, centre, episode, filed>>
    BY <1>5 DEF Send, clientVars, settings
  <2>2. CASE seen' = {}
    BY <2>2 DEF GeometryInv
  <2>3. CASE seen # {} /\ ~Apart(seen \union {Chunk'}) /\ seen' = seen \union {Chunk'}
    <3>1. Apart(seen)' <=> Apart(seen \union {Chunk'})
      BY <2>1, <2>3 DEF Apart
    <3> QED
      BY <1>0, <1>1, <2>1, <2>3, <3>1 DEF GeometryInv
  <2> QED
    BY <2>1, <2>2, <2>3
<1>6. ASSUME NEW r \in flying, NEW again \in BOOLEAN, HandleRefusal(r, again)
      PROVE  GeometryInv'
  <2>1. Classify(r) /\ UNCHANGED <<walkVars, radius, seen>>
    BY <1>6 DEF HandleRefusal, settings
  <2>2. CASE seen = {}
    BY <2>1, <2>2 DEF GeometryInv
  <2>3. CASE seen # {}
    <3>1. seen \subseteq Place /\ Chunk \in seen /\ centre \in seen /\ ~Apart(seen) /\ episode = 0
      BY <1>0, <2>3 DEF GeometryInv
    <3>2. ~Beyond(Chunk, centre)
      BY <1>0, <3>1, BeyondIsApart
    <3>3. /\ filed' = Filed("firstContact") \/ filed' = Unexplained(r)
          /\ UNCHANGED <<centre, episode>>
      BY <1>0, <2>1, <3>1, <3>2 DEF Classify
    <3>4. filed'.as # "windowReload"
      BY <3>3, FiledTyped DEF Unexplained
    <3> QED
      BY <1>2, <2>1, <3>3, <3>4
  <2> QED
    BY <2>2, <2>3
<1> QED
  BY <1>3, <1>4, <1>5, <1>6 DEF Next

-----------------------------------------------------------------------------
\* The invariant holds initially.
LEMMA TrafficInitially == Init => TrafficInv
<1> SUFFICES ASSUME Init
             PROVE  TrafficInv
  OBVIOUS
<1>1. WireInv /\ WalkInv
  BY WireInitInv, WalkInitInv DEF Init
<1>2. PlaceInv
  <2>1. home \in [Horizontal -> -SparseRange .. SparseRange] /\ SparseRange \in Nat \ {0}
        /\ MaxStalls \in Nat
    BY WalkAssumption DEF Init, WalkInit, PlaceSparse, PlaceInCube, PlaceOnPlane
  <2>2. WalkTypeOK
    BY <1>1, <2>1 DEF Init, WalkInit, WalkTypeOK, WalkInv
  <2> QED
    BY <1>1, <2>2 DEF PlaceInv, WalkInv
<1>3. Chunk \in Place
  BY <1>2, ChunkTyped DEF PlaceInv, WalkTypeOK
<1>4. RefusalInv
  <2>1. ClientTyped /\ BuddyTyped
    <3>1. 0 \in 0 .. Grace /\ 0 \in 0 .. Episode
      BY Settings
    <3> QED
      BY <1>3, <3>1, Settings, FiledTyped DEF Init, ClientTyped, BuddyTyped
  <2>2. LookupInv /\ CrossingInv /\ EpisodeInv
    BY DEF Init, LookupInv, CrossingInv, EpisodeInv
  <2>3. RefusalsExplained
    BY FiledTyped DEF Init, RefusalsExplained
  <2> QED
    BY <2>1, <2>2, <2>3 DEF RefusalInv
<1>5. GeometryInv
  <2>1. seen = {Chunk} /\ centre = Chunk /\ episode = 0 /\ filed = Filed("none") /\ radius \in Nat
    BY Settings DEF Init
  <2>2. \A a \in Axis : ~(Chunk[a] - Chunk[a] > radius)
    BY <1>3, <2>1 DEF Place
  <2>3. ~Apart(seen)
    BY <2>1, <2>2 DEF Apart
  <2> QED
    BY <1>3, <2>1, <2>3, FiledTyped DEF GeometryInv
<1> QED
  BY <1>1, <1>2, <1>4, <1>5 DEF TrafficInv

\* The invariant holds in every reachable state.
LEMMA TrafficInvariant == Spec => []TrafficInv
<1>1. TrafficInv /\ [Next]_trafficVars => TrafficInv'
  BY TrafficWire, TrafficWalk, TrafficRefusals, TrafficGeometry DEF TrafficInv
<1> QED
  BY <1>1, TrafficInitially, PTL DEF Spec

\* The client, the datagram at hand and the Buddy's answers have their types.
THEOREM TrafficTypeCorrect == Spec => []TypeOK
<1>1. TrafficInv => TypeOK
  BY TypeGroups DEF TrafficInv, PlaceInv, WireInv, RefusalInv, GeometryInv
<1> QED
  BY <1>1, TrafficInvariant, PTL

\* The walk keeps to its region and the reads to their datagram also in the
\* whole client, where sends, suspensions and datagrams come in any order.
THEOREM TrafficKeepsBounds == Spec => [](Confined /\ ReadsInside)
<1>1. TrafficInv => Confined /\ ReadsInside
  BY WireInvReads DEF TrafficInv, PlaceInv
<1> QED
  BY <1>1, TrafficInvariant, PTL

\* If permReloadGraceMs covers a lookup and the way back, handleDatagram does
\* not report as unexplained what a lookup refuses after the client has
\* re-centred on it, nor, if permWindowRadiusChunks is not larger than the
\* Buddy's radius, a crossing out of a box that is centred where the client
\* thinks it is while the client stands where it crossed.
THEOREM RefusalsAreExplained == Spec => []RefusalsExplained
<1>1. TrafficInv => RefusalsExplained
  BY DEF TrafficInv, RefusalInv
<1> QED
  BY <1>1, TrafficInvariant, PTL

\* A client that was never in two chunks more than permWindowRadiusChunks
\* apart, 0 included, never has a refusal filed as a crossing, whatever its
\* Buddy refuses and through any number of assignments.
THEOREM ReloadsNeedDistance == Spec => []CrossingsAreGeometry
<1>1. TrafficInv => CrossingsAreGeometry
  BY DEF TrafficInv, GeometryInv, CrossingsAreGeometry
<1> QED
  BY <1>1, TrafficInvariant, PTL
=============================================================================
