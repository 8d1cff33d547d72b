--------------------------------- MODULE Walk ---------------------------------
(***************************************************************************)
(* Where a simulated client stands and how it moves (SimClient): placement *)
(* at its first activation, then one updateWalk per packet.  Positions are *)
(* whole units of length; what the clock and the speed give is the length  *)
(* of a step, which is never the same twice: the worker's loop comes round *)
(* when it does, and a stall makes one step long.                          *)
(***************************************************************************)
EXTENDS Integers

CONSTANTS
    Horizontal,     \* the horizontal axes
    Up,             \* the vertical axis
    Shapes,         \* population shapes looked at: "sparse", "cube", "plane"
    ChunkSize,      \* effectiveChunkSize
    VolumeChunks,   \* edge of the cube, in chunks
    VolumeBaseUp,   \* its lowest vertical chunk
    SpawnRadius,    \* spawnRadiusChunks of the plane
    SparseRange,    \* sparseRangeChunks
    Steps,          \* speed * dt: the lengths of a step
    Stalls,         \* lengths that only a stall of the worker's loop gives
    MaxStalls       \* bound: stalls in a behaviour

Axis == Horizontal \union {Up}

ASSUME WalkAssumption ==
    /\ Up \notin Horizontal
    /\ Shapes \subseteq {"sparse", "cube", "plane"}
    /\ {ChunkSize, VolumeChunks, SparseRange} \subseteq Nat \ {0}
    /\ SpawnRadius \in Nat /\ VolumeBaseUp \in Int
    /\ Steps \subseteq Nat /\ Stalls \subseteq Nat /\ MaxStalls \in Nat

VARIABLES
    shape,          \* the configured population
    world,          \* worldX, worldY, worldZ
    heading,        \* dirX, dirY, dirZ, rounded to whole numbers
    home,           \* sparseC1, sparseC2: the chunk a sparse client owns
    stalls          \* history: stalls so far

walkVars == <<shape, world, heading, home, stalls>>

\* projectPose: the chunk a position lies in.
ChunkOf(v) == v \div ChunkSize
Chunk == [a \in Axis |-> ChunkOf(world[a])]

-----------------------------------------------------------------------------
(* Placement: initSimulation.                                              *)

\* cubeMinHorizontal, and the cube's floor.
CubeMin(a) == IF a = Up THEN VolumeBaseUp ELSE -(VolumeChunks \div 2)

\* placeInCube: the slot of a global index, a permutation of the n * n * n
\* slots, split into one coordinate per axis.
SlotOf(index, n) == (index * (1 + n + n * n)) % (n * n * n)
SlotChunk(index, n) ==
    LET idx == SlotOf(index, n)
    IN  <<idx % n, (idx \div n) % n, (idx \div (n * n)) % n>>

\* The lowest and highest position of the region a client may not leave.
Lo(a) == IF shape = "sparse" THEN home[a] * ChunkSize ELSE CubeMin(a) * ChunkSize
Hi(a) == Lo(a) + (IF shape = "sparse" THEN 1 ELSE VolumeChunks) * ChunkSize

\* Jitter keeps a new client off the faces of its chunk; the plane has none.
PlaceSparse ==
    /\ home \in [Horizontal -> -SparseRange .. SparseRange]
    /\ \E j \in [Horizontal -> 1 .. ChunkSize - 1] :
           world = [a \in Axis |-> IF a = Up THEN 0 ELSE home[a] * ChunkSize + j[a]]

PlaceInCube ==
    /\ home = [a \in Horizontal |-> 0]
    /\ \E c \in [Axis -> 0 .. VolumeChunks - 1], j \in [Axis -> 1 .. ChunkSize - 1] :
           world = [a \in Axis |-> (CubeMin(a) + c[a]) * ChunkSize + j[a]]

PlaceOnPlane ==
    /\ home = [a \in Horizontal |-> 0]
    /\ \E c \in [Horizontal -> -SpawnRadius .. SpawnRadius] :
           world = [a \in Axis |-> IF a = Up THEN 0 ELSE c[a] * ChunkSize]

\* randomizeDirection is horizontal, randomizeDirection3D is not.
Headings ==
    {d \in [Axis -> -1 .. 1] : /\ \E a \in Axis : d[a] # 0
                               /\ shape # "cube" => d[Up] = 0}

WalkInit ==
    /\ shape \in Shapes
    /\ \/ shape = "sparse" /\ PlaceSparse
       \/ shape = "cube" /\ PlaceInCube
       \/ shape = "plane" /\ PlaceOnPlane
    /\ heading \in Headings
    /\ stalls = 0

-----------------------------------------------------------------------------
(* updateWalk.                                                             *)

Abs(x) == IF x < 0 THEN -x ELSE x

\* bounce and bounceIn: reflect at either end, then clamp, because a step may
\* be longer than the region.
Reflected(v, lo, hi) ==
    LET up == IF v < lo THEN lo + (lo - v) ELSE v
    IN  IF up > hi THEN hi - (up - hi) ELSE up

SlipBounce(v, lo, hi) == Reflected(v, lo, hi)
Bounce(v, lo, hi) ==
    LET r == Reflected(v, lo, hi)
    IN  IF r < lo THEN lo ELSE IF r > hi THEN hi ELSE r

BounceHeading(v, d, lo, hi) ==
    LET up == IF v < lo THEN lo + (lo - v) ELSE v
        e == IF v < lo THEN Abs(d) ELSE d
    IN  IF up > hi THEN -Abs(e) ELSE e

\* The axes a shape moves along.
Moving == IF shape = "cube" THEN Axis ELSE Horizontal
Moved(step) == [a \in Axis |-> IF a \in Moving THEN world[a] + heading[a] * step ELSE world[a]]

Outside(w) == \E a \in Horizontal : Abs(ChunkOf(w[a])) > SpawnRadius

\* Sparse: bounce at the edges of the owned chunk.
MoveSparse(step) ==
    /\ shape = "sparse"
    /\ world' = [a \in Axis |-> IF a = Up THEN world[a]
                                ELSE Bounce(Moved(step)[a], Lo(a), Hi(a))]
    /\ heading' = [a \in Axis |-> IF a = Up THEN heading[a]
                                  ELSE BounceHeading(Moved(step)[a], heading[a], Lo(a), Hi(a))]

\* Cube: bounce off each face, and re-aim now and then.
MoveInCube(step) ==
    /\ shape = "cube"
    /\ world' = [a \in Axis |-> Bounce(Moved(step)[a], Lo(a), Hi(a))]
    /\ \/ heading' = [a \in Axis |-> BounceHeading(Moved(step)[a], heading[a], Lo(a), Hi(a))]
       \/ heading' \in Headings

\* Plane: a client found outside the spawn area turns round.
MoveOnPlane(step) ==
    /\ shape = "plane"
    /\ world' = Moved(step)
    /\ heading' = IF Outside(Moved(step))
                  THEN [a \in Axis |-> IF a = Up THEN heading[a] ELSE -heading[a]]
                  ELSE heading

\* A clock that has not advanced moves nobody.
UpdateWalk(step) ==
    /\ IF step = 0 THEN UNCHANGED <<world, heading>>
                   ELSE MoveSparse(step) \/ MoveInCube(step) \/ MoveOnPlane(step)
    /\ UNCHANGED <<shape, home>>

Stroll ==
    \/ \E step \in Steps : UpdateWalk(step) /\ UNCHANGED stalls
    \/ \E step \in Stalls : UpdateWalk(step) /\ stalls < MaxStalls /\ stalls' = stalls + 1

WalkSpec == WalkInit /\ [][Stroll]_walkVars

\* An active client is moved again and again.
FairWalkSpec == WalkSpec /\ WF_walkVars(Stroll)

-----------------------------------------------------------------------------
(* Properties.                                                             *)

\* Every variable has its type.
WalkTypeOK ==
    /\ shape \in Shapes
    /\ world \in [Axis -> Int] /\ heading \in [Axis -> -1 .. 1]
    /\ home \in [Horizontal -> -SparseRange .. SparseRange]
    /\ stalls \in 0 .. MaxStalls

\* A sparse client never leaves the chunk it owns, nor a client of the cube
\* the cube, however long a step is: updateWalk reflects once at each end and
\* clamps what is left.  (The upper edge counts as inside, see OwnsChunk.)
Confined ==
    /\ shape = "cube" => \A a \in Axis : world[a] \in Lo(a) .. Hi(a)
    /\ shape = "sparse" => \A a \in Horizontal : world[a] \in Lo(a) .. Hi(a)

-----------------------------------------------------------------------------
(* What the comments say and the walk contradicts.                         *)

\* SimClient.hpp: "Bounce back toward the origin at the edge of the spawn area
\* so the simulated crowd stays co-located", Config.hpp: "confined to
\* spawnRadiusChunks of the origin".  A client that a long step has taken out
\* comes back.
ComesBack == shape = "plane" /\ Outside(world) ~> ~Outside(world)

\* SimClient.hpp: "Stay inside the owned chunk".  A step or a reflection that
\* ends exactly on the upper edge is not turned back, and that edge is already
\* the next chunk's.
OwnsChunk == shape = "sparse" => \A a \in Horizontal : ChunkOf(world[a]) = home[a]
=============================================================================
