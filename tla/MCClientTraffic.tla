--------------------------- MODULE MCClientTraffic ---------------------------
(* ClientTraffic on a small world.                                         *)
EXTENDS ClientTraffic

\* placeInCube: multiplying by 1 + n + n * n permutes the slots, so the first
\* n * n * n clients get a chunk each.
ASSUME SlotsPermuted ==
    \A n \in 1 .. 5 : {SlotOf(i, n) : i \in 0 .. n * n * n - 1} = 0 .. n * n * n - 1
=============================================================================
