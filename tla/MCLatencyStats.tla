--------------------------- MODULE MCLatencyStats ---------------------------
(* LatencyStats on small instances: three buckets, two of them bounded.    *)
EXTENDS LatencyStats, TLC

MCBounds == 1 :> 1 @@ 2 :> 5
Symmetry == Permutations(Recorder) \union Permutations(Loader)
=============================================================================
