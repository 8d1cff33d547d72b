--------------------------- MODULE MCProvisioning ---------------------------
(* Provisioning on small instances; the pool threads are interchangeable.  *)
EXTENDS Provisioning, TLC

ThreadSymmetry == Permutations(Thread)
=============================================================================
