-------------------------- MODULE MCSessionControl --------------------------
(* SessionControl on small instances. *)
EXTENDS SessionControl, TLC

CONSTANTS c1, c2, w1, w2, s1, s2

\* One worker owning every client, and one worker per client.
OneWorker == [c \in {c1, c2} |-> w1]
TwoWorkers == (c1 :> w1) @@ (c2 :> w2)
OneClient == (c1 :> w1)

\* The servers are interchangeable.
ServerSymmetry == Permutations(Server)
=============================================================================
