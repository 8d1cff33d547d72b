--------------------------- MODULE MCControlPlane ---------------------------
(* ControlPlane on small instances; the pool threads are interchangeable.  *)
(* The configurations that reach it are checked over small layers: a run   *)
(* in which nobody says anything but what the layers give.                 *)
EXTENDS ControlPlane, Config, TLC

HandlerSymmetry == Permutations(Handler)

Silent == [o \in Options |-> Unset]
Account == [Silent EXCEPT !["email"] = "a@b", !["password"] = 8, !["appId"] = 1,
                          !["managementApiUrl"] = "url"]

\* The layers that give the options of the set these values.
Giving(base, opts, values) == {[o \in Options |-> IF o \in opts THEN v[o] ELSE base[o]] :
                                   v \in [opts -> values]}

Sizes == {"clients", "threads", "indexLimit"}
Flags == Giving(Silent, Sizes, {Unset, 2, Bad})
Environment == Giving(Account, Sizes, {Unset, Empty, 0, 3, Bad})
Files == Giving(Silent, Sizes \ {"threads"}, {Unset, 2, 5})

ASSUME LayersWellFormed == \A l \in Flags \union Environment \union Files : IsLayer(l)

\* Config::load: a configuration that is run with starts within its limit.
ASSUME SmallConfigsRunnable ==
    \A cli \in Flags, env \in Environment, kv \in Files :
        /\ Load(cli, env, kv) = "run" =>
               LET c == Resolved(cli, env, kv)
               IN  StartsWithinLimit(c) /\ OneShape(c) /\ SomethingRuns(c)
        /\ ~FlagsRefused(cli) /\ (\A o \in Numbers : Get(o, env, kv) # Bad)
               => LimitFollowsClients(cli, env, kv)

\* Every end of load is reached.
ASSUME EveryEnd ==
    \A end \in {"run", "usage", "terminate"} :
        \E cli \in Flags, env \in Environment, kv \in Files : Load(cli, env, kv) = end
=============================================================================
