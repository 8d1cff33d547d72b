----------------------------- MODULE ConfigProofs -----------------------------
(* What a generator may rely on when Config::load lets it run, whatever    *)
(* the flags, the environment and the file say.                            *)
EXTENDS Config, TLAPS

\* Past the flags and the conversions, every number is one: an empty or absent
\* text has become the default.
LEMMA NumbersConverted ==
    ASSUME NEW cli, NEW env, NEW file,
           IsLayer(cli), IsLayer(env), IsLayer(file),
           ~FlagsRefused(cli), \A o \in Numbers : Get(o, env, file) # Bad
    PROVE  \A o \in Numbers : Overridden(cli, env, file)[o] \in Int
<1> SUFFICES ASSUME NEW o \in Numbers
             PROVE  Overridden(cli, env, file)[o] \in Int
  OBVIOUS
<1>1. o \in Options
  BY DEF Options
<1>2. o \notin Texts
  BY DEF Numbers, Texts, Default, DefaultText
<1>3. Default[o] \in Int
  BY DEF Numbers, Default
<1>4. cli[o] # Unset => cli[o] \in Int
  BY <1>1, <1>2 DEF FlagsRefused, IsLayer, Given
<1>5. Get(o, env, file) \in Int \union {Unset, Empty}
  BY <1>1 DEF IsLayer, Given, Get
<1>6. Overridden(cli, env, file)[o] = IF cli[o] # Unset THEN cli[o] ELSE Layered(o, env, file)
  BY <1>1 DEF Overridden
<1>7. Layered(o, env, file) \in Int
  BY <1>3, <1>5 DEF Layered
<1> QED
  BY <1>4, <1>6, <1>7

\* What Derived leaves in the fields it does not touch, and what it puts into
\* the two it does.
LEMMA DerivedFields ==
    ASSUME NEW cli, NEW env, NEW file,
           \A o \in Numbers : Overridden(cli, env, file)[o] \in Int
    PROVE  LET c == Overridden(cli, env, file)
               d == Resolved(cli, env, file)
           IN  /\ \A o \in Numbers : d[o] \in Int
               /\ \A o \in Options \ {"indexLimit", "threads"} : d[o] = c[o]
               /\ d.indexLimit = IF c.indexLimit < 0 THEN c.clients ELSE c.indexLimit
               /\ d.threads = IF c.clients > 0 /\ c.threads > c.clients THEN c.clients
                              ELSE c.threads
<1> DEFINE c == Overridden(cli, env, file)
           d == Resolved(cli, env, file)
<1>1. DOMAIN c = Options
  BY DEF Overridden
<1>2. /\ "indexLimit" \in Numbers /\ "threads" \in Numbers /\ "clients" \in Numbers
      /\ Numbers \subseteq Options
  BY DEF Numbers, Default, Options
<1>3. /\ \A o \in Options \ {"indexLimit", "threads"} : d[o] = c[o]
      /\ d["indexLimit"] = IF c["indexLimit"] < 0 THEN c["clients"] ELSE c["indexLimit"]
      /\ d["threads"] = IF c["clients"] > 0 /\ c["threads"] > c["clients"] THEN c["clients"]
                        ELSE c["threads"]
  BY <1>1, <1>2 DEF Resolved, Derived
<1>4. \A o \in Numbers : d[o] \in Int
  BY <1>2, <1>3
<1> QED
  BY <1>3, <1>4

\* Whatever the flags, the environment and the file say, a configuration that
\* Config::load lets run starts within its capacity, with a worker and no more
\* workers than clients, with one population shape and with somebody to send:
\* what ControlPlane, SessionControl and Walk assume of their constants.
THEOREM AcceptedConfigRuns ==
    ASSUME NEW cli, NEW env, NEW file,
           IsLayer(cli), IsLayer(env), IsLayer(file),
           Load(cli, env, file) = "run"
    PROVE  LET c == Resolved(cli, env, file)
           IN  StartsWithinLimit(c) /\ OneShape(c) /\ SomethingRuns(c)
<1> DEFINE c == Overridden(cli, env, file)
           d == Resolved(cli, env, file)
<1>1. /\ ~FlagsRefused(cli) /\ (\A o \in Numbers : Get(o, env, file) # Bad)
      /\ ValidRun(d) /\ ValidControl(d)
  BY DEF Load
<1>2. \A o \in Numbers : c[o] \in Int
  BY <1>1, NumbersConverted
<1>3. /\ \A o \in Numbers : d[o] \in Int
      /\ \A o \in Options \ {"indexLimit", "threads"} : d[o] = c[o]
      /\ d.threads = IF c.clients > 0 /\ c.threads > c.clients THEN c.clients ELSE c.threads
  BY <1>2, DerivedFields
<1>4. /\ {"clients", "threads", "indexLimit", "volumeChunks", "sparseRangeChunks",
          "spawnRadiusChunks"} \subseteq Numbers
      /\ Numbers \subseteq Options
  BY DEF Numbers, Default, Options
<1>5. /\ d.clients >= 0 /\ d.threads >= 1 /\ d.volumeChunks >= 0
      /\ d.sparseRangeChunks >= 0 /\ d.spawnRadiusChunks >= 0 /\ d.volumeChunks <= 64
  BY <1>1, <1>4 DEF ValidRun, InRange, Least, Greatest
<1>6. /\ d.clients \in Int /\ d.threads \in Int /\ d.indexLimit \in Int /\ d.volumeChunks \in Int
      /\ d.sparseRangeChunks \in Int /\ d.spawnRadiusChunks \in Int
      /\ c.clients \in Int /\ c.threads \in Int /\ d.clients = c.clients
  BY <1>2, <1>3, <1>4
<1>7. StartsWithinLimit(d)
  <2>1. d.indexLimit >= d.clients
    BY <1>1 DEF ValidRun
  <2>2. d.clients > 0 => d.threads <= d.clients
    BY <1>3, <1>6
  <2> QED
    BY <2>1, <2>2, <1>5, <1>6 DEF StartsWithinLimit
<1>8. OneShape(d)
  <2>1. ~(d.sparseRangeChunks > 0 /\ d.volumeChunks > 0)
    BY <1>1 DEF ValidRun
  <2> QED
    BY <2>1, <1>5, <1>6 DEF OneShape
<1>9. SomethingRuns(d)
  BY <1>1 DEF ValidControl, SomethingRuns
<1> QED
  BY <1>7, <1>8, <1>9

\* Unless some layer gives the limit, it is the number of clients the generator
\* starts with, so that every add is refused (Config.hpp, indexLimit; load
\* derives it after the flags).
THEOREM UngivenLimitFollowsClients ==
    ASSUME NEW cli, NEW env, NEW file,
           IsLayer(cli), IsLayer(env), IsLayer(file),
           ~FlagsRefused(cli), \A o \in Numbers : Get(o, env, file) # Bad
    PROVE  LimitFollowsClients(cli, env, file)
<1> SUFFICES ASSUME \A l \in {cli, env, file} : l["indexLimit"] \in {Unset, Empty}
             PROVE  Resolved(cli, env, file).indexLimit = Resolved(cli, env, file).clients
  BY DEF LimitFollowsClients
<1> DEFINE c == Overridden(cli, env, file)
           d == Resolved(cli, env, file)
<1>1. \A o \in Numbers : c[o] \in Int
  BY NumbersConverted
<1>2. /\ "indexLimit" \in Numbers /\ "clients" \in Options \ {"indexLimit", "threads"}
      /\ Default["indexLimit"] = -1
  BY DEF Numbers, Default, Options
<1>3. "indexLimit" \in Options \ Texts
  BY <1>2 DEF Options, Texts, DefaultText
<1>4. cli["indexLimit"] = Unset
  BY <1>3 DEF FlagsRefused
<1>5. c["indexLimit"] = -1
  BY <1>2, <1>3, <1>4 DEF Overridden, Layered, Get
<1>6. d.indexLimit = c.clients /\ d.clients = c.clients
  BY <1>1, <1>2, <1>5, DerivedFields
<1> QED
  BY <1>6
=============================================================================
