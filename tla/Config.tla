-------------------------------- MODULE Config --------------------------------
(***************************************************************************)
(* How a generator comes by its configuration (Config::load): an option is *)
(* looked up in the environment and then in the file, converted, replaced  *)
(* by its command-line flag; limits that were not given are derived; the   *)
(* whole is validated.  The options are those validate looks at.  A text   *)
(* is what it converts to: a number, a flag, a word; a password is its     *)
(* length; --help, which only prints, is left out.                         *)
(***************************************************************************)
EXTENDS Integers

CONSTANTS
    Unset,      \* the layer does not name the option
    Empty,      \* it gives it an empty text
    Bad         \* a text that std::stoi throws on and cxxopts refuses

\* The default of a number, and the least and greatest that validate accepts.
Default ==
    [appId |-> 0, clients |-> 10, threads |-> 1, updateHz |-> 10, distance |-> 8,
     volumeChunks |-> 0, sparseRangeChunks |-> 0, sparseGroup |-> 1,
     spawnRadiusChunks |-> 8, permWindowRadiusChunks |-> 8, permReloadGraceMs |-> 5000,
     decay |-> 1, provisionConcurrency |-> 4, rampBatchSize |-> 10,
     rxSilentReassignSec |-> 0, socketRcvbufBytes |-> 0,
     indexBase |-> 0, indexWidth |-> 4, indexLimit |-> -1]

Least ==
    [appId |-> 1, clients |-> 0, threads |-> 1, updateHz |-> 1, distance |-> 0,
     volumeChunks |-> 0, sparseRangeChunks |-> 0, sparseGroup |-> 1,
     spawnRadiusChunks |-> 0, permWindowRadiusChunks |-> 0, permReloadGraceMs |-> 0,
     decay |-> 0, provisionConcurrency |-> 1, rampBatchSize |-> 1,
     rxSilentReassignSec |-> 0, socketRcvbufBytes |-> 0,
     indexBase |-> 0, indexWidth |-> 1, indexLimit |-> 0]

Greatest ==
    [updateHz |-> 1000, distance |-> 255, volumeChunks |-> 64,
     sparseRangeChunks |-> 1000000000, decay |-> 5, indexWidth |-> 16]

\* The other options: their defaults, an empty text being a value like another.
DefaultText ==
    [email |-> Empty, password |-> Empty, managementApiUrl |-> Empty,
     poseFormat |-> "ue5", replayLogging |-> "leave", controlToken |-> Empty,
     rosterFile |-> Empty, controlBind |-> [host |-> "loopback", port |-> 9109]]

Numbers == DOMAIN Default
Texts == DOMAIN DefaultText
Options == Numbers \union Texts \union {"rosterRequired"}

\* Options load reads no flag for, or one that add_options does not declare.
Flagless == {"permReloadGraceMs", "rxSilentReassignSec"}

-----------------------------------------------------------------------------
(* Layers::get, getInt, getBool, and the flags.                            *)

\* The environment hides the file, also when it holds an empty text.
Get(o, env, file) == IF env[o] # Unset THEN env[o] ELSE file[o]

\* An empty number is the default's, an empty text is a text, and a switch is
\* on or is not.
Layered(o, env, file) ==
    LET v == Get(o, env, file)
    IN  IF o \in Numbers THEN IF v \in {Unset, Empty} THEN Default[o] ELSE v
        ELSE IF o \in Texts THEN IF v = Unset THEN DefaultText[o] ELSE v
        ELSE v = TRUE

Overridden(cli, env, file) ==
    [o \in Options |-> IF cli[o] # Unset THEN cli[o] ELSE Layered(o, env, file)]

\* The limit follows the clients unless it is given; no thread without a client.
Derived(c) ==
    [c EXCEPT !.indexLimit = IF c.indexLimit < 0 THEN c.clients ELSE c.indexLimit,
              !.threads = IF c.clients > 0 /\ c.threads > c.clients THEN c.clients
                          ELSE c.threads]

Resolved(cli, env, file) == Derived(Overridden(cli, env, file))

-----------------------------------------------------------------------------
(* validate.                                                               *)

NeedsPassword(c) == c.rosterFile = Empty \/ ~c.rosterRequired

\* parseControlBind: an unclosed bracket is taken for the host and leaves the
\* other fields, loopback and the port, at their defaults.
Disabled(c) == c.controlBind = Empty \/ c.controlBind.host = "off"
Loopback(c) == c.controlBind.host \in {"loopback", "unclosed"}
Port(c) ==
    IF Disabled(c) \/ c.controlBind.port = Unset \/ c.controlBind.host = "unclosed" THEN 9109
    ELSE c.controlBind.port

InRange(c) ==
    /\ \A o \in Numbers : c[o] >= Least[o]
    /\ \A o \in DOMAIN Greatest : c[o] <= Greatest[o]

ValidIdentity(c) ==
    /\ c.email \notin {Empty, "no-at-sign"}
    /\ NeedsPassword(c) => c.password # Empty /\ c.password >= 8
    /\ c.managementApiUrl # Empty

ValidRun(c) ==
    /\ ValidIdentity(c) /\ InRange(c)
    /\ c.poseFormat \in {"ue5", "bwf"} /\ c.replayLogging \in {"on", "off", "leave"}
    /\ ~(c.sparseRangeChunks > 0 /\ c.volumeChunks > 0)
    /\ c.indexLimit >= c.clients

ValidControl(c) ==
    /\ Disabled(c) \/ (Port(c) >= 1 /\ Port(c) <= 65535 /\ (Loopback(c) \/ c.controlToken # Empty))
    /\ c.clients > 0 \/ ~Disabled(c)

-----------------------------------------------------------------------------
(* load.                                                                   *)

FlagsRefused(cli) ==
    \/ \E o \in Options \ Texts : cli[o] \in {Empty, Bad}
    \/ \E o \in Flagless : cli[o] # Unset

\* How load ends: "usage" is a message and exit code 2; nothing catches what
\* std::stoi throws, in a layer or in the port of the bind.
Load(cli, env, file) ==
    LET c == Resolved(cli, env, file)
    IN  IF FlagsRefused(cli) THEN "usage"
        ELSE IF \E o \in Numbers : Get(o, env, file) = Bad THEN "terminate"
        ELSE IF ~ValidRun(c) THEN "usage"
        ELSE IF Port(c) = Bad THEN "terminate"
        ELSE IF ValidControl(c) THEN "run" ELSE "usage"

-----------------------------------------------------------------------------
(* What is in a layer.                                                     *)

Bind == [host : {"off", "loopback", "other", "unclosed"}, port : Int \union {Unset, Bad}]

Given(o) ==
    IF o \in Numbers THEN Int \union {Empty, Bad}
    ELSE IF o \in Texts
         THEN {Empty} \union (IF o = "controlBind" THEN Bind
                             ELSE IF o = "password" THEN Nat ELSE STRING)
    ELSE BOOLEAN \union {Empty, Bad}

IsLayer(l) ==
    /\ l = [o \in Options |-> l[o]]
    /\ \A o \in Options : l[o] \in Given(o) \union {Unset}

-----------------------------------------------------------------------------
(* Properties of a configuration that is run with.                         *)

\* The generator starts within its capacity and has a worker: what ControlPlane
\* assumes of StartClients and IndexLimit, and SessionControl of its workers.
StartsWithinLimit(c) ==
    /\ c.clients \in 0 .. c.indexLimit
    /\ c.threads >= 1 /\ (c.clients > 0 => c.threads <= c.clients)

\* One population shape, whose sizes are what Walk assumes.
OneShape(c) ==
    /\ c.volumeChunks \in 0 .. 64 /\ c.sparseRangeChunks \in Nat /\ c.spawnRadiusChunks \in Nat
    /\ c.volumeChunks = 0 \/ c.sparseRangeChunks = 0

\* Somebody sends: clients of its own, or a driver that can reach it to add some.
SomethingRuns(c) == c.clients > 0 \/ (~Disabled(c) /\ Port(c) >= 1 /\ Port(c) <= 65535)

\* Config.hpp, indexLimit: "Config::load fills it with `clients` so add is
\* refused unless the operator raised the limit".
LimitFollowsClients(cli, env, file) ==
    (\A l \in {cli, env, file} : l["indexLimit"] \in {Unset, Empty})
        => Resolved(cli, env, file).indexLimit = Resolved(cli, env, file).clients

-----------------------------------------------------------------------------
(* What the documents say and load contradicts.                            *)

\* README, precedence "CLI > env > file": what a flag says hides the layers.
FlagsHideLayers(o, cli, env, file) ==
    cli[o] # Unset /\ Get(o, env, file) = Bad => Load(cli, env, file) # "terminate"

\* README's table of options gives `--rx-silent-reassign-sec` as a flag.
DocumentedFlagTaken(cli) ==
    cli["rxSilentReassignSec"] \in Nat => (FlagsRefused(cli)
        => FlagsRefused([cli EXCEPT !["rxSilentReassignSec"] = Unset]))
=============================================================================
