---------------------------- MODULE ClientSession ----------------------------
(***************************************************************************)
(* What the session machinery promises a simulated client, without queue,  *)
(* control thread, inboxes or credentials.  A client is off, waiting,      *)
(* active or suspended; `owed' counts the answers it has coming.  A        *)
(* suspended client asks nothing more, every request is answered exactly   *)
(* once, and a refusal leaves the client as it is.                         *)
(***************************************************************************)
EXTENDS Naturals

CONSTANT Client

VARIABLES phase, owed, refused

sessionVars == <<phase, owed, refused>>

SessionInit ==
    /\ phase = [c \in Client |-> "off"]
    /\ owed = [c \in Client |-> 0]
    /\ refused = [c \in Client |-> FALSE]

Activate(c) ==
    /\ phase[c] = "waiting"
    /\ phase' = [phase EXCEPT ![c] = "active"]
    /\ UNCHANGED <<owed, refused>>

\* An active client may ask and go on.
Ask(c) ==
    /\ phase[c] = "active"
    /\ owed' = [owed EXCEPT ![c] = @ + 1]
    /\ UNCHANGED <<phase, refused>>

\* A client that cannot go on asks and stops; n counts a question asked in
\* the same breath.
Suspend(c, n) ==
    /\ phase[c] \in {"waiting", "active"}
    /\ phase' = [phase EXCEPT ![c] = "suspended"]
    /\ owed' = [owed EXCEPT ![c] = @ + n]
    /\ UNCHANGED refused

\* A good answer sends the client back to wait for its new session.
Answer(c) ==
    /\ owed[c] > 0
    /\ owed' = [owed EXCEPT ![c] = @ - 1]
    /\ phase' = [phase EXCEPT ![c] = "waiting"]
    /\ refused' = [refused EXCEPT ![c] = FALSE]

Refuse(c) ==
    /\ owed[c] > 0
    /\ owed' = [owed EXCEPT ![c] = @ - 1]
    /\ refused' = [refused EXCEPT ![c] = (phase[c] = "suspended")]
    /\ UNCHANGED phase

\* Clients that share a worker join together.
JoinAll == \E S \in (SUBSET Client) \ {{}} :
    /\ \A c \in S : phase[c] = "off"
    /\ phase' = [c \in Client |-> IF c \in S THEN "waiting" ELSE phase[c]]
    /\ UNCHANGED <<owed, refused>>

SessionNext ==
    \/ JoinAll
    \/ \E c \in Client : \/ Activate(c) \/ Ask(c) \/ Answer(c) \/ Refuse(c)
                         \/ \E n \in 1 .. 2 : Suspend(c, n)

SessionSpec == SessionInit /\ [][SessionNext]_sessionVars
=============================================================================
