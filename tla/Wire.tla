--------------------------------- MODULE Wire ---------------------------------
(***************************************************************************)
(* The bytes of a datagram (Wire.hpp): how an actor update is laid out and *)
(* signed, and how handleDatagram walks what a Buddy sends back, a plain   *)
(* message, a bundle or a signed bundle, whose length fields are whatever  *)
(* arrived.  Bytes are positions, 0 .. len - 1; what they hold is chosen   *)
(* when they are read.                                                     *)
(***************************************************************************)
EXTENDS Integers

CONSTANTS
    TagSize,        \* hmac::TAG_SIZE (32)
    SlotSize,       \* a token id or an epoch (8)
    AuthAt,         \* off::CONTAINS_AUTH (35)
    HeaderSize,     \* HEADER_SIZE (68)
    PayloadSizes,   \* payloadSize of the pose formats (88, 48)
    RecvBuffer,     \* buf of drainSocket (2048)
    LengthMax       \* the largest length field (2^16 - 1)

ASSUME WireAssumption ==
    /\ {TagSize, SlotSize, RecvBuffer, LengthMax} \subseteq Nat \ {0}
    /\ AuthAt \in Nat /\ HeaderSize \in Nat /\ AuthAt < HeaderSize
    /\ PayloadSizes \subseteq Nat

VARIABLES
    datagram,   \* the one handleDatagram is in: kind, length, end of its members
    offset,     \* forEachMessage's offset
    member,     \* the InboundView handed to the callback: its place and length
    rxPc        \* idle, walk (forEachMessage), member (its callback)

wireVars == <<datagram, offset, member, rxPc>>

TailWithHmac == TagSize + SlotSize + 1
TailNoHmac == SlotSize + 1

-----------------------------------------------------------------------------
(* An actor update: header, payload, tag, token id, sequence number.       *)

ActorUpdateSize(payload) == HeaderSize + payload + TailWithHmac
HmacOffset(payload) == HeaderSize + payload
TokenIdOffset(payload) == HmacOffset(payload) + TagSize
SeqOffset(payload) == TokenIdOffset(payload) + SlotSize

-----------------------------------------------------------------------------
(* Receiving.                                                              *)

Bytes(from, n) == from .. from + n - 1

\* What the callback reads of a message at `at': its type; an error's code;
\* of a notification (type & SPATIAL_TYPE_BIT) the auth flag, all of it when
\* it is signed, and the epoch.
ErrorReads(at, len) ==
    (IF len > 0 THEN {at} ELSE {}) \union (IF len >= 3 THEN {at + 2} ELSE {})

VerifyReads(at, len, signed) ==
    (IF len > AuthAt THEN {at + AuthAt} ELSE {})
    \union (IF len > AuthAt /\ signed /\ len >= HeaderSize + TailWithHmac
            THEN Bytes(at, len - TailWithHmac) \union Bytes(at + len - TailWithHmac, TagSize)
            ELSE {})

EpochReads(at, len) ==
    IF len < HeaderSize + TailNoHmac THEN {} ELSE Bytes(at + len - TailNoHmac, SlotSize)

Reads(at, len) ==
    ErrorReads(at, len) \union VerifyReads(at, len, TRUE) \union EpochReads(at, len)

Nothing == [kind |-> "none", len |-> 0, end |-> 0]
NoMember == [at |-> 0, len |-> 0]

\* Where the members of a bundle end: a signed one has its tag behind them.
SlipMembersEnd(kind, len) == len
MembersEnd(kind, len) == IF kind = "signed" THEN len - TagSize ELSE len

\* The datagram is done with: walked to its end, malformed, forged or empty.
\* (The code counts which; nothing it does depends on the counts.)
Conclude ==
    /\ rxPc' = "idle"
    /\ datagram' = Nothing /\ offset' = 0 /\ member' = NoMember

\* recv and handleDatagram up to the first message: a signed bundle whose tag
\* does not verify is dropped whole, and its tag is not walked.
Receive(kind, len, authentic) ==
    /\ rxPc = "idle"
    /\ \/ len = 0 /\ Conclude
       \/ /\ len > 0 /\ kind = "signed" /\ (len <= TagSize + 1 \/ ~authentic)
          /\ Conclude
       \/ /\ len > 0 /\ kind = "plain"
          /\ datagram' = [kind |-> kind, len |-> len, end |-> len]
          /\ offset' = len /\ member' = [at |-> 0, len |-> len]
          /\ rxPc' = "member"
       \/ /\ \/ len > 0 /\ kind = "bundle"
             \/ len > TagSize + 1 /\ kind = "signed" /\ authentic
          /\ datagram' = [kind |-> kind, len |-> len, end |-> MembersEnd(kind, len)]
          /\ offset' = 1 /\ member' = NoMember
          /\ rxPc' = "walk"

\* One turn of forEachMessage's loop: a length field and the member it claims.
TakeMember(msgLen) ==
    /\ rxPc = "walk" /\ offset < datagram.end
    /\ IF offset + 2 > datagram.end \/ offset + 2 + msgLen > datagram.end
       THEN Conclude
       ELSE /\ member' = [at |-> offset + 2, len |-> msgLen]
            /\ offset' = offset + 2 + msgLen
            /\ rxPc' = "member" /\ UNCHANGED datagram

\* The callback returns.
MemberDone ==
    /\ rxPc = "member"
    /\ rxPc' = "walk" /\ member' = NoMember
    /\ UNCHANGED <<datagram, offset>>

WalkDone ==
    /\ rxPc = "walk" /\ offset >= datagram.end
    /\ Conclude

WireInit ==
    /\ datagram = Nothing /\ offset = 0 /\ member = NoMember
    /\ rxPc = "idle"

Kinds == {"plain", "bundle", "signed"}

WireNext ==
    \/ \E kind \in Kinds, len \in 0 .. RecvBuffer, authentic \in BOOLEAN :
           Receive(kind, len, authentic)
    \/ \E msgLen \in 0 .. LengthMax : TakeMember(msgLen)
    \/ MemberDone \/ WalkDone

WireSpec == WireInit /\ [][WireNext]_wireVars

-----------------------------------------------------------------------------
(* Properties.                                                             *)

\* Every variable has its type.
WireTypeOK ==
    /\ datagram \in [kind : Kinds \union {"none"}, len : 0 .. RecvBuffer, end : 0 .. RecvBuffer]
    /\ offset \in 0 .. RecvBuffer
    /\ member \in [at : 0 .. RecvBuffer, len : 0 .. RecvBuffer]
    /\ rxPc \in {"idle", "walk", "member"}

\* Whatever length fields arrive, nothing is read outside the bytes received:
\* a length field about to be read, a member and everything the callback reads
\* of it lie inside the datagram and, in a signed bundle, before its tag
\* (forEachMessage, verifyNotification, notificationEpochMs).
ReadsInside ==
    /\ rxPc = "walk" /\ offset + 2 <= datagram.end => Bytes(offset, 2) \subseteq 0 .. datagram.len - 1
    /\ rxPc = "member" =>
           /\ Reads(member.at, member.len) \subseteq Bytes(member.at, member.len)
           /\ Bytes(member.at, member.len) \subseteq 0 .. datagram.len - 1
           /\ datagram.kind = "signed" => member.at + member.len <= datagram.len - TagSize
=============================================================================
