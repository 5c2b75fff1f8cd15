------------------------------ MODULE StateProtocol ------------------------------
(***************************************************************************)
(* StateProtocol and the default StateCodec: one message is encoded into a *)
(* buffer of some capacity, carried, perhaps damaged, and offered to every *)
(* decoder, as a receiver that does not know what it has got may do.       *)
(*                                                                         *)
(* A frame maps the positions of its bytes to them.  A number, an          *)
(* identifier or a value is what the code copies: the function from 0, 1,  *)
(* ... to its bytes, the lowest first, so that any bytes at all are read   *)
(* as some number, and a damaged one as another.                           *)
(*                                                                         *)
(* Definitions that no action uses are faulty variants of the definition   *)
(* below them; README.md says which property each of them would break.     *)
(***************************************************************************)
EXTENDS Integers, FiniteSets

CONSTANTS
    ByteModulus,  \* How many values a byte has: 256.
    Device,       \* Identifiers of devices.
    TypeId,       \* Identifiers of definitions, 0 (never valid) included.
    Epoch,
    Revision,     \* 0 (never valid) included.
    ValueSize,    \* Per definition, the bytes its codec writes.
    Value,        \* Per definition, its values.
    Capacity      \* Sizes of buffers.

Byte == 0 .. ByteModulus - 1
Bytes(n) == [0 .. n - 1 -> Byte]

ASSUME ProtocolAssumption ==
    /\ ByteModulus \in Nat /\ ByteModulus > 8
    /\ Device \subseteq Bytes(16) /\ TypeId \subseteq Bytes(8)
    /\ Epoch \subseteq Bytes(4) /\ Revision \subseteq Bytes(8)
    /\ ValueSize \in [TypeId -> Nat \ {0}]
    /\ \A t \in TypeId : Value[t] \subseteq Bytes(ValueSize[t])
    /\ Capacity \subseteq Nat

VARIABLES
    sent,      \* The message that was encoded last.
    capacity,  \* The capacity of the buffer.
    frame,     \* The frame it became: none or one.
    received   \* What arrived of it: none or one.

vars == <<sent, capacity, frame, received>>

(* A 16-bit number, and 0 as a number of n bytes.                          *)
Word(x) ==
    [k \in 0 .. 1 |-> IF k = 0 THEN x % ByteModulus
                              ELSE (x \div ByteModulus) % ByteModulus]
Zero(n) == [k \in 0 .. n - 1 |-> 0]

Magic == Word(21332)
Version == 1
Update == 1
Acknowledgement == 2
MessageType == 1 .. 8
UpdateHeaderSize == 42
AcknowledgementSize == 40
ControlSize == 28

IsControlMessageType(type) == type \in MessageType \ {Update, Acknowledgement}

UpdateMessage ==
    UNION {[kind : {Update}, origin : Device, typeId : {t}, epoch : Epoch,
            revision : Revision, value : Value[t]] : t \in TypeId}

AcknowledgementMessage ==
    [kind : {Acknowledgement}, origin : Device, typeId : TypeId, epoch : Epoch,
     revision : Revision]

ControlMessage ==
    [kind : {k \in MessageType : IsControlMessageType(k)}, device : Device,
     typeId : TypeId]

(***************************************************************************)
(* Bytes.                                                                  *)
(***************************************************************************)
(* The bytes of f, and those of g where f has none.                        *)
f ++ g ==
    [i \in DOMAIN f \cup DOMAIN g |-> IF i \in DOMAIN f THEN f[i] ELSE g[i]]

Write(offset, width, x) == [i \in offset .. offset + width - 1 |-> x[i - offset]]

WriteByte(offset, x) == [i \in {offset} |-> x]

Read(f, offset, width) == [k \in 0 .. width - 1 |-> f[offset + k]]

Read16(f, offset) == f[offset] + ByteModulus * f[offset + 1]

Size(f) == Cardinality(DOMAIN f)

WriteCommon(type) == Write(0, 2, Magic) ++ WriteByte(2, Version) ++ WriteByte(3, type)

ReadCommon(f, type) ==
    /\ Size(f) >= 4
    /\ Read(f, 0, 2) = Magic /\ f[2] = Version
    /\ f[3] = type

(* StateCodec.                                                             *)
CodecForgetsTheHeader(room, n) == room + UpdateHeaderSize >= n

CodecEncodes(room, n) == room >= n

CodecDecodes(payloadSize, n) == payloadSize = n

(***************************************************************************)
(* Encoding: whether a message fits into the buffer, and its frame.        *)
(***************************************************************************)
EncodesUpdate(m, c) ==
    /\ c >= UpdateHeaderSize
    /\ CodecEncodes(c - UpdateHeaderSize, ValueSize[m.typeId])
    /\ ValueSize[m.typeId] < ByteModulus * ByteModulus

WriteStateHeader(m) ==
    Write(4, 16, m.origin) ++ Write(20, 8, m.typeId)
        ++ Write(28, 4, m.epoch) ++ Write(32, 8, m.revision)

EncodeUpdate(m) ==
    WriteCommon(Update) ++ WriteStateHeader(m)
        ++ Write(40, 2, Word(ValueSize[m.typeId]))
        ++ Write(UpdateHeaderSize, ValueSize[m.typeId], m.value)

EncodesAcknowledgement(c) == c >= AcknowledgementSize

EncodeAcknowledgement(m) == WriteCommon(Acknowledgement) ++ WriteStateHeader(m)

EncodesControl(m, c) == IsControlMessageType(m.kind) /\ c >= ControlSize

EncodeControl(m) ==
    WriteCommon(m.kind) ++ Write(4, 16, m.device) ++ Write(20, 8, m.typeId)

(***************************************************************************)
(* Decoding: the messages that a frame is read as, none or one.            *)
(***************************************************************************)
ReadsTheEpochAsWide(f) ==
    [origin |-> Read(f, 4, 16), typeId |-> Read(f, 20, 8),
     epoch |-> Read(f, 28, 8), revision |-> Read(f, 32, 8)]

ReadStateHeader(f) ==
    [origin |-> Read(f, 4, 16), typeId |-> Read(f, 20, 8),
     epoch |-> Read(f, 28, 4), revision |-> Read(f, 32, 8)]

IsValid(h) == h.typeId # Zero(8) /\ h.revision # Zero(8)

IgnoresWhatFollows(f) ==
    /\ ReadCommon(f, Update) /\ Size(f) >= UpdateHeaderSize
    /\ Read16(f, 40) + UpdateHeaderSize <= Size(f)
    /\ IsValid(ReadStateHeader(f))

DecodesUpdate(f) ==
    /\ ReadCommon(f, Update) /\ Size(f) >= UpdateHeaderSize
    /\ Read16(f, 40) + UpdateHeaderSize = Size(f)
    /\ IsValid(ReadStateHeader(f))

(* DecodeValue of the definition d.                                        *)
AnyTypeOfThatSize(f, d) == DecodesUpdate(f) /\ CodecDecodes(Read16(f, 40), ValueSize[d])

DecodesValue(f, d) ==
    /\ DecodesUpdate(f)
    /\ ReadStateHeader(f).typeId = d
    /\ CodecDecodes(Read16(f, 40), ValueSize[d])

DecodeValue(f, d) == Read(f, UpdateHeaderSize, ValueSize[d])

AsUpdate(f) ==
    LET h == ReadStateHeader(f)
    IN {[kind |-> Update, origin |-> h.origin, typeId |-> h.typeId, epoch |-> h.epoch,
         revision |-> h.revision, value |-> DecodeValue(f, d)] :
            d \in {t \in TypeId : DecodesValue(f, t)}}

AtLeastAnAcknowledgement(f) ==
    /\ ReadCommon(f, Acknowledgement) /\ Size(f) >= AcknowledgementSize
    /\ IsValid(ReadStateHeader(f))

DecodesAcknowledgement(f) ==
    /\ ReadCommon(f, Acknowledgement) /\ Size(f) = AcknowledgementSize
    /\ IsValid(ReadStateHeader(f))

AsAcknowledgement(f) ==
    LET h == ReadStateHeader(f)
    IN IF DecodesAcknowledgement(f)
       THEN {[kind |-> Acknowledgement, origin |-> h.origin, typeId |-> h.typeId,
              epoch |-> h.epoch, revision |-> h.revision]} ELSE {}

AsControl(f) ==
    {[kind |-> type, device |-> Read(f, 4, 16), typeId |-> Read(f, 20, 8)] :
        type \in {k \in MessageType : /\ ReadCommon(f, k) /\ Size(f) = ControlSize
                                      /\ IsControlMessageType(k)}}

Decode(f) == AsUpdate(f) \cup AsAcknowledgement(f) \cup AsControl(f)

(***************************************************************************)
(* The sender and what happens to a frame under way.                       *)
(***************************************************************************)
NoMessage == [kind |-> 0]

Encode(m, c, encodes, f) ==
    /\ sent = NoMessage /\ sent' = m
    /\ capacity' = c
    /\ frame' = IF encodes THEN {f} ELSE {}
    /\ UNCHANGED received

SendUpdate(m, c) == Encode(m, c, EncodesUpdate(m, c), EncodeUpdate(m))

SendAcknowledgement(m, c) ==
    Encode(m, c, EncodesAcknowledgement(c), EncodeAcknowledgement(m))

SendControl(m, c) == Encode(m, c, EncodesControl(m, c), EncodeControl(m))

Arrives(g) ==
    /\ received = {} /\ received' = {g}
    /\ UNCHANGED <<sent, capacity, frame>>

Carry == \E f \in frame : Arrives(f)

Cut == \E f \in frame : \E n \in DOMAIN f : Arrives([i \in 0 .. n - 1 |-> f[i]])

Extend ==
    \E f \in frame, n \in 1 .. 2, x \in Byte :
        Arrives(f ++ [i \in Size(f) .. Size(f) + n - 1 |-> x])

(* A byte, that of the type included, becomes any other.                   *)
DamageByte ==
    \E f \in frame : \E i \in DOMAIN f, x \in Byte : Arrives([f EXCEPT ![i] = x])

(* Time for the next message.                                              *)
Discard ==
    /\ sent # NoMessage /\ sent' = NoMessage
    /\ capacity' = 0 /\ frame' = {} /\ received' = {}

Init ==
    /\ sent = NoMessage
    /\ capacity = 0
    /\ frame = {}
    /\ received = {}

Next ==
    \/ \E c \in Capacity :
          \/ \E m \in UpdateMessage : SendUpdate(m, c)
          \/ \E m \in AcknowledgementMessage : SendAcknowledgement(m, c)
          \/ \E m \in ControlMessage : SendControl(m, c)
    \/ Carry \/ Cut \/ Extend \/ DamageByte \/ Discard

Spec == Init /\ [][Next]_vars

(***************************************************************************)
(* Properties.                                                             *)
(***************************************************************************)

(* What arrives undamaged is read as the message that was sent and as no   *)
(* other, whichever decoders and definitions it is offered to; an update   *)
(* or an acknowledgement that nobody may send is read as nothing at all.   *)
RoundTrip ==
    \A f \in received \cap frame :
        LET refused == sent.kind \in {Update, Acknowledgement} /\ ~IsValid(sent)
        IN Decode(f) = IF refused THEN {} ELSE {sent}

(* A frame that lost bytes or got more of them is read as nothing, even if *)
(* it has the size of a message of another kind.                           *)
OnlyWholeFrames ==
    \A f \in received, g \in frame : Size(f) # Size(g) => Decode(f) = {}

(* A frame with a damaged byte, be it the type, is refused, is read as a   *)
(* message of the kind that was sent, or is a control message that passes  *)
(* for another one: the sizes keep the other kinds apart.                  *)
KindsStayApart ==
    \A f \in received : \A m \in Decode(f) :
        m.kind = sent.kind \/ {m, sent} \subseteq ControlMessage

(* There is no checksum: a damaged byte can make the identifier of one     *)
(* definition that of another.  The other gets the value only if the two   *)
(* identifiers differ in no other byte and values of both have one size,   *)
(* and it gets all of the value as it was sent.                            *)
OneByteApart(x, y) ==
    \E k \in DOMAIN x : x[k] # y[k] /\ \A j \in DOMAIN x \ {k} : x[j] = y[j]

OnlyNeighboursAreConfused ==
    \A f \in received, d \in TypeId :
        DecodesValue(f, d) =>
            /\ sent.kind = Update
            /\ ValueSize[d] = ValueSize[sent.typeId]
            /\ d # sent.typeId => /\ OneByteApart(d, sent.typeId)
                                  /\ DecodeValue(f, d) = sent.value

(* A frame is no larger than the buffer it was written to, all its bytes   *)
(* were written, and its size field, which has two bytes, is the size of   *)
(* the payload.                                                            *)
FitsTheBuffer ==
    \A f \in frame :
        /\ Size(f) <= capacity
        /\ DOMAIN f = 0 .. Size(f) - 1
        /\ sent.kind = Update => Read16(f, 40) = Size(f) - UpdateHeaderSize
================================================================================
