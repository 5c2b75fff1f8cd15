------------------------------ MODULE ProtocolProofs ------------------------------
(***************************************************************************)
(* What StateProtocol promises for any identifiers, values and sizes of    *)
(* payloads, and any buffer: what was encoded is decoded, and what a frame *)
(* with a damaged byte can at worst be taken for.                          *)
(***************************************************************************)
EXTENDS StateProtocol, FiniteSetTheorems, TLAPS

Message == UpdateMessage \cup AcknowledgementMessage \cup ControlMessage

(* How many bytes a message takes, and its frame.                          *)
SizeOf(m) ==
    IF m.kind = Update THEN UpdateHeaderSize + ValueSize[m.typeId]
    ELSE IF m.kind = Acknowledgement THEN AcknowledgementSize ELSE ControlSize

FrameOf(m) ==
    IF m.kind = Update THEN EncodeUpdate(m)
    ELSE IF m.kind = Acknowledgement THEN EncodeAcknowledgement(m) ELSE EncodeControl(m)

HasSize(f, n) == n \in Nat /\ DOMAIN f = 0 .. n - 1

Holds(f, offset, width, x) ==
    \A k \in 0 .. width - 1 : offset + k \in DOMAIN f /\ f[offset + k] = x[k]

HoldsByte(f, i, x) == i \in DOMAIN f /\ f[i] = x

(***************************************************************************)
(* Bytes.                                                                    *)
(***************************************************************************)
LEMMA SizeIs ==
    ASSUME NEW f, NEW n, HasSize(f, n)
    PROVE  Size(f) = n
<1>1. n \in Nat /\ DOMAIN f = 0 .. n - 1
  BY DEF HasSize
<1>2. Cardinality(0 .. n - 1) = IF 0 > n - 1 THEN 0 ELSE n - 1 - 0 + 1
  BY <1>1, FS_Interval
<1>3. QED
  BY <1>1, <1>2 DEF Size

LEMMA ReadsWhatItHolds ==
    ASSUME NEW f, NEW offset \in Nat, NEW width \in Nat, NEW x \in Bytes(width),
           Holds(f, offset, width, x)
    PROVE  Read(f, offset, width) = x
BY DEF Holds, Read, Bytes

LEMMA HoldsWhatItReads ==
    ASSUME NEW f, NEW offset \in Nat, NEW width \in Nat, NEW x,
           Read(f, offset, width) = x
    PROVE  \A k \in 0 .. width - 1 : f[offset + k] = x[k]
BY DEF Read

(* Two bytes count up to their limit.                                      *)
LEMMA WordIsRead ==
    ASSUME NEW n \in Nat, n < ByteModulus * ByteModulus
    PROVE  Word(n)[0] + ByteModulus * Word(n)[1] = n
<1>1. PICK b \in Nat \ {0} : b = ByteModulus
  BY ProtocolAssumption
<1>2. PICK q \in Nat : q = n \div b
  BY <1>1
<1>3. PICK r \in 0 .. b - 1 : r = n % b
  BY <1>1
<1>4. n = b * q + r
  BY <1>1, <1>2, <1>3
<1>5. q < b
  BY <1>1, <1>3, <1>4
<1>6. q % b = q
  BY <1>1, <1>5
<1>7. Word(n)[0] = r /\ Word(n)[1] = q
  BY <1>1, <1>2, <1>3, <1>6 DEF Word
<1>8. QED
  BY <1>1, <1>4, <1>7

LEMMA WordsAreBytes == \A n \in Nat : Word(n) \in Bytes(2)
<1> SUFFICES ASSUME NEW n \in Nat PROVE Word(n) \in Bytes(2)
  OBVIOUS
<1>1. n % ByteModulus \in Byte /\ (n \div ByteModulus) % ByteModulus \in Byte
  BY ProtocolAssumption DEF Byte
<1>2. QED
  BY <1>1 DEF Word, Bytes

LEMMA SizeIsRead ==
    ASSUME NEW f, NEW n \in Nat, n < ByteModulus * ByteModulus, Holds(f, 40, 2, Word(n))
    PROVE  Read16(f, 40) = n
<1>1. f[40 + 0] = Word(n)[0] /\ f[40 + 1] = Word(n)[1]
  BY DEF Holds
<1>2. QED
  BY <1>1, WordIsRead DEF Read16

LEMMA Fields ==
    ASSUME NEW m \in UpdateMessage
    PROVE  /\ m.kind = Update
           /\ m.origin \in Bytes(16) /\ m.typeId \in TypeId /\ m.typeId \in Bytes(8)
           /\ m.epoch \in Bytes(4) /\ m.revision \in Bytes(8)
           /\ ValueSize[m.typeId] \in Nat \ {0}
           /\ m.value \in Bytes(ValueSize[m.typeId])
           /\ m = [kind |-> Update, origin |-> m.origin, typeId |-> m.typeId,
                    epoch |-> m.epoch, revision |-> m.revision, value |-> m.value]
<1>1. PICK t \in TypeId :
         m \in [kind : {Update}, origin : Device, typeId : {t}, epoch : Epoch,
                revision : Revision, value : Value[t]]
  BY DEF UpdateMessage
<1>2. m.typeId = t
  BY <1>1
<1>3. QED
  BY <1>1, <1>2, ProtocolAssumption

LEMMA AcknowledgementFields ==
    ASSUME NEW m \in AcknowledgementMessage
    PROVE  /\ m.origin \in Bytes(16) /\ m.typeId \in Bytes(8)
           /\ m.epoch \in Bytes(4) /\ m.revision \in Bytes(8)
BY ProtocolAssumption DEF AcknowledgementMessage

(***************************************************************************)
(* The frames of the three kinds of message, field by field.               *)
(***************************************************************************)
HoldsCommon(f, type) ==
    Holds(f, 0, 2, Magic) /\ HoldsByte(f, 2, Version) /\ HoldsByte(f, 3, type)

HoldsHeader(f, m) ==
    /\ Holds(f, 4, 16, m.origin) /\ Holds(f, 20, 8, m.typeId)
    /\ Holds(f, 28, 4, m.epoch) /\ Holds(f, 32, 8, m.revision)

Beyond(f, offset, width) == \A k \in 0 .. width - 1 : offset + k \notin DOMAIN f

LEMMA Written ==
    ASSUME NEW offset \in Nat, NEW width \in Nat, NEW x
    PROVE  /\ DOMAIN Write(offset, width, x) = offset .. offset + width - 1
           /\ Holds(Write(offset, width, x), offset, width, x)
BY DEF Write, Holds

LEMMA Overlaid ==
    ASSUME NEW f, NEW g
    PROVE  /\ DOMAIN (f ++ g) = DOMAIN f \cup DOMAIN g
           /\ \A i \in DOMAIN f : (f ++ g)[i] = f[i]
BY DEF ++

LEMMA OverlaidSecond ==
    ASSUME NEW f, NEW g, NEW i \in DOMAIN g, i \notin DOMAIN f
    PROVE  i \in DOMAIN (f ++ g) /\ (f ++ g)[i] = g[i]
BY DEF ++

(* What the first of two parts holds, the whole holds; and what the second *)
(* holds where the first ends.                                             *)
LEMMA FirstHolds ==
    ASSUME NEW f, NEW g, NEW offset, NEW width, NEW x, Holds(f, offset, width, x)
    PROVE  Holds(f ++ g, offset, width, x)
BY Overlaid DEF Holds

LEMMA FirstHoldsByte ==
    ASSUME NEW f, NEW g, NEW i, NEW x, HoldsByte(f, i, x)
    PROVE  HoldsByte(f ++ g, i, x)
BY Overlaid DEF HoldsByte

LEMMA SecondHolds ==
    ASSUME NEW f, NEW g, NEW offset, NEW width, NEW x,
           Beyond(f, offset, width), Holds(g, offset, width, x)
    PROVE  Holds(f ++ g, offset, width, x)
<1> SUFFICES ASSUME NEW k \in 0 .. width - 1
             PROVE  /\ offset + k \in DOMAIN (f ++ g)
                    /\ (f ++ g)[offset + k] = x[k]
  BY DEF Holds
<1>1. offset + k \in DOMAIN g /\ g[offset + k] = x[k]
  BY DEF Holds
<1>2. offset + k \notin DOMAIN f
  BY Zenon DEF Beyond
<1>3. /\ offset + k \in DOMAIN (f ++ g)
      /\ (f ++ g)[offset + k] = g[offset + k]
  BY <1>1, <1>2, OverlaidSecond, Zenon
<1>4. QED
  BY <1>1, <1>3, Zenon

LEMMA CommonPart ==
    ASSUME NEW type
    PROVE  DOMAIN WriteCommon(type) = 0 .. 3 /\ HoldsCommon(WriteCommon(type), type)
<1>1. DOMAIN WriteCommon(type) = 0 .. 3
  BY DEF WriteCommon, Write, WriteByte, ++
<1>2. HoldsCommon(WriteCommon(type), type)
  BY DEF HoldsCommon, Holds, HoldsByte, WriteCommon, Write, WriteByte, ++
<1>3. QED
  BY <1>1, <1>2

LEMMA HeaderPart ==
    ASSUME NEW m
    PROVE  DOMAIN WriteStateHeader(m) = 4 .. 39 /\ HoldsHeader(WriteStateHeader(m), m)
<1>1. DOMAIN WriteStateHeader(m) = 4 .. 39
  BY DEF WriteStateHeader, Write, ++
<1>2. Holds(WriteStateHeader(m), 4, 16, m.origin)
  BY DEF Holds, WriteStateHeader, Write, ++
<1>3. Holds(WriteStateHeader(m), 20, 8, m.typeId)
  BY DEF Holds, WriteStateHeader, Write, ++
<1>4. Holds(WriteStateHeader(m), 28, 4, m.epoch)
  BY DEF Holds, WriteStateHeader, Write, ++
<1>5. Holds(WriteStateHeader(m), 32, 8, m.revision)
  BY DEF Holds, WriteStateHeader, Write, ++
<1>6. QED
  BY <1>1, <1>2, <1>3, <1>4, <1>5 DEF HoldsHeader

(* Both parts together: the frame of an acknowledgement, and the head of   *)
(* the frame of an update.                                                 *)
LEMMA HeadPart ==
    ASSUME NEW type, NEW m
    PROVE  /\ DOMAIN (WriteCommon(type) ++ WriteStateHeader(m)) = 0 .. 39
           /\ HoldsCommon(WriteCommon(type) ++ WriteStateHeader(m), type)
           /\ HoldsHeader(WriteCommon(type) ++ WriteStateHeader(m), m)
<1>1. DOMAIN (WriteCommon(type) ++ WriteStateHeader(m)) = 0 .. 39
  <2>1. DOMAIN (WriteCommon(type) ++ WriteStateHeader(m)) = DOMAIN WriteCommon(type) \cup DOMAIN WriteStateHeader(m)
    BY Overlaid
  <2>2. QED
    BY <2>1, CommonPart, HeaderPart
<1>2. HoldsCommon(WriteCommon(type) ++ WriteStateHeader(m), type)
  BY CommonPart, FirstHolds, FirstHoldsByte, Zenon DEF HoldsCommon
<1>3. HoldsHeader(WriteCommon(type) ++ WriteStateHeader(m), m)
  <2>1. DOMAIN WriteCommon(type) = 0 .. 3
    BY CommonPart
  <2>2. /\ Beyond(WriteCommon(type), 4, 16) /\ Beyond(WriteCommon(type), 20, 8)
        /\ Beyond(WriteCommon(type), 28, 4) /\ Beyond(WriteCommon(type), 32, 8)
    BY <2>1 DEF Beyond
  <2>3. QED
    BY <2>2, HeaderPart, SecondHolds, Zenon DEF HoldsHeader
<1>4. QED
  BY <1>1, <1>2, <1>3

LEMMA UpdateFrame ==
    ASSUME NEW m, NEW n \in Nat, ValueSize[m.typeId] = n
    PROVE  /\ HasSize(EncodeUpdate(m), UpdateHeaderSize + n)
           /\ HoldsCommon(EncodeUpdate(m), Update)
           /\ HoldsHeader(EncodeUpdate(m), m)
           /\ Holds(EncodeUpdate(m), 40, 2, Word(n))
           /\ Holds(EncodeUpdate(m), UpdateHeaderSize, n, m.value)
<1>1. PICK head : head = WriteCommon(Update) ++ WriteStateHeader(m)
  OBVIOUS
<1>2. PICK size : size = Write(40, 2, Word(n))
  OBVIOUS
<1>3. PICK payload : payload = Write(42, n, m.value)
  OBVIOUS
<1>4. EncodeUpdate(m) = head ++ size ++ payload
  BY <1>1, <1>2, <1>3 DEF EncodeUpdate, UpdateHeaderSize
<1>5. DOMAIN head = 0 .. 39 /\ HoldsCommon(head, Update) /\ HoldsHeader(head, m)
  BY <1>1, HeadPart
<1>6. DOMAIN size = 40 .. 41 /\ Holds(size, 40, 2, Word(n))
  <2>1. DOMAIN size = 40 .. 40 + 2 - 1 /\ Holds(size, 40, 2, Word(n))
    BY <1>2, Written
  <2>2. QED
    BY <2>1
<1>7. DOMAIN payload = 42 .. 42 + n - 1 /\ Holds(payload, 42, n, m.value)
  BY <1>3, Written
<1>8. DOMAIN (head ++ size) = 0 .. 41
  <2>1. DOMAIN (head ++ size) = DOMAIN head \cup DOMAIN size
    BY Overlaid
  <2>2. QED
    BY <2>1, <1>5, <1>6
<1>9. /\ HoldsCommon(head ++ size, Update) /\ HoldsHeader(head ++ size, m)
      /\ Holds(head ++ size, 40, 2, Word(n))
  <2>1. Beyond(head, 40, 2)
    BY <1>5 DEF Beyond
  <2>2. QED
    BY <1>5, <1>6, <2>1, FirstHolds, FirstHoldsByte, SecondHolds, Zenon DEF HoldsCommon, HoldsHeader
<1>10. DOMAIN (head ++ size ++ payload) = 0 .. 42 + n - 1
  <2>1. DOMAIN (head ++ size ++ payload) = DOMAIN (head ++ size) \cup DOMAIN payload
    BY Overlaid
  <2>2. (0 .. 41) \cup (42 .. 42 + n - 1) = 0 .. 42 + n - 1
    OBVIOUS
  <2>3. QED
    BY <1>7, <1>8, <2>1, <2>2, Zenon
<1>11. /\ HoldsCommon(head ++ size ++ payload, Update)
       /\ HoldsHeader(head ++ size ++ payload, m)
       /\ Holds(head ++ size ++ payload, 40, 2, Word(n))
  BY <1>9, FirstHolds, FirstHoldsByte, Zenon DEF HoldsCommon, HoldsHeader
<1>12. Holds(head ++ size ++ payload, 42, n, m.value)
  <2>1. Beyond(head ++ size, 42, n)
    BY <1>8 DEF Beyond
  <2>2. QED
    BY <1>7, <2>1, SecondHolds, Zenon
<1>13. QED
  BY <1>4, <1>10, <1>11, <1>12 DEF HasSize, UpdateHeaderSize

LEMMA AcknowledgementFrame ==
    ASSUME NEW m
    PROVE  /\ HasSize(EncodeAcknowledgement(m), AcknowledgementSize)
           /\ HoldsCommon(EncodeAcknowledgement(m), Acknowledgement)
           /\ HoldsHeader(EncodeAcknowledgement(m), m)
BY HeadPart DEF EncodeAcknowledgement, HasSize, AcknowledgementSize

LEMMA ControlFrame ==
    ASSUME NEW m
    PROVE  /\ HasSize(EncodeControl(m), ControlSize)
           /\ HoldsCommon(EncodeControl(m), m.kind)
           /\ Holds(EncodeControl(m), 4, 16, m.device)
           /\ Holds(EncodeControl(m), 20, 8, m.typeId)
<1> DEFINE rest == Write(4, 16, m.device) ++ Write(20, 8, m.typeId)
<1>1. EncodeControl(m) = WriteCommon(m.kind) ++ Write(4, 16, m.device) ++ Write(20, 8, m.typeId)
  BY DEF EncodeControl
<1>2. HasSize(EncodeControl(m), ControlSize)
  BY DEF HasSize, EncodeControl, WriteCommon, Write, WriteByte, ++, ControlSize
<1>3. HoldsCommon(EncodeControl(m), m.kind)
  BY <1>1, CommonPart, FirstHolds, FirstHoldsByte, Zenon DEF HoldsCommon
<1>4. DOMAIN WriteCommon(m.kind) = 0 .. 3
  BY CommonPart
<1>5. Beyond(WriteCommon(m.kind), 4, 16)
  BY <1>4 DEF Beyond
<1>6. Holds(EncodeControl(m), 4, 16, m.device)
  BY <1>1, <1>5, Written, FirstHolds, SecondHolds
<1>7. Holds(EncodeControl(m), 20, 8, m.typeId)
  BY DEF Holds, EncodeControl, WriteCommon, Write, WriteByte, ++
<1>8. QED
  BY <1>2, <1>3, <1>6, <1>7

(***************************************************************************)
(* What may arrive of a frame: all of it, with one byte damaged or none,   *)
(* or another number of bytes, those that were there before unchanged.     *)
(***************************************************************************)
Encodable(m) == m.kind = Update => ValueSize[m.typeId] < ByteModulus * ByteModulus

Whole(f, g, n) ==
    /\ HasSize(f, n)
    /\ \E at \in 0 .. n - 1 : \A i \in 0 .. n - 1 : i # at => f[i] = g[i]

Partial(f, g, n) ==
    \E k \in Nat : k # n /\ HasSize(f, k) /\ \A i \in 0 .. k - 1 : i < n => f[i] = g[i]

LEMMA Kinds ==
    ASSUME NEW m \in Message
    PROVE  /\ m.kind \in MessageType
           /\ m.kind = Update <=> m \in UpdateMessage
           /\ m.kind = Acknowledgement <=> m \in AcknowledgementMessage
           /\ IsControlMessageType(m.kind) <=> m \in ControlMessage
           /\ IsControlMessageType(m.kind) <=> m.kind # Update /\ m.kind # Acknowledgement
<1>1. m \in UpdateMessage => m.kind = Update
  BY Fields
<1>2. m \in AcknowledgementMessage => m.kind = Acknowledgement
  BY DEF AcknowledgementMessage
<1>3. m \in ControlMessage => m.kind \in MessageType /\ IsControlMessageType(m.kind)
  BY DEF ControlMessage
<1>4. QED
  BY <1>1, <1>2, <1>3
     DEF Message, IsControlMessageType, MessageType, Update, Acknowledgement

LEMMA Frames ==
    ASSUME NEW m \in Message
    PROVE  /\ HasSize(FrameOf(m), SizeOf(m))
           /\ HoldsCommon(FrameOf(m), m.kind)
           /\ SizeOf(m) \in Nat
           /\ m.kind = Update => SizeOf(m) = 42 + ValueSize[m.typeId] /\ SizeOf(m) > 42
           /\ m.kind = Acknowledgement => SizeOf(m) = 40
           /\ IsControlMessageType(m.kind) => SizeOf(m) = 28
<1>1. CASE m.kind = Update
  <2>1. PICK n \in Nat \ {0} : n = ValueSize[m.typeId]
    BY <1>1, Kinds, Fields
  <2>2. FrameOf(m) = EncodeUpdate(m) /\ SizeOf(m) = UpdateHeaderSize + n
    <3>1. FrameOf(m) = EncodeUpdate(m)
      BY <1>1, Zenon DEF FrameOf
    <3>2. SizeOf(m) = UpdateHeaderSize + ValueSize[m.typeId]
      BY <1>1, Zenon DEF SizeOf
    <3>3. QED
      BY <2>1, <3>1, <3>2, Zenon
  <2>3. HasSize(FrameOf(m), SizeOf(m)) /\ HoldsCommon(FrameOf(m), m.kind)
    BY <1>1, <2>1, <2>2, UpdateFrame
  <2>4. QED
    BY <1>1, <2>1, <2>2, <2>3, Kinds DEF UpdateHeaderSize, Update, Acknowledgement
<1>2. CASE m.kind = Acknowledgement
  <2>1. FrameOf(m) = EncodeAcknowledgement(m) /\ SizeOf(m) = AcknowledgementSize
    BY <1>2 DEF FrameOf, SizeOf, Update, Acknowledgement
  <2>2. QED
    BY <1>2, <2>1, AcknowledgementFrame, Kinds
       DEF AcknowledgementSize, Update, Acknowledgement
<1>3. CASE m.kind # Update /\ m.kind # Acknowledgement
  <2>1. FrameOf(m) = EncodeControl(m) /\ SizeOf(m) = ControlSize
    BY <1>3 DEF FrameOf, SizeOf
  <2>2. QED
    BY <1>3, <2>1, ControlFrame, Kinds DEF ControlSize
<1>4. QED
  BY <1>1, <1>2, <1>3

(* Only a type that a decoder asks for is read as one.                     *)
LEMMA ReadsTheType ==
    ASSUME NEW f, NEW n, HasSize(f, n), NEW type \in MessageType, ReadCommon(f, type)
    PROVE  n >= 4 /\ f[3] = type
BY SizeIs DEF ReadCommon, HasSize

LEMMA TypesOfMessages ==
    /\ Update \in MessageType /\ Acknowledgement \in MessageType
    /\ Update # Acknowledgement
BY DEF Update, Acknowledgement, MessageType

(* What each decoder asks of a frame of n bytes.                           *)
LEMMA AsksForUpdate ==
    ASSUME NEW f, NEW n, HasSize(f, n), DecodesUpdate(f)
    PROVE  n >= 42 /\ f[3] = Update /\ Read16(f, 40) + 42 = n
<1>1. Size(f) = n
  BY SizeIs
<1>2. f[3] = Update
  BY ReadsTheType, TypesOfMessages DEF DecodesUpdate
<1>3. QED
  BY <1>1, <1>2 DEF DecodesUpdate, UpdateHeaderSize

LEMMA AsksForAcknowledgement ==
    ASSUME NEW f, NEW n, HasSize(f, n), DecodesAcknowledgement(f)
    PROVE  n = 40 /\ f[3] = Acknowledgement
<1>1. Size(f) = n
  BY SizeIs
<1>2. f[3] = Acknowledgement
  BY ReadsTheType, TypesOfMessages DEF DecodesAcknowledgement
<1>3. QED
  BY <1>1, <1>2 DEF DecodesAcknowledgement, AcknowledgementSize

LEMMA AsksForControl ==
    ASSUME NEW f, NEW n, HasSize(f, n), NEW r \in AsControl(f)
    PROVE  /\ r = [kind |-> r.kind, device |-> Read(f, 4, 16), typeId |-> Read(f, 20, 8)]
           /\ r.kind \in MessageType /\ IsControlMessageType(r.kind)
           /\ ReadCommon(f, r.kind)
           /\ n = 28 /\ f[3] = r.kind
<1>1. PICK type \in MessageType :
         /\ ReadCommon(f, type) /\ Size(f) = ControlSize /\ IsControlMessageType(type)
         /\ r = [kind |-> type, device |-> Read(f, 4, 16), typeId |-> Read(f, 20, 8)]
  BY DEF AsControl
<1>2. r.kind = type
  BY <1>1
<1>3. Size(f) = n
  BY SizeIs
<1>4. f[3] = type
  BY <1>1, ReadsTheType
<1>5. QED
  BY <1>1, <1>2, <1>3, <1>4 DEF ControlSize

(* Whatever has another number of bytes is nothing to any decoder.         *)
LEMMA PartialIsNothing ==
    ASSUME NEW m \in Message, Encodable(m), NEW f, Partial(f, FrameOf(m), SizeOf(m))
    PROVE  Decode(f) = {}
<1>1. PICK n \in Nat : n = SizeOf(m)
  BY Frames
<1>2. PICK g : g = FrameOf(m)
  OBVIOUS
<1>3. PICK k \in Nat : k # n /\ HasSize(f, k) /\ \A i \in 0 .. k - 1 : i < n => f[i] = g[i]
  BY <1>1, <1>2, Zenon DEF Partial
<1>4. /\ n >= 28
      /\ m.kind = Update => n = 42 + ValueSize[m.typeId] /\ n > 42
      /\ m.kind = Acknowledgement => n = 40
      /\ IsControlMessageType(m.kind) => n = 28
  BY <1>1, Frames, Kinds
<1>5. g[3] = m.kind
  BY <1>2, Frames DEF HoldsCommon, HoldsByte
<1>6. k >= 4 => f[3] = m.kind
  BY <1>3, <1>4, <1>5
<1>7. ~ DecodesUpdate(f)
  <2> SUFFICES ASSUME DecodesUpdate(f) PROVE FALSE
    OBVIOUS
  <2>1. k >= 42 /\ f[3] = Update /\ Read16(f, 40) + 42 = k
    BY <1>3, AsksForUpdate
  <2>2. m.kind = Update
    BY <2>1, <1>6
  <2>3. PICK v \in Nat \ {0} : v = ValueSize[m.typeId] /\ v < ByteModulus * ByteModulus
    BY <2>2, Kinds, Fields DEF Encodable
  <2>4. g = EncodeUpdate(m)
    BY <1>2, <2>2, Zenon DEF FrameOf
  <2>5. Read16(g, 40) = v
    BY <2>3, <2>4, UpdateFrame, SizeIsRead
  <2>6. Read16(f, 40) = v
    <3>1. k > 41 /\ n > 41
      BY <2>1, <1>4, <2>2, <1>3
    <3>2. f[40] = g[40] /\ f[41] = g[41]
      BY <3>1, <1>3
    <3>3. QED
      BY <2>5, <3>2 DEF Read16
  <2>7. QED
    BY <2>1, <2>2, <2>3, <2>6, <1>3, <1>4
<1>8. ~ DecodesAcknowledgement(f)
  <2> SUFFICES ASSUME DecodesAcknowledgement(f) PROVE FALSE
    OBVIOUS
  <2>1. k = 40 /\ f[3] = Acknowledgement
    BY <1>3, AsksForAcknowledgement
  <2>2. QED
    BY <2>1, <1>3, <1>4, <1>6
<1>9. AsControl(f) = {}
  <2> SUFFICES ASSUME NEW r \in AsControl(f) PROVE FALSE
    OBVIOUS
  <2>1. k = 28 /\ f[3] = r.kind /\ IsControlMessageType(r.kind)
    BY <1>3, AsksForControl
  <2>2. r.kind = m.kind
    BY <2>1, <1>6
  <2>3. QED
    BY <2>1, <2>2, <1>3, <1>4
<1>10. AsUpdate(f) = {} /\ AsAcknowledgement(f) = {}
  BY <1>7, <1>8 DEF AsUpdate, AsAcknowledgement, DecodesValue
<1>11. QED
  BY <1>9, <1>10 DEF Decode

(* A frame of the right size is taken for nothing of another size.         *)
LEMMA WholeKeepsTheSize ==
    ASSUME NEW m \in Message, NEW f, HasSize(f, SizeOf(m))
    PROVE  /\ DecodesUpdate(f) => m.kind = Update
           /\ DecodesAcknowledgement(f) => m.kind = Acknowledgement
           /\ AsControl(f) # {} => m \in ControlMessage
<1>1. PICK n \in Nat : n = SizeOf(m)
  BY Frames
<1>2. /\ m.kind = Update => n > 42
      /\ m.kind = Acknowledgement => n = 40
      /\ m \in ControlMessage => n = 28
      /\ m.kind = Update \/ m.kind = Acknowledgement \/ m \in ControlMessage
  BY <1>1, Frames, Kinds
<1>3. DecodesUpdate(f) => m.kind = Update
  BY <1>1, <1>2, AsksForUpdate
<1>4. DecodesAcknowledgement(f) => m.kind = Acknowledgement
  BY <1>1, <1>2, AsksForAcknowledgement
<1>5. AsControl(f) # {} => m \in ControlMessage
  <2>1. ASSUME NEW r \in AsControl(f) PROVE n = 28
    BY <1>1, AsksForControl
  <2>2. QED
    BY <1>2, <2>1
<1>6. QED
  BY <1>3, <1>4, <1>5

(***************************************************************************)
(* The invariant: the frame is that of the message, the message could be   *)
(* encoded, and what arrived is all of the frame or some of it.            *)
(***************************************************************************)
ProtocolInv ==
    /\ sent = NoMessage => frame = {} /\ received = {}
    /\ sent # NoMessage => sent \in Message
    /\ frame \subseteq {FrameOf(sent)}
    /\ frame # {} => Encodable(sent) /\ SizeOf(sent) <= capacity
    /\ received # {} => frame # {}
    /\ \A f \in received : \/ Whole(f, FrameOf(sent), SizeOf(sent))
                           \/ Partial(f, FrameOf(sent), SizeOf(sent))

LEMMA SendKeepsProtocolInv ==
    ASSUME ProtocolInv, NEW m \in Message, NEW c, NEW encodes, NEW f,
           Encode(m, c, encodes, f),
           encodes => f = FrameOf(m) /\ Encodable(m) /\ SizeOf(m) <= c
    PROVE  ProtocolInv'
<1>1. received' = {}
  BY DEF Encode, ProtocolInv
<1>2. m # NoMessage
  <2>1. m.kind # 0
    BY Kinds DEF MessageType
  <2>2. QED
    BY <2>1 DEF NoMessage
<1>3. sent' = m /\ capacity' = c /\ frame' = IF encodes THEN {f} ELSE {}
  BY DEF Encode
<1>4. QED
  BY <1>1, <1>2, <1>3 DEF ProtocolInv

LEMMA ArrivalKeepsProtocolInv ==
    ASSUME ProtocolInv, NEW f \in frame, NEW g, Arrives(g),
           Whole(g, f, SizeOf(sent)) \/ Partial(g, f, SizeOf(sent))
    PROVE  ProtocolInv'
<1>1. f = FrameOf(sent)
  BY DEF ProtocolInv
<1>2. received' = {g} /\ UNCHANGED <<sent, capacity, frame>>
  BY DEF Arrives
<1>3. sent # NoMessage
  BY DEF ProtocolInv
<1>4. QED
  BY <1>1, <1>2, <1>3 DEF ProtocolInv

(* What the capacity of the buffer is compared with is the frame's size.   *)
LEMMA UpdateIsChecked ==
    ASSUME NEW m \in UpdateMessage, NEW c \in Nat, EncodesUpdate(m, c)
    PROVE  FrameOf(m) = EncodeUpdate(m) /\ Encodable(m) /\ SizeOf(m) <= c
<1>1. m.kind = Update
  BY Fields
<1>2. PICK n \in Nat : n = ValueSize[m.typeId]
  BY Fields
<1>3. c - 42 >= n
  BY <1>2 DEF EncodesUpdate, CodecEncodes, UpdateHeaderSize
<1>4. SizeOf(m) = UpdateHeaderSize + ValueSize[m.typeId]
  BY <1>1, Zenon DEF SizeOf
<1>5. SizeOf(m) <= c
  BY <1>2, <1>3, <1>4 DEF UpdateHeaderSize
<1>6. Encodable(m)
  BY DEF Encodable, EncodesUpdate
<1>7. FrameOf(m) = EncodeUpdate(m)
  BY <1>1, Zenon DEF FrameOf
<1>8. QED
  BY <1>5, <1>6, <1>7

LEMMA AcknowledgementIsChecked ==
    ASSUME NEW m \in AcknowledgementMessage, NEW c \in Nat, EncodesAcknowledgement(c)
    PROVE  FrameOf(m) = EncodeAcknowledgement(m) /\ Encodable(m) /\ SizeOf(m) <= c
<1>1. m.kind = Acknowledgement /\ m.kind # Update
  BY TypesOfMessages DEF AcknowledgementMessage
<1>2. QED
  BY <1>1 DEF FrameOf, SizeOf, Encodable, EncodesAcknowledgement

LEMMA ControlIsChecked ==
    ASSUME NEW m \in ControlMessage, NEW c \in Nat, EncodesControl(m, c)
    PROVE  FrameOf(m) = EncodeControl(m) /\ Encodable(m) /\ SizeOf(m) <= c
<1>1. m.kind # Acknowledgement /\ m.kind # Update
  BY DEF ControlMessage, IsControlMessageType
<1>2. QED
  BY <1>1 DEF FrameOf, SizeOf, Encodable, EncodesControl

LEMMA CarriedFrames ==
    ASSUME ProtocolInv, NEW f \in frame
    PROVE  /\ sent \in Message /\ f = FrameOf(sent)
           /\ HasSize(f, SizeOf(sent)) /\ SizeOf(sent) \in Nat /\ SizeOf(sent) >= 28
<1>1. sent \in Message /\ f = FrameOf(sent)
  BY DEF ProtocolInv
<1>2. QED
  BY <1>1, Frames, Kinds

LEMMA DamageIsWhole ==
    ASSUME NEW f, NEW n \in Nat, HasSize(f, n), NEW i \in 0 .. n - 1, NEW x
    PROVE  Whole([f EXCEPT ![i] = x], f, n)
<1> DEFINE g == [f EXCEPT ![i] = x]
<1>1. DOMAIN g = 0 .. n - 1 /\ \A j \in 0 .. n - 1 : j # i => g[j] = f[j]
  BY DEF HasSize
<1>2. HasSize(g, n)
  BY <1>1 DEF HasSize
<1>3. QED
  BY <1>1, <1>2, Zenon DEF Whole

LEMMA ProtocolInvIsInductive ==
    ASSUME ProtocolInv, [Next]_vars
    PROVE  ProtocolInv'
<1>1. ASSUME NEW c \in Capacity, NEW m \in UpdateMessage, SendUpdate(m, c)
      PROVE  ProtocolInv'
  <2>1. m \in Message /\ c \in Nat
    BY ProtocolAssumption DEF Message
  <2>2. QED
    BY <1>1, <2>1, UpdateIsChecked, SendKeepsProtocolInv, Zenon DEF SendUpdate
<1>2. ASSUME NEW c \in Capacity, NEW m \in AcknowledgementMessage, SendAcknowledgement(m, c)
      PROVE  ProtocolInv'
  <2>1. m \in Message /\ c \in Nat
    BY ProtocolAssumption DEF Message
  <2>2. QED
    BY <1>2, <2>1, AcknowledgementIsChecked, SendKeepsProtocolInv, Zenon
       DEF SendAcknowledgement
<1>3. ASSUME NEW c \in Capacity, NEW m \in ControlMessage, SendControl(m, c)
      PROVE  ProtocolInv'
  <2>1. m \in Message /\ c \in Nat
    BY ProtocolAssumption DEF Message
  <2>2. QED
    BY <1>3, <2>1, ControlIsChecked, SendKeepsProtocolInv, Zenon DEF SendControl
<1>4. CASE Carry
  <2>1. PICK f \in frame : Arrives(f)
    BY <1>4 DEF Carry
  <2>2. HasSize(f, SizeOf(sent)) /\ SizeOf(sent) \in Nat /\ SizeOf(sent) >= 28
    BY CarriedFrames
  <2>3. 0 \in 0 .. SizeOf(sent) - 1
    BY <2>2
  <2>4. Whole(f, f, SizeOf(sent))
    BY <2>2, <2>3, Zenon DEF Whole
  <2>5. QED
    BY <2>1, <2>4, ArrivalKeepsProtocolInv, Zenon
<1>5. CASE Cut
  <2>1. PICK f \in frame : \E k \in DOMAIN f : Arrives([i \in 0 .. k - 1 |-> f[i]])
    BY <1>5 DEF Cut
  <2>2. PICK k \in DOMAIN f : Arrives([i \in 0 .. k - 1 |-> f[i]])
    BY <2>1
  <2>3. PICK n \in Nat : n = SizeOf(sent) /\ HasSize(f, n)
    BY CarriedFrames
  <2>4. k \in Nat /\ k < n
    BY <2>3 DEF HasSize
  <2>5. PICK g : g = [i \in 0 .. k - 1 |-> f[i]]
    OBVIOUS
  <2>6. k # n /\ HasSize(g, k) /\ \A i \in 0 .. k - 1 : i < n => g[i] = f[i]
    BY <2>4, <2>5 DEF HasSize
  <2>7. Partial(g, f, SizeOf(sent))
    BY <2>3, <2>4, <2>6, Zenon DEF Partial
  <2>8. QED
    BY <2>2, <2>5, <2>7, ArrivalKeepsProtocolInv, Zenon
<1>6. CASE Extend
  <2>1. PICK f \in frame, k \in 1 .. 2, x \in Byte :
           Arrives(f ++ [i \in Size(f) .. Size(f) + k - 1 |-> x])
    BY <1>6 DEF Extend
  <2>2. PICK n \in Nat : n = SizeOf(sent) /\ HasSize(f, n)
    BY CarriedFrames
  <2>3. Size(f) = n
    BY <2>2, SizeIs
  <2>4. PICK more : more = [i \in n .. n + k - 1 |-> x]
    OBVIOUS
  <2>5. PICK g : g = f ++ more
    OBVIOUS
  <2>6. DOMAIN g = 0 .. (n + k) - 1
    <3>1. DOMAIN more = n .. n + k - 1
      BY <2>4
    <3>2. DOMAIN g = DOMAIN f \cup DOMAIN more
      BY <2>5, Overlaid
    <3>3. QED
      BY <2>2, <3>1, <3>2 DEF HasSize
  <2>7. \A i \in 0 .. (n + k) - 1 : i < n => g[i] = f[i]
    <3>1. \A i \in DOMAIN f : g[i] = f[i]
      BY <2>5, Overlaid, Zenon
    <3>2. DOMAIN f = 0 .. n - 1
      BY <2>2 DEF HasSize
    <3>3. \A i \in 0 .. (n + k) - 1 : i < n => i \in 0 .. n - 1
      BY <2>2
    <3>4. QED
      BY <3>1, <3>2, <3>3, Zenon
  <2>8. Partial(g, f, SizeOf(sent))
    <3>1. n + k \in Nat /\ n + k # n /\ HasSize(g, n + k)
      BY <2>6 DEF HasSize
    <3>2. QED
      BY <2>2, <2>7, <3>1, Zenon DEF Partial
  <2>9. QED
    BY <2>1, <2>3, <2>4, <2>5, <2>8, ArrivalKeepsProtocolInv, Zenon
<1>7. CASE DamageByte
  <2>1. PICK f \in frame : \E i \in DOMAIN f, x \in Byte : Arrives([f EXCEPT ![i] = x])
    BY <1>7 DEF DamageByte
  <2>2. PICK i \in DOMAIN f, x \in Byte : Arrives([f EXCEPT ![i] = x])
    BY <2>1
  <2>3. HasSize(f, SizeOf(sent)) /\ SizeOf(sent) \in Nat
    BY CarriedFrames
  <2>4. i \in 0 .. SizeOf(sent) - 1
    BY <2>3 DEF HasSize
  <2>5. Whole([f EXCEPT ![i] = x], f, SizeOf(sent))
    BY <2>3, <2>4, DamageIsWhole, Zenon
  <2>6. QED
    BY <2>2, <2>5, ArrivalKeepsProtocolInv, Zenon
<1>8. CASE Discard
  BY <1>8 DEF Discard, ProtocolInv
<1>9. CASE UNCHANGED vars
  BY <1>9 DEF ProtocolInv, vars
<1>10. QED
  BY <1>1, <1>2, <1>3, <1>4, <1>5, <1>6, <1>7, <1>8, <1>9 DEF Next

LEMMA ProtocolInvHolds == Spec => []ProtocolInv
<1>1. Init => ProtocolInv
  BY DEF Init, ProtocolInv
<1>2. ProtocolInv /\ [Next]_vars => ProtocolInv'
  BY ProtocolInvIsInductive
<1>3. QED
  BY <1>1, <1>2, PTL DEF Spec

(***************************************************************************)
(* The theorems.                                                           *)
(***************************************************************************)

(* A frame is no larger than the buffer EncodeUpdate(),                    *)
(* EncodeAcknowledgement() or the control encoders got, it has no gaps, and *)
(* its two bytes of size are the size of the payload.                      *)
THEOREM FramesFit == Spec => []FitsTheBuffer
<1>1. ProtocolInv => FitsTheBuffer
  <2> SUFFICES ASSUME ProtocolInv, NEW f \in frame
               PROVE  /\ Size(f) <= capacity
                      /\ DOMAIN f = 0 .. Size(f) - 1
                      /\ sent.kind = Update => Read16(f, 40) = Size(f) - UpdateHeaderSize
    BY Zenon DEF FitsTheBuffer
  <2>1. sent \in Message /\ f = FrameOf(sent) /\ HasSize(f, SizeOf(sent))
    BY CarriedFrames
  <2>2. Encodable(sent) /\ SizeOf(sent) <= capacity
    BY DEF ProtocolInv
  <2>3. Size(f) = SizeOf(sent) /\ DOMAIN f = 0 .. SizeOf(sent) - 1
    BY <2>1, SizeIs DEF HasSize
  <2>4. ASSUME sent.kind = Update PROVE Read16(f, 40) = Size(f) - UpdateHeaderSize
    <3>1. PICK v \in Nat \ {0} :
             v = ValueSize[sent.typeId] /\ v < ByteModulus * ByteModulus
      BY <2>1, <2>2, <2>4, Kinds, Fields DEF Encodable
    <3>2. f = EncodeUpdate(sent)
      BY <2>1, <2>4, Zenon DEF FrameOf
    <3>3. Read16(f, 40) = v
      BY <3>1, <3>2, UpdateFrame, SizeIsRead
    <3>4. SizeOf(sent) = 42 + v
      BY <2>1, <2>4, <3>1, Frames
    <3>5. QED
      BY <2>3, <3>3, <3>4 DEF UpdateHeaderSize
  <2>5. QED
    BY <2>2, <2>3, <2>4, Zenon
<1>2. QED
  BY <1>1, ProtocolInvHolds, PTL

(* A frame that lost bytes or got more of them is read as nothing by any   *)
(* decoder: all three compare the size with the whole frame's.             *)
THEOREM PartsAreRefused == Spec => []OnlyWholeFrames
<1>1. ProtocolInv => OnlyWholeFrames
  <2> SUFFICES ASSUME ProtocolInv, NEW f \in received, NEW g \in frame, Size(f) # Size(g)
               PROVE  Decode(f) = {}
    BY Zenon DEF OnlyWholeFrames
  <2>1. sent \in Message /\ g = FrameOf(sent) /\ HasSize(g, SizeOf(sent))
    BY CarriedFrames
  <2>2. Encodable(sent)
    BY DEF ProtocolInv
  <2>3. ~ Whole(f, FrameOf(sent), SizeOf(sent))
    BY <2>1, SizeIs DEF Whole
  <2>4. Partial(f, FrameOf(sent), SizeOf(sent))
    BY <2>3 DEF ProtocolInv
  <2>5. QED
    BY <2>1, <2>2, <2>4, PartialIsNothing
<1>2. QED
  BY <1>1, ProtocolInvHolds, PTL

(* What arrived is read as something only if it is the whole frame, one    *)
(* byte apart.                                                             *)
LEMMA ReadIsWhole ==
    ASSUME ProtocolInv, NEW f \in received, Decode(f) # {}
    PROVE  sent \in Message /\ Whole(f, FrameOf(sent), SizeOf(sent))
<1>1. sent \in Message /\ Encodable(sent)
  BY DEF ProtocolInv
<1>2. QED
  BY <1>1, PartialIsNothing DEF ProtocolInv

(* A damaged type never makes an update or an acknowledgement of anything  *)
(* else: no other kind has the size.                                       *)
THEOREM KindsAreNotConfused == Spec => []KindsStayApart
<1>1. ProtocolInv => KindsStayApart
  <2> SUFFICES ASSUME ProtocolInv, NEW f \in received, NEW r \in Decode(f)
               PROVE  r.kind = sent.kind \/ {r, sent} \subseteq ControlMessage
    BY Zenon DEF KindsStayApart
  <2>1. sent \in Message /\ Whole(f, FrameOf(sent), SizeOf(sent))
    BY ReadIsWhole
  <2>2. HasSize(f, SizeOf(sent))
    BY <2>1, Zenon DEF Whole
  <2>3. CASE r \in AsUpdate(f)
    <3>1. DecodesUpdate(f) /\ r.kind = Update
      BY <2>3 DEF AsUpdate, DecodesValue
    <3>2. QED
      BY <2>1, <2>2, <3>1, WholeKeepsTheSize
  <2>4. CASE r \in AsAcknowledgement(f)
    <3>1. DecodesAcknowledgement(f) /\ r.kind = Acknowledgement
      BY <2>4 DEF AsAcknowledgement
    <3>2. QED
      BY <2>1, <2>2, <3>1, WholeKeepsTheSize
  <2>5. CASE r \in AsControl(f)
    <3>1. sent \in ControlMessage
      BY <2>1, <2>2, <2>5, WholeKeepsTheSize
    <3>2. PICK n \in Nat : n = SizeOf(sent)
      BY <2>1, Frames
    <3>3. /\ r = [kind |-> r.kind, device |-> Read(f, 4, 16), typeId |-> Read(f, 20, 8)]
          /\ r.kind \in MessageType /\ IsControlMessageType(r.kind)
          /\ n = 28 /\ f[3] = r.kind
      BY <2>2, <2>5, <3>2, AsksForControl
    <3>4. PICK g : g = FrameOf(sent)
      OBVIOUS
    <3>5. /\ DOMAIN g = 0 .. 27 /\ g[3] = sent.kind
          /\ Holds(g, 4, 16, sent.device) /\ Holds(g, 20, 8, sent.typeId)
      <4>1. g = EncodeControl(sent)
        BY <3>1, <3>4, TypesOfMessages DEF FrameOf, ControlMessage, IsControlMessageType
      <4>2. QED
        BY <4>1, ControlFrame DEF HasSize, ControlSize, HoldsCommon, HoldsByte
    <3>6. PICK at \in 0 .. 27 : \A i \in 0 .. 27 : i # at => f[i] = g[i]
      <4>1. n - 1 = 27
        BY <3>3
      <4>2. PICK at \in 0 .. n - 1 : \A i \in 0 .. n - 1 : i # at => f[i] = g[i]
        BY <2>1, <3>2, <3>4, Zenon DEF Whole
      <4>3. QED
        BY <4>1, <4>2
    <3>7. CASE at # 3
      BY <3>3, <3>5, <3>6, <3>7
    <3>8. CASE at = 3
      <4>1. \A i \in 4 .. 27 : i \in DOMAIN f /\ i \in DOMAIN g /\ f[i] = g[i]
        BY <2>2, <3>2, <3>3, <3>5, <3>6, <3>8 DEF HasSize
      <4>2. Holds(f, 4, 16, sent.device) /\ Holds(f, 20, 8, sent.typeId)
        BY <3>5, <4>1 DEF Holds
      <4>3. sent.device \in Device /\ sent.typeId \in TypeId
        BY <3>1 DEF ControlMessage
      <4>4. Read(f, 4, 16) = sent.device /\ Read(f, 20, 8) = sent.typeId
        <5>1. sent.device \in Bytes(16) /\ sent.typeId \in Bytes(8)
          BY <4>3, ProtocolAssumption
        <5>2. QED
          BY <4>2, <5>1, ReadsWhatItHolds
      <4>5. r \in ControlMessage
        BY <3>3, <4>3, <4>4 DEF ControlMessage
      <4>6. QED
        BY <3>1, <4>5
    <3>9. QED
      BY <3>7, <3>8
  <2>6. QED
    BY <2>3, <2>4, <2>5 DEF Decode
<1>2. QED
  BY <1>1, ProtocolInvHolds, PTL

(* DecodeValue() of a definition takes what was sent for another one only  *)
(* if values of both have one size and their identifiers differ in just    *)
(* one byte, the damaged one; the value is then the one that was sent.     *)
THEOREM OnlyANeighbourIsReached == Spec => []OnlyNeighboursAreConfused
<1>1. ProtocolInv => OnlyNeighboursAreConfused
  <2> SUFFICES ASSUME ProtocolInv, NEW f \in received, NEW d \in TypeId, DecodesValue(f, d)
               PROVE  /\ sent.kind = Update
                      /\ ValueSize[d] = ValueSize[sent.typeId]
                      /\ d # sent.typeId => /\ OneByteApart(d, sent.typeId)
                                            /\ DecodeValue(f, d) = sent.value
    BY Zenon DEF OnlyNeighboursAreConfused
  <2>1. DecodesUpdate(f) /\ Read(f, 20, 8) = d /\ Read16(f, 40) = ValueSize[d]
    BY DEF DecodesValue, ReadStateHeader, CodecDecodes
  <2>2. sent \in Message /\ Whole(f, FrameOf(sent), SizeOf(sent)) /\ Encodable(sent)
    <3>1. CASE Decode(f) # {}
      BY <3>1, ReadIsWhole DEF ProtocolInv
    <3>2. AsUpdate(f) # {}
      BY DEF AsUpdate
    <3>3. QED
      BY <3>1, <3>2 DEF Decode
  <2>3. PICK n \in Nat : n = SizeOf(sent)
    BY <2>2, Frames
  <2>4. HasSize(f, n) /\ sent.kind = Update
    BY <2>1, <2>2, <2>3, WholeKeepsTheSize DEF Whole
  <2>5. /\ sent \in UpdateMessage /\ sent.typeId \in Bytes(8)
        /\ sent.value \in Bytes(ValueSize[sent.typeId])
    BY <2>2, <2>4, Kinds, Fields
  <2>6. PICK v \in Nat \ {0} : v = ValueSize[sent.typeId] /\ n = 42 + v
    BY <2>2, <2>3, <2>4, <2>5, Fields, Frames
  <2>7. ValueSize[d] = v
    <3>1. Read16(f, 40) + 42 = n
      BY <2>1, <2>4, AsksForUpdate
    <3>2. ValueSize[d] \in Nat
      BY ProtocolAssumption
    <3>3. QED
      BY <2>1, <2>6, <3>1, <3>2
  <2>8. PICK g : g = FrameOf(sent)
    OBVIOUS
  <2>9. Holds(g, 20, 8, sent.typeId) /\ Holds(g, 42, v, sent.value)
    <3>1. g = EncodeUpdate(sent)
      BY <2>4, <2>8, Zenon DEF FrameOf
    <3>2. QED
      BY <2>6, <3>1, UpdateFrame DEF HoldsHeader, UpdateHeaderSize
  <2>10. PICK at \in 0 .. n - 1 : \A i \in 0 .. n - 1 : i # at => f[i] = g[i]
    BY <2>2, <2>3, <2>8, Zenon DEF Whole
  <2>11. /\ d \in Bytes(8)
         /\ \A k \in 0 .. 7 : d[k] = f[20 + k] /\ g[20 + k] = sent.typeId[k]
    <3>1. d \in Bytes(8)
      BY ProtocolAssumption
    <3>2. \A k \in 0 .. 7 : d[k] = f[20 + k]
      BY <2>1 DEF Read
    <3>3. \A k \in 0 .. 7 : g[20 + k] = sent.typeId[k]
      BY <2>9 DEF Holds
    <3>4. QED
      BY <3>1, <3>2, <3>3
  <2>12. ASSUME d # sent.typeId
         PROVE  OneByteApart(d, sent.typeId) /\ DecodeValue(f, d) = sent.value
    <3>1. PICK k \in 0 .. 7 : d[k] # sent.typeId[k]
      BY <2>5, <2>11, <2>12 DEF Bytes
    <3>2. at = 20 + k
      BY <2>6, <2>10, <2>11, <3>1
    <3>3. \A j \in 0 .. 7 : j # k => d[j] = sent.typeId[j]
      BY <2>6, <2>10, <2>11, <3>2
    <3>4. OneByteApart(d, sent.typeId)
      BY <2>11, <3>1, <3>3 DEF OneByteApart, Bytes
    <3>5. Holds(f, 42, v, sent.value)
      <4> SUFFICES ASSUME NEW j \in 0 .. v - 1
                   PROVE  42 + j \in DOMAIN f /\ f[42 + j] = sent.value[j]
        BY Zenon DEF Holds
      <4>1. 42 + j \in 0 .. n - 1 /\ 42 + j # at
        BY <2>6, <3>2
      <4>2. 42 + j \in DOMAIN f /\ f[42 + j] = g[42 + j]
        BY <2>4, <2>10, <4>1, Zenon DEF HasSize
      <4>3. g[42 + j] = sent.value[j]
        BY <2>9, Zenon DEF Holds
      <4>4. QED
        BY <4>2, <4>3, Zenon
    <3>6. Read(f, 42, v) = sent.value
      BY <2>5, <2>6, <3>5, ReadsWhatItHolds
    <3>7. QED
      BY <2>7, <3>4, <3>6 DEF DecodeValue, UpdateHeaderSize
  <2>13. QED
    BY <2>4, <2>6, <2>7, <2>12
<1>2. QED
  BY <1>1, ProtocolInvHolds, PTL

(* Where identifiers of definitions with values of one size differ in two  *)
(* bytes or more, DecodeValue() gives no definition what was sent for      *)
(* another one, whichever byte of the frame is damaged.                    *)
THEOREM DistantIdentifiersAreSafe ==
    ASSUME \A d, t \in TypeId : ValueSize[d] = ValueSize[t] => ~ OneByteApart(d, t)
    PROVE  Spec => [](\A f \in received, d \in TypeId :
                         DecodesValue(f, d) => d = sent.typeId)
<1>1. ASSUME ProtocolInv, OnlyNeighboursAreConfused
      PROVE  \A f \in received, d \in TypeId : DecodesValue(f, d) => d = sent.typeId
  <2> SUFFICES ASSUME NEW f \in received, NEW d \in TypeId, DecodesValue(f, d),
                      d # sent.typeId
               PROVE  FALSE
    BY Zenon
  <2>1. /\ sent.kind = Update /\ ValueSize[d] = ValueSize[sent.typeId]
        /\ OneByteApart(d, sent.typeId)
    BY <1>1, Zenon DEF OnlyNeighboursAreConfused
  <2>2. sent \in Message
    BY <1>1 DEF ProtocolInv
  <2>3. sent.typeId \in TypeId
    BY <2>1, <2>2, Kinds, Fields
  <2>4. QED
    BY <2>1, <2>3
<1>2. QED
  BY <1>1, ProtocolInvHolds, OnlyANeighbourIsReached, PTL

(* What every decoder makes of the undamaged frame of a message.           *)
LEMMA CommonIsRead ==
    ASSUME NEW f, NEW n, HasSize(f, n), n >= 4, NEW type, HoldsCommon(f, type),
           NEW asked
    PROVE  ReadCommon(f, asked) <=> type = asked
<1>1. Size(f) >= 4
  BY SizeIs
<1>2. Read(f, 0, 2) = Magic
  <2>1. Magic \in Bytes(2)
    BY WordsAreBytes DEF Magic
  <2>2. QED
    BY <2>1, ReadsWhatItHolds DEF HoldsCommon
<1>3. QED
  BY <1>1, <1>2 DEF ReadCommon, HoldsCommon, HoldsByte

LEMMA HeaderIsRead ==
    ASSUME NEW f, NEW m, HoldsHeader(f, m), m.origin \in Bytes(16), m.typeId \in Bytes(8),
           m.epoch \in Bytes(4), m.revision \in Bytes(8)
    PROVE  ReadStateHeader(f) = [origin |-> m.origin, typeId |-> m.typeId,
                                 epoch |-> m.epoch, revision |-> m.revision]
BY ReadsWhatItHolds DEF HoldsHeader, ReadStateHeader

LEMMA UpdateIsRead ==
    ASSUME NEW m \in UpdateMessage, Encodable(m), NEW f, f = FrameOf(m)
    PROVE  Decode(f) = IF IsValid(m) THEN {m} ELSE {}
<1>1. m \in Message /\ m.kind = Update
  BY Fields DEF Message
<1>2. PICK v \in Nat \ {0} : v = ValueSize[m.typeId] /\ v < ByteModulus * ByteModulus
  BY <1>1, Fields DEF Encodable
<1>3. f = EncodeUpdate(m)
  BY <1>1, Zenon DEF FrameOf
<1>4. /\ HasSize(f, 42 + v) /\ HoldsCommon(f, Update) /\ HoldsHeader(f, m)
      /\ Holds(f, 40, 2, Word(v)) /\ Holds(f, UpdateHeaderSize, v, m.value)
  BY <1>2, <1>3, UpdateFrame DEF UpdateHeaderSize
<1>5. Size(f) = 42 + v
  BY <1>4, SizeIs
<1>6. \A asked : ReadCommon(f, asked) <=> Update = asked
  BY <1>2, <1>4, CommonIsRead
<1>7. PICK h : /\ h = ReadStateHeader(f)
               /\ h.origin = m.origin /\ h.typeId = m.typeId
               /\ h.epoch = m.epoch /\ h.revision = m.revision
  BY <1>4, Fields, HeaderIsRead
<1>8. Read16(f, 40) = v /\ Read(f, UpdateHeaderSize, v) = m.value
  <2>1. m.value \in Bytes(v)
    BY <1>2, Fields
  <2>2. QED
    BY <1>2, <1>4, <2>1, SizeIsRead, ReadsWhatItHolds DEF UpdateHeaderSize
<1>9. IsValid(h) <=> IsValid(m)
  BY <1>7 DEF IsValid
<1>10. DecodesUpdate(f) <=> IsValid(m)
  BY <1>2, <1>5, <1>6, <1>7, <1>8, <1>9 DEF DecodesUpdate, UpdateHeaderSize
<1>11. AsAcknowledgement(f) = {} /\ AsControl(f) = {}
  BY <1>6, TypesOfMessages
     DEF AsAcknowledgement, DecodesAcknowledgement, AsControl, IsControlMessageType
<1>12. \A d \in TypeId : DecodesValue(f, d) <=> IsValid(m) /\ d = m.typeId
  BY <1>2, <1>7, <1>8, <1>10 DEF DecodesValue, CodecDecodes
<1>13. m = [kind |-> Update, origin |-> m.origin, typeId |-> m.typeId,
            epoch |-> m.epoch, revision |-> m.revision, value |-> m.value]
       /\ m.typeId \in TypeId
  BY Fields
<1>14. DecodeValue(f, m.typeId) = m.value
  BY <1>2, <1>8 DEF DecodeValue
<1>15. AsUpdate(f) = {[kind |-> Update, origin |-> h.origin, typeId |-> h.typeId,
                       epoch |-> h.epoch, revision |-> h.revision,
                       value |-> DecodeValue(f, d)] :
                          d \in {t \in TypeId : DecodesValue(f, t)}}
  BY <1>7 DEF AsUpdate
<1>16. {t \in TypeId : DecodesValue(f, t)} = IF IsValid(m) THEN {m.typeId} ELSE {}
  BY <1>12, <1>13
<1>17. AsUpdate(f) = IF IsValid(m) THEN {m} ELSE {}
  BY <1>7, <1>13, <1>14, <1>15, <1>16
<1>18. QED
  BY <1>11, <1>17 DEF Decode

LEMMA AcknowledgementIsRead ==
    ASSUME NEW m \in AcknowledgementMessage, NEW f, f = FrameOf(m)
    PROVE  Decode(f) = IF IsValid(m) THEN {m} ELSE {}
<1>1. m.kind = Acknowledgement /\ m.kind # Update
  BY TypesOfMessages DEF AcknowledgementMessage
<1>2. f = EncodeAcknowledgement(m)
  BY <1>1 DEF FrameOf
<1>3. HasSize(f, 40) /\ HoldsCommon(f, Acknowledgement) /\ HoldsHeader(f, m)
  BY <1>2, AcknowledgementFrame DEF AcknowledgementSize
<1>4. Size(f) = 40
  BY <1>3, SizeIs
<1>5. \A asked : ReadCommon(f, asked) <=> Acknowledgement = asked
  BY <1>3, CommonIsRead
<1>6. PICK h : /\ h = ReadStateHeader(f)
               /\ h.origin = m.origin /\ h.typeId = m.typeId
               /\ h.epoch = m.epoch /\ h.revision = m.revision
  BY <1>3, AcknowledgementFields, HeaderIsRead
<1>7. DecodesAcknowledgement(f) <=> IsValid(m)
  BY <1>4, <1>5, <1>6 DEF DecodesAcknowledgement, AcknowledgementSize, IsValid
<1>8. AsUpdate(f) = {} /\ AsControl(f) = {}
  BY <1>5, TypesOfMessages
     DEF AsUpdate, DecodesValue, DecodesUpdate, AsControl, IsControlMessageType
<1>9. m = [kind |-> Acknowledgement, origin |-> m.origin, typeId |-> m.typeId,
           epoch |-> m.epoch, revision |-> m.revision]
  BY DEF AcknowledgementMessage
<1>10. AsAcknowledgement(f) = IF IsValid(m) THEN {m} ELSE {}
  BY <1>6, <1>7, <1>9 DEF AsAcknowledgement
<1>11. QED
  BY <1>8, <1>10 DEF Decode

LEMMA ControlIsRead ==
    ASSUME NEW m \in ControlMessage, NEW f, f = FrameOf(m)
    PROVE  Decode(f) = {m}
<1>1. /\ m.kind \in MessageType /\ IsControlMessageType(m.kind)
      /\ m.kind # Update /\ m.kind # Acknowledgement
      /\ m = [kind |-> m.kind, device |-> m.device, typeId |-> m.typeId]
  BY DEF ControlMessage, IsControlMessageType
<1>2. f = EncodeControl(m)
  BY <1>1 DEF FrameOf
<1>3. /\ HasSize(f, 28) /\ HoldsCommon(f, m.kind)
      /\ Holds(f, 4, 16, m.device) /\ Holds(f, 20, 8, m.typeId)
  BY <1>2, ControlFrame DEF ControlSize
<1>4. Size(f) = 28
  BY <1>3, SizeIs
<1>5. \A asked : ReadCommon(f, asked) <=> m.kind = asked
  BY <1>3, CommonIsRead
<1>6. Read(f, 4, 16) = m.device /\ Read(f, 20, 8) = m.typeId
  <2>1. m.device \in Bytes(16) /\ m.typeId \in Bytes(8)
    BY ProtocolAssumption DEF ControlMessage
  <2>2. QED
    BY <1>3, <2>1, ReadsWhatItHolds
<1>7. AsUpdate(f) = {} /\ AsAcknowledgement(f) = {}
  BY <1>1, <1>5
     DEF AsUpdate, DecodesValue, DecodesUpdate, AsAcknowledgement, DecodesAcknowledgement
<1>8. \A k \in MessageType :
         (ReadCommon(f, k) /\ Size(f) = ControlSize /\ IsControlMessageType(k)) <=> k = m.kind
  BY <1>1, <1>4, <1>5 DEF ControlSize
<1>9. AsControl(f) = {m}
  BY <1>1, <1>6, <1>8 DEF AsControl
<1>10. QED
  BY <1>7, <1>9 DEF Decode

(* What DecodeUpdate(), DecodeAcknowledgement() and DecodeControl() make of *)
(* an undamaged frame is the message that was encoded, and nothing else;   *)
(* of one that must not be sent, nothing.                                  *)
THEOREM WhatIsSentIsRead == Spec => []RoundTrip
<1>1. ProtocolInv => RoundTrip
  <2> SUFFICES ASSUME ProtocolInv, NEW f \in received \cap frame
               PROVE  Decode(f) = IF /\ sent.kind \in {Update, Acknowledgement}
                                     /\ ~IsValid(sent)
                                  THEN {} ELSE {sent}
    BY Zenon DEF RoundTrip
  <2>1. sent \in Message /\ f = FrameOf(sent) /\ Encodable(sent)
    BY DEF ProtocolInv
  <2>2. CASE sent \in UpdateMessage
    BY <2>1, <2>2, UpdateIsRead, Fields
  <2>3. CASE sent \in AcknowledgementMessage
    BY <2>1, <2>3, AcknowledgementIsRead DEF AcknowledgementMessage
  <2>4. CASE sent \in ControlMessage
    BY <2>1, <2>4, ControlIsRead DEF ControlMessage, IsControlMessageType
  <2>5. QED
    BY <2>1, <2>2, <2>3, <2>4 DEF Message
<1>2. QED
  BY <1>1, ProtocolInvHolds, PTL
================================================================================
