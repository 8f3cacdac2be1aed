------------------------------ MODULE MatterCodec ------------------------------
(***************************************************************************)
(* The Matter message codec (main/backend/matter/codec): a message is      *)
(* encoded by PayloadCodec and PacketCodec, may be cut short or extended   *)
(* by others on its way, and is decoded by the same two classes, whose     *)
(* encoders and decoders were written apart.                               *)
(*                                                                         *)
(* A number of w bytes is the sequence of its digits, lowest first, as     *)
(* DataWriter writes and DataReader reads it (main/std/types.hpp).         *)
(***************************************************************************)
EXTENDS Naturals, Sequences

CONSTANTS
  Messages,   \* the messages an application encodes
  Extension   \* the bytes of the extensions other nodes insert

Byte == 0..255
Number(w) == [1..w -> Byte]

(* enum SessionType: Unicast, Group *)
SessionType == {0, 1}

PacketHeader ==
  [sessionId : Number(2), sessionType : SessionType, messageId : Number(4),
   hasPrivacyEnhancements : BOOLEAN, isControlMessage : BOOLEAN,
   hasMessageExtensions : BOOLEAN,
   sourceNodeId : Number(8), destNodeId : Number(8), destGroupId : Number(2)]

PayloadHeader ==
  [exchangeId : Number(2), protocolId : Number(4), messageType : Byte,
   isInitiatorMessage : BOOLEAN, requiresAck : BOOLEAN,
   ackedMessageId : Number(4), hasSecuredExtension : BOOLEAN]

Message ==
  [packetHeader : PacketHeader, payloadHeader : PayloadHeader,
   securityExtension : Seq(Byte), payload : Seq(Byte)]

(* The length of an extension is written with two bytes. *)
ASSUME MatterAssumption ==
  /\ Messages \subseteq Message
  /\ Extension \in Seq(Byte) /\ Len(Extension) < 256 * 256

VARIABLES phase, msg, wire, length, extended, decoded

vars == <<phase, msg, wire, length, extended, decoded>>
-----------------------------------------------------------------------------
(* The masks of the flags: enum PacketHeaderFlag, SecurityFlag and         *)
(* PayloadHeaderFlag                                                       *)
HasDestNodeId == 1
HasDestGroupId == 2
HasSourceNodeId == 4
Version(flags) == flags \div 16

HasPrivacyEnhancements == 128
IsControlMessage == 64
HasMessageExtension == 32

IsInitiatorMessage == 1
IsAckMessage == 2
RequiresAck == 4
HasSecureExtension == 8
HasVendorId == 16

Flag(condition, mask) == IF condition THEN mask ELSE 0
Set(flags, mask) == (flags \div mask) % 2 = 1
-----------------------------------------------------------------------------
Zero(w) == [i \in 1..w |-> 0]
IsZero(number) == number = Zero(Len(number))
Present(number) == IF IsZero(number) THEN <<>> ELSE number

(* encodePacketHeader: DataWriter puts one field after the other; the      *)
(* version is 0.                                                           *)
PacketFlags(h) ==
  Flag(~IsZero(h.destNodeId), HasDestNodeId)
    + Flag(~IsZero(h.destGroupId), HasDestGroupId)
    + Flag(~IsZero(h.sourceNodeId), HasSourceNodeId)

EncodePacketHeader(h) ==
  <<PacketFlags(h)>> \o h.sessionId \o <<h.sessionType>> \o h.messageId
    \o Present(h.sourceNodeId) \o Present(h.destNodeId)
    \o Present(h.destGroupId)

VendorId(h) == SubSeq(h.protocolId, 3, 4)

PayloadFlags(h) ==
  Flag(h.isInitiatorMessage, IsInitiatorMessage)
    + Flag(~IsZero(h.ackedMessageId), IsAckMessage)
    + Flag(h.requiresAck, RequiresAck)
    + Flag(~IsZero(VendorId(h)), HasVendorId)

(* The whole protocol id is written when its upper half is not zero.       *)
EncodePayloadHeader(h) ==
  <<PayloadFlags(h)>> \o <<h.messageType>> \o h.exchangeId
    \o (IF IsZero(VendorId(h)) THEN SubSeq(h.protocolId, 1, 2)
        ELSE h.protocolId)
    \o Present(h.ackedMessageId)

Encodable(m) ==
  /\ m.securityExtension = <<>> /\ ~m.payloadHeader.hasSecuredExtension
  /\ ~m.packetHeader.hasMessageExtensions

EncodedMessage(m) ==
  EncodePacketHeader(m.packetHeader) \o EncodePayloadHeader(m.payloadHeader)
    \o m.payload
-----------------------------------------------------------------------------
(* DataReader: what it has read last, what remains, and whether its end is *)
(* a pointer at all: that of an empty vector without storage is null.  A   *)
(* reader throws for all of the message when the bytes do not suffice, but *)
(* checks nothing when its end is null: it reads through a null pointer,   *)
(* and nothing is said of what comes after that.                           *)
DataReader(bytes, storage) ==
  [ok |-> TRUE, end |-> bytes # <<>> \/ storage, field |-> <<>>, rest |-> bytes]
Stopped(end) == [ok |-> FALSE, end |-> end, field |-> <<>>, rest |-> <<>>]
Failed == Stopped(TRUE)
NullRead == Stopped(FALSE)

(* What was thrown, or has happened, in r goes all the way up. *)
Refused(r) == Stopped(r.end)

Taken(bytes, w) ==
  [ok |-> TRUE, end |-> TRUE, field |-> SubSeq(bytes, 1, w),
   rest |-> SubSeq(bytes, w + 1, Len(bytes))]

(* Reading on past the end, where memory happens to be zero *)
ReadPastEnd(r, w) == IF r.ok THEN Taken(r.rest \o Zero(w), w) ELSE r

Read(r, w) ==
  IF ~r.ok THEN r
  ELSE IF ~r.end THEN NullRead
  ELSE IF w <= Len(r.rest) THEN Taken(r.rest, w) ELSE Failed

Width(condition, w) == IF condition THEN w ELSE 0
Or0(number, w) == IF number = <<>> THEN Zero(w) ELSE number

(* The size taken with the high byte first *)
ReadExtensionBigEndian(r, present) ==
  LET size == Read(r, Width(present, 2))
  IN  Read(size, IF present THEN 256 * size.field[1] + size.field[2] ELSE 0)

(* An extension: two bytes of length, lowest first, and as many bytes *)
ReadExtension(r, present) ==
  LET size == Read(r, Width(present, 2))
  IN  Read(size, IF present THEN size.field[1] + 256 * size.field[2] ELSE 0)

(* decodePacketHeader, the header as the field it has read *)
DecodePacketHeader(r) ==
  LET flags     == Read(r, 1)
      sessionId == Read(flags, 2)
      security  == Read(sessionId, 1)
      messageId == Read(security, 4)
      source == Read(messageId, Width(Set(flags.field[1], HasSourceNodeId), 8))
      dest   == Read(source, Width(Set(flags.field[1], HasDestNodeId), 8))
      group  == Read(dest, Width(Set(flags.field[1], HasDestGroupId), 2))
      Secured(mask) == Set(security.field[1], mask)
  IN  IF /\ group.ok
         /\ ~(/\ Set(flags.field[1], HasDestNodeId)
              /\ Set(flags.field[1], HasDestGroupId))
         /\ Version(flags.field[1]) = 0
         /\ security.field[1] % 4 \in SessionType
         /\ ~Secured(HasPrivacyEnhancements) /\ ~Secured(IsControlMessage)
      THEN [ok |-> TRUE, end |-> TRUE, rest |-> group.rest,
            field |->
              [sessionId |-> sessionId.field,
               sessionType |-> security.field[1] % 4,
               messageId |-> messageId.field,
               hasPrivacyEnhancements |-> FALSE, isControlMessage |-> FALSE,
               hasMessageExtensions |-> Secured(HasMessageExtension),
               sourceNodeId |-> Or0(source.field, 8),
               destNodeId |-> Or0(dest.field, 8),
               destGroupId |-> Or0(group.field, 2)]]
      ELSE Refused(group)

(* The acknowledged counter read whether or not the flag is set *)
AckAlways(flags) == TRUE
HasAck(flags) == Set(flags, IsAckMessage)

(* decodePayloadHeader: a vendor's id and four bytes of protocol id, or    *)
(* two bytes                                                               *)
DecodePayloadHeader(r) ==
  LET flags    == Read(r, 1)
      type     == Read(flags, 1)
      exchange == Read(type, 2)
      vendor   == Read(exchange, Width(Set(flags.field[1], HasVendorId), 2))
      protocol == Read(vendor, IF IsZero(vendor.field) THEN 2 ELSE 4)
      acked    == Read(protocol, Width(HasAck(flags.field[1]), 4))
  IN  IF acked.ok
      THEN [ok |-> TRUE, end |-> TRUE, rest |-> acked.rest,
            field |->
              [exchangeId |-> exchange.field,
               protocolId |-> SubSeq(protocol.field \o Zero(2), 1, 4),
               messageType |-> type.field[1],
               isInitiatorMessage |-> Set(flags.field[1], IsInitiatorMessage),
               requiresAck |-> Set(flags.field[1], RequiresAck),
               ackedMessageId |-> Or0(acked.field, 4),
               hasSecuredExtension |->
                 Set(flags.field[1], HasSecureExtension)]]
      ELSE Refused(acked)

(* decodePacket and, with a reader of its own over the bytes it leaves,    *)
(* decodePayload.  Those bytes are a new vector, which has no storage when *)
(* nothing is left.                                                        *)
DecodedMessage(bytes, storage) ==
  LET packet    == DecodePacketHeader(DataReader(bytes, storage))
      extension == ReadExtension(packet, packet.field.hasMessageExtensions)
      payload   == IF extension.ok THEN DataReader(extension.rest, FALSE)
                   ELSE extension
      header    == DecodePayloadHeader(payload)
      secured   == ReadExtension(header, header.field.hasSecuredExtension)
  IN  IF secured.ok
      THEN [ok |-> TRUE, end |-> TRUE, rest |-> <<>>,
            field |->
              [packetHeader |-> packet.field, payloadHeader |-> header.field,
               securityExtension |-> secured.field, payload |-> secured.rest]]
      ELSE Refused(secured)
-----------------------------------------------------------------------------
Init ==
  /\ phase = "new"
  /\ msg \in Messages
  /\ wire = <<>> /\ length = 0 /\ extended = {} /\ decoded = Failed

Encode ==
  /\ phase = "new" /\ Encodable(msg)
  /\ wire' = EncodedMessage(msg)
  /\ length' = Len(wire')
  /\ phase' = "wire"
  /\ UNCHANGED <<msg, extended, decoded>>

(* NotImplementedError *)
Refuse ==
  /\ phase = "new" /\ ~Encodable(msg)
  /\ phase' = "refused"
  /\ UNCHANGED <<msg, wire, length, extended, decoded>>

(* The same message as another implementation of the protocol sends it,    *)
(* with a message extension, a secured extension or both (external)        *)
ExtensionIf(condition) ==
  IF condition
  THEN <<Len(Extension) % 256>> \o <<Len(Extension) \div 256>> \o Extension
  ELSE <<>>

Extended(m, kinds) ==
  EncodePacketHeader(
      [m.packetHeader EXCEPT
         !.sessionType = @ + Flag("message" \in kinds, HasMessageExtension)])
    \o ExtensionIf("message" \in kinds)
    \o [EncodePayloadHeader(m.payloadHeader) EXCEPT
          ![1] = @ + Flag("secured" \in kinds, HasSecureExtension)]
    \o ExtensionIf("secured" \in kinds)
    \o m.payload

Extend ==
  /\ phase = "wire" /\ extended = {} /\ Len(wire) = length
  /\ extended' \in SUBSET {"message", "secured"} \ {{}}
  /\ wire' = Extended(msg, extended')
  /\ length' = Len(wire')
  /\ UNCHANGED <<phase, msg, decoded>>

(* The datagram arrives without its end (external). *)
Cut ==
  /\ phase = "wire" /\ Len(wire) = length
  /\ \E n \in 0..length - 1 : wire' = SubSeq(wire, 1, n)
  /\ UNCHANGED <<phase, msg, length, extended, decoded>>

(* The vector of an empty datagram may have storage or not. *)
Decode ==
  /\ phase = "wire"
  /\ \E storage \in BOOLEAN : decoded' = DecodedMessage(wire, storage)
  /\ phase' = "decoded"
  /\ UNCHANGED <<msg, wire, length, extended>>

Next == Encode \/ Refuse \/ Extend \/ Cut \/ Decode

Spec == Init /\ [][Next]_vars
-----------------------------------------------------------------------------
(* What the two sides agree on: one kind of destination, the common vendor *)
(* and no mark.  The encoder writes a vendor's protocol id as four bytes   *)
(* where the decoder expects the vendor and then the id, sets both         *)
(* destination flags, which the decoder refuses, and drops the privacy and *)
(* control marks.                                                          *)
Agreed(m) ==
  /\ IsZero(m.packetHeader.destNodeId) \/ IsZero(m.packetHeader.destGroupId)
  /\ IsZero(VendorId(m.payloadHeader))
  /\ ~m.packetHeader.hasPrivacyEnhancements /\ ~m.packetHeader.isControlMessage

Whole == phase = "decoded" /\ Len(wire) = length

(* A message comes back as it was sent exactly when it is one the two      *)
(* sides agree on: every optional field is found again by its flag, and    *)
(* nothing shifts.                                                         *)
RoundTrip ==
  Whole /\ extended = {} =>
    (decoded.ok /\ decoded.field = msg <=> Agreed(msg))

(* A message with its marks, and with the secured extension: what becomes  *)
(* of a message extension the caller of decodePacket decides.              *)
WithExtensions(m, kinds) ==
  [packetHeader |->
     [m.packetHeader EXCEPT !.hasMessageExtensions = "message" \in kinds],
   payloadHeader |->
     [m.payloadHeader EXCEPT !.hasSecuredExtension = "secured" \in kinds],
   securityExtension |->
     IF "secured" \in kinds THEN Extension ELSE m.securityExtension,
   payload |-> m.payload]

(* A node that inserts extensions this code cannot write is understood:    *)
(* both headers, the secured extension and the payload come through, with  *)
(* the marks.                                                              *)
ExtensionSkipped ==
  Whole /\ extended # {} /\ Agreed(msg) =>
    decoded.ok /\ decoded.field = WithExtensions(msg, extended)

(* What decodePacket takes of a message                                    *)
PacketLength(m, kinds) ==
  Len(EncodePacketHeader(m.packetHeader))
    + Len(ExtensionIf("message" \in kinds))

Beginning(m, kinds, n) ==
  [WithExtensions(m, kinds) EXCEPT !.payload = SubSeq(@, 1, n)]

(* Of a message cut short the decoder makes nothing but an error or the    *)
(* same headers with the beginning of the payload, and never takes one     *)
(* field for another.  It reads past the end only where a decoder is left  *)
(* no byte at all: in an empty datagram, and always in one that was cut    *)
(* where decodePacket stops.                                               *)
CutReadsNullOnlyWhenEmpty ==
  phase = "decoded" /\ Len(wire) < length /\ Agreed(msg) =>
    LET empty == PacketLength(msg, extended) IN
      /\ decoded.ok => \E n \in 0..Len(msg.payload) :
                         decoded.field = Beginning(msg, extended, n)
      /\ ~decoded.ok => decoded \in {Failed, NullRead}
      /\ decoded = NullRead => Len(wire) \in {0, empty}
      /\ Len(wire) = empty => decoded = NullRead
=============================================================================
