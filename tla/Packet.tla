------------------------------- MODULE Packet -------------------------------
(***************************************************************************)
(* The wire format (src/protocol/packet.h, packet.cc): what the            *)
(* constructors write and what the readers make of it, byte by byte.       *)
(*                                                                         *)
(* A string is a sequence of bytes.  Offsets count from 0, as in the code. *)
(* Integers are written in the byte order of x86.                          *)
(***************************************************************************)
EXTENDS Integers, SequencesExt

kGet == 0
kPut == 1
kDelete == 2
kGetAll == 3

kOk == 0
kErr == 1

-----------------------------------------------------------------------------
(* Values in memory. *)

\* The byte at offset i; what lies behind the end is some other memory, here 0.
ByteAt(b, i) == IF i + 1 \in DOMAIN b THEN b[i + 1] ELSE 0

\* AddValue and ReadValue of a uint32_t.
U32(n) ==
  <<n % 256, (n \div 256) % 256, (n \div 65536) % 256, (n \div 16777216) % 256>>

ReadU32(b, i) ==
  ByteAt(b, i) + 256 * ByteAt(b, i + 1) + 65536 * ByteAt(b, i + 2)
    + 16777216 * ByteAt(b, i + 3)

AddString(s) == U32(Len(s)) \o s

\* The string at offset i and the offset behind it.
ReadSlice(b, i) ==
  LET size == ReadU32(b, i)
  IN [data |-> [j \in 1..size |-> ByteAt(b, i + 3 + j)], end |-> i + 4 + size]

-----------------------------------------------------------------------------
(* Constructors.  Each computes the size of the payload before it writes:  *)
(* a packet is that size and what is then written behind it.               *)

Packet(payload_size, payload) == [size |-> payload_size, payload |-> payload]

\* What is sent: the declared number of bytes, written or not.
ToBinary(p) == U32(p.size) \o [i \in 1..p.size |-> ByteAt(p.payload, i - 1)]

\* Mutants: the op code, and the size of the value, are not counted.
KeyPacketShort(op, key) == Packet(4 + Len(key), <<op>> \o AddString(key))
PutPacketShort(key, value) ==
  Packet(1 + 4 + Len(key) + Len(value),
         <<kPut>> \o AddString(key) \o AddString(value))

\* GetPacket, DeletePacket and GetAllPacket.
KeyPacket(op, key) == Packet(1 + 4 + Len(key), <<op>> \o AddString(key))

PutPacket(key, value) ==
  Packet(1 + 4 + 4 + Len(key) + Len(value),
         <<kPut>> \o AddString(key) \o AddString(value))

\* ResponsePacket: HeaderSize, and what its constructor writes.
ResponseHeaderSize == 6

ResponseHeader(op, status) == <<op, status.code>> \o AddString(status.message)

\* Mutant: the message is not counted.
GetResponsePacketShort(status, value) ==
  Packet(ResponseHeaderSize + 4 + Len(value),
         ResponseHeader(kGet, status) \o AddString(value))

GetResponsePacket(status, value) ==
  Packet(ResponseHeaderSize + 4 + Len(status.message) + Len(value),
         ResponseHeader(kGet, status) \o AddString(value))

\* The response to a Put; the one to a Delete carries the code of a Put, too.
PutResponsePacket(status) ==
  Packet(ResponseHeaderSize + Len(status.message), ResponseHeader(kPut, status))

SumSizes(keys) == FoldLeft(LAMBDA sum, key : sum + 4 + Len(key), 0, keys)

AddKeys(keys) ==
  U32(Len(keys)) \o FlattenSeq([i \in DOMAIN keys |-> AddString(keys[i])])

\* Mutant: the number of keys, part of HeaderSize, is not counted once more.
GetAllResponsePacketExact(status, keys) ==
  Packet(ResponseHeaderSize + 4 + SumSizes(keys),
         ResponseHeader(kGetAll, status) \o AddKeys(keys))

\* The size leaves the length of the message out and counts the 4 bytes of the
\* number of keys twice.
GetAllResponsePacket(status, keys) ==
  Packet(ResponseHeaderSize + 4 + 4 + SumSizes(keys),
         ResponseHeader(kGetAll, status) \o AddKeys(keys))

-----------------------------------------------------------------------------
(* Readers.  b is a packet with its size; "end" is the offset behind the   *)
(* last byte looked at.                                                    *)

\* CommandPacketFactory: the op code at offset 4 selects the reader.
CreateCommandPacket(b) ==
  LET op == ByteAt(b, 4)
      key == ReadSlice(b, 5)
      value == ReadSlice(b, key.end)
  IN IF op = kPut
     THEN [op |-> op, key |-> key.data, value |-> value.data, end |-> value.end]
     ELSE [op |-> op, key |-> key.data, end |-> key.end]

\* The status and, in end, the offset of ResponsePacket::Payload.
ParseStatus(b) ==
  LET message == ReadSlice(b, 6)
  IN [code |-> ByteAt(b, 5), message |-> message.data, end |-> message.end]

\* The loop over num_keys.
ReadKeys(b, start) ==
  LET read[i \in 0..ReadU32(b, start)] ==
        IF i = 0 THEN [keys |-> <<>>, end |-> start + 4]
        ELSE LET key == ReadSlice(b, read[i - 1].end)
             IN [keys |-> Append(read[i - 1].keys, key.data), end |-> key.end]
  IN read[ReadU32(b, start)]

\* ResponsePacketFactory.
CreateResponsePacket(b) ==
  LET op == ByteAt(b, 4)
      header == ParseStatus(b)
      status == [code |-> header.code, message |-> header.message]
      value == ReadSlice(b, header.end)
      all == ReadKeys(b, header.end)
  IN CASE op = kGet -> [op |-> op, status |-> status, value |-> value.data,
                        end |-> value.end]
       [] op = kGetAll -> [op |-> op, status |-> status, keys |-> all.keys,
                           end |-> all.end]
       [] OTHER -> [op |-> op, status |-> status, end |-> header.end]
=============================================================================
