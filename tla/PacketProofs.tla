---------------------------- MODULE PacketProofs ----------------------------
(***************************************************************************)
(* The readers of packet.cc undo its constructors, for all strings.        *)
(***************************************************************************)
EXTENDS Packet, TLAPS, WellFoundedInduction

\* What the strings of packets are made of.
Byte == 0..255

\* The numbers a uint32_t can hold.
Fits(n) == n < 256 * 16777216

\* The bytes w stand in b from offset i on.
Holds(b, i, w) == \A j \in 0..(Len(w) - 1) : ByteAt(b, i + j) = w[j + 1]

-----------------------------------------------------------------------------
(* Bytes at offsets. *)

\* The four bytes of a size are its digits to the base 256.
LEMMA Digits ==
  ASSUME NEW n \in Nat, Fits(n)
  PROVE  n = (n % 256) + 256 * ((n \div 256) % 256)
               + 65536 * ((n \div 65536) % 256)
               + 16777216 * ((n \div 16777216) % 256)
<1>1. PICK q \in Nat : q = n \div 256
  OBVIOUS
<1>2. PICK r \in Nat : r = n \div 65536
  BY SMT
<1>3. PICK t \in Nat : t = n \div 16777216
  BY SMT
<1>4. n = (n % 256) + 256 * q
  BY <1>1
<1>5. q = (q % 256) + 256 * r
  BY <1>1, <1>2, SMT
<1>6. r = (r % 256) + 256 * t
  BY <1>2, <1>3, SMT
<1>7. (t % 256) = t
  BY <1>3, SMT DEF Fits
<1> QED BY <1>1, <1>2, <1>3, <1>4, <1>5, <1>6, <1>7, SMT

\* A number takes four bytes.
LEMMA U32Type ==
  ASSUME NEW n \in Nat
  PROVE  U32(n) \in Seq(Byte) /\ Len(U32(n)) = 4
<1>1. \A m \in Nat : m % 256 \in Byte /\ m \div 256 \in Nat
  BY DEF Byte
<1>2. n \div 65536 \in Nat /\ n \div 16777216 \in Nat
  BY SMT
<1> QED BY <1>1, <1>2, SMT DEF U32

\* They are read as the number.
LEMMA HoldsU32 ==
  ASSUME NEW b, NEW i \in Nat, NEW n \in Nat, Fits(n), Holds(b, i, U32(n))
  PROVE  ReadU32(b, i) = n
<1>1. /\ ByteAt(b, i + 0) = U32(n)[1] /\ ByteAt(b, i + 1) = U32(n)[2]
      /\ ByteAt(b, i + 2) = U32(n)[3] /\ ByteAt(b, i + 3) = U32(n)[4]
  <2>1. 0..(Len(U32(n)) - 1) = 0..3
    <3>1. Len(U32(n)) = 4
      BY U32Type
    <3> QED BY <3>1
  <2>2. \A j \in 0..3 : ByteAt(b, i + j) = U32(n)[j + 1]
    BY <2>1 DEF Holds
  <2>3. /\ 0 \in 0..3 /\ 1 \in 0..3 /\ 2 \in 0..3 /\ 3 \in 0..3
        /\ 0 + 1 = 1 /\ 1 + 1 = 2 /\ 2 + 1 = 3 /\ 3 + 1 = 4
    OBVIOUS
  <2> QED BY <2>2, <2>3
<1>2. i + 0 = i
  OBVIOUS
<1> QED BY <1>1, <1>2, Digits, SMT DEF ReadU32, U32

\* Bytes behind bytes.
LEMMA Cat ==
  ASSUME NEW v \in Seq(Byte), NEW w \in Seq(Byte)
  PROVE  v \o w \in Seq(Byte) /\ Len(v \o w) = Len(v) + Len(w)
OBVIOUS

\* What is written in two parts can be read in two parts.
LEMMA HoldsParts ==
  ASSUME NEW b, NEW i \in Nat, NEW v \in Seq(Byte), NEW w \in Seq(Byte),
         Holds(b, i, v \o w)
  PROVE  Holds(b, i, v) /\ Holds(b, i + Len(v), w)
<1>1. Len(v \o w) = Len(v) + Len(w) /\ Len(v) \in Nat /\ Len(w) \in Nat
  OBVIOUS
<1>2. ASSUME NEW j \in 0..(Len(v) - 1)
      PROVE  ByteAt(b, i + j) = v[j + 1]
  <2>1. j \in 0..(Len(v \o w) - 1) /\ j + 1 \in 1..Len(v)
    BY <1>1
  <2>2. (v \o w)[j + 1] = v[j + 1]
    BY <2>1
  <2> QED BY <2>1, <2>2 DEF Holds
<1>3. ASSUME NEW j \in 0..(Len(w) - 1)
      PROVE  ByteAt(b, i + Len(v) + j) = w[j + 1]
  <2>1. PICK n \in Nat : n = Len(v)
    BY <1>1
  <2>2. /\ n + j \in 0..(Len(v \o w) - 1) /\ n + j + 1 \in 1..Len(v \o w)
        /\ ~(n + j + 1 <= Len(v)) /\ (n + j + 1) - Len(v) = j + 1
    BY <1>1, <2>1
  <2>3. (v \o w)[n + j + 1] = w[j + 1]
    BY <1>1, <2>2
  <2>4. i + (n + j) = i + n + j
    OBVIOUS
  <2> QED BY <2>1, <2>2, <2>3, <2>4 DEF Holds
<1> QED BY <1>2, <1>3 DEF Holds

\* A packet goes out with its size before it, and all that was written into it
\* if the declared size has room for it.
LEMMA BinaryHolds ==
  ASSUME NEW size \in Nat, NEW w \in Seq(Byte), Len(w) <= size
  PROVE  Holds(ToBinary(Packet(size, w)), 4, w)
<1> DEFINE rest == [i \in 1..size |-> ByteAt(w, i - 1)]
<1>1. PICK u \in Seq(Byte) : u = U32(size) /\ Len(u) = 4
  BY U32Type
<1>2. rest \in Seq(Byte) /\ Len(rest) = size
  <2>1. 0 \in Byte /\ \A j \in DOMAIN w : w[j] \in Byte
    <3>1. 0 \in Byte
      BY DEF Byte
    <3> QED BY <3>1
  <2>2. \A i \in 1..size : ByteAt(w, i - 1) \in Byte
    BY <2>1 DEF ByteAt
  <2> QED BY <2>2
<1>3. \A i \in 1..Len(w) : rest[i] = w[i]
  BY DEF ByteAt
<1>4. ToBinary(Packet(size, w)) = u \o rest
  BY <1>1 DEF ToBinary, Packet
<1> HIDE DEF rest
<1>5. PICK b : b = u \o rest
  OBVIOUS
<1>6. b \in Seq(Byte) /\ Len(b) = 4 + size /\ Len(w) \in Nat
  <2>1. u \o rest \in Seq(Byte) /\ Len(u \o rest) = Len(u) + Len(rest)
    BY <1>2, Cat
  <2> QED BY <1>1, <1>2, <1>5, <2>1
<1>7. ASSUME NEW j \in 0..(Len(w) - 1)
      PROVE  ByteAt(b, 4 + j) = w[j + 1]
  <2>1. /\ 4 + j + 1 \in 1..Len(b) /\ ~(4 + j + 1 <= 4) /\ (4 + j + 1) - 4 = j + 1
        /\ j + 1 \in 1..Len(w) /\ j + 1 \in 1..size
    BY <1>6
  <2>2. b[4 + j + 1] = rest[j + 1]
    BY <1>1, <1>2, <1>5, <1>6, <2>1
  <2>3. DOMAIN b = 1..Len(b)
    BY <1>6
  <2> QED BY <1>3, <2>1, <2>2, <2>3 DEF ByteAt
<1> QED BY <1>4, <1>5, <1>7 DEF Holds

-----------------------------------------------------------------------------
(* Strings. *)

\* A string takes its bytes and four more.
LEMMA StringType ==
  ASSUME NEW s \in Seq(Byte)
  PROVE  AddString(s) \in Seq(Byte) /\ Len(AddString(s)) = 4 + Len(s)
<1>1. U32(Len(s)) \in Seq(Byte) /\ Len(U32(Len(s))) = 4
  BY U32Type
<1> QED BY <1>1, Cat DEF AddString

\* ReadSlice gives back the string, and the offset behind it.
LEMMA HoldsString ==
  ASSUME NEW b, NEW i \in Nat, NEW s \in Seq(Byte), Fits(Len(s)),
         Holds(b, i, AddString(s))
  PROVE  ReadSlice(b, i) = [data |-> s, end |-> i + 4 + Len(s)]
<1>1. Len(s) \in Nat /\ U32(Len(s)) \in Seq(Byte) /\ Len(U32(Len(s))) = 4
  BY U32Type
<1>2. Holds(b, i, U32(Len(s))) /\ Holds(b, i + 4, s)
  BY <1>1, HoldsParts DEF AddString
<1>3. ReadU32(b, i) = Len(s)
  BY <1>1, <1>2, HoldsU32
<1>4. ASSUME NEW j \in 1..Len(s)
      PROVE  ByteAt(b, i + 3 + j) = s[j]
  <2>1. /\ j - 1 \in 0..(Len(s) - 1) /\ i + 4 + (j - 1) = i + 3 + j
        /\ (j - 1) + 1 = j
    BY <1>1
  <2> QED BY <1>2, <2>1 DEF Holds
<1>5. [j \in 1..Len(s) |-> ByteAt(b, i + 3 + j)] = s
  <2>1. s = [j \in 1..Len(s) |-> s[j]]
    OBVIOUS
  <2> QED BY <1>4, <2>1
<1> QED BY <1>3, <1>5 DEF ReadSlice

-----------------------------------------------------------------------------
(* Packets. *)

\* A single byte.
LEMMA OneByte ==
  ASSUME NEW x \in Byte
  PROVE  /\ <<x>> \in Seq(Byte) /\ Len(<<x>>) = 1
         /\ \A b, i : i \in Nat /\ Holds(b, i, <<x>>) => ByteAt(b, i) = x
<1>1. <<x>> \in Seq(Byte) /\ Len(<<x>>) = 1 /\ <<x>>[1] = x
  OBVIOUS
<1>2. ASSUME NEW b, NEW i \in Nat, Holds(b, i, <<x>>)
      PROVE  ByteAt(b, i) = x
  <2>1. 0 \in 0..(Len(<<x>>) - 1) /\ i + 0 = i /\ 0 + 1 = 1
    BY <1>1
  <2> QED BY <1>1, <1>2, <2>1 DEF Holds
<1> QED BY <1>1, <1>2

\* GetPacket, DeletePacket and GetAllPacket: CommandPacketFactory reads the op
\* code and the key that were written, and nothing behind the packet.
THEOREM KeyCommandRead ==
  ASSUME NEW op \in {kGet, kDelete, kGetAll}, NEW key \in Seq(Byte),
         Fits(KeyPacket(op, key).size)
  PROVE  CreateCommandPacket(ToBinary(KeyPacket(op, key)))
           = [op |-> op, key |-> key, end |-> KeyPacket(op, key).size + 4]
<1>1. op \in Byte /\ op # kPut /\ Len(key) \in Nat
  BY DEF Byte, kGet, kPut, kDelete, kGetAll
<1>2. PICK n \in Nat : n = Len(key)
  BY <1>1
<1>3. KeyPacket(op, key) = Packet(5 + n, <<op>> \o AddString(key))
      /\ KeyPacket(op, key).size = 5 + n
  BY <1>2 DEF KeyPacket, Packet
<1>4. Fits(Len(key))
  BY <1>2, <1>3, SMT DEF Fits
<1>5. PICK b : b = ToBinary(KeyPacket(op, key))
  OBVIOUS
<1>6. PICK o, k \in Seq(Byte) :
        /\ o = <<op>> /\ Len(o) = 1
        /\ k = AddString(key) /\ Len(k) = 4 + n
  BY <1>1, <1>2, StringType, OneByte
<1>7. PICK w \in Seq(Byte) : w = o \o k /\ Len(w) = 5 + n
  <2>1. o \o k \in Seq(Byte) /\ Len(o \o k) = Len(o) + Len(k)
    BY Cat
  <2>2. Len(o) + Len(k) = 5 + n
    BY <1>6
  <2> QED BY ONLY <2>1, <2>2
<1>8. Holds(b, 4, w)
  <2>1. b = ToBinary(Packet(5 + n, w))
    BY <1>3, <1>5, <1>6, <1>7
  <2>2. 5 + n \in Nat /\ Len(w) <= 5 + n
    BY <1>7
  <2> QED BY <2>1, <2>2, BinaryHolds
<1>9. ByteAt(b, 4) = op /\ Holds(b, 5, AddString(key))
  <2>1. Holds(b, 4, o) /\ Holds(b, 4 + Len(o), k)
    BY <1>7, <1>8, HoldsParts
  <2>2. Holds(b, 4, <<op>>) /\ Holds(b, 5, AddString(key))
    BY <1>6, <2>1
  <2> QED BY <1>1, <2>2, OneByte
<1>10. ReadSlice(b, 5) = [data |-> key, end |-> 5 + 4 + n]
  BY <1>2, <1>4, <1>9, HoldsString
<1> QED BY <1>1, <1>3, <1>5, <1>9, <1>10 DEF CreateCommandPacket

\* PutPacket: so are the key and the value of a Put.
THEOREM PutCommandRead ==
  ASSUME NEW key \in Seq(Byte), NEW value \in Seq(Byte),
         Fits(PutPacket(key, value).size)
  PROVE  CreateCommandPacket(ToBinary(PutPacket(key, value)))
           = [op |-> kPut, key |-> key, value |-> value,
              end |-> PutPacket(key, value).size + 4]
<1>1. kPut \in Byte /\ Len(key) \in Nat /\ Len(value) \in Nat
  BY DEF Byte, kPut
<1>2. PICK n, m \in Nat : n = Len(key) /\ m = Len(value)
  BY <1>1
<1>3. /\ PutPacket(key, value)
           = Packet(9 + n + m, <<kPut>> \o AddString(key) \o AddString(value))
      /\ PutPacket(key, value).size = 9 + n + m
  BY <1>2 DEF PutPacket, Packet
<1>4. Fits(Len(key)) /\ Fits(Len(value))
  BY <1>2, <1>3, SMT DEF Fits
<1>5. PICK b : b = ToBinary(PutPacket(key, value))
  OBVIOUS
<1>6. PICK o, k, x \in Seq(Byte) :
        /\ o = <<kPut>> /\ Len(o) = 1
        /\ k = AddString(key) /\ Len(k) = 4 + n
        /\ x = AddString(value) /\ Len(x) = 4 + m
  BY <1>1, <1>2, StringType, OneByte
<1>7. PICK v \in Seq(Byte) : v = o \o k /\ Len(v) = 5 + n
  <2>1. o \o k \in Seq(Byte) /\ Len(o \o k) = Len(o) + Len(k)
    BY Cat
  <2>2. Len(o) + Len(k) = 5 + n
    BY <1>6
  <2> QED BY ONLY <2>1, <2>2
<1>8. PICK w \in Seq(Byte) : w = v \o x /\ Len(w) = 9 + n + m
  <2>1. v \o x \in Seq(Byte) /\ Len(v \o x) = Len(v) + Len(x)
    BY Cat
  <2>2. Len(v) + Len(x) = 9 + n + m
    <3>1. Len(v) = 5 + n /\ Len(x) = 4 + m
      BY <1>6, <1>7
    <3> QED BY <3>1
  <2> QED BY ONLY <2>1, <2>2
<1>9. Holds(b, 4, w)
  <2>1. b = ToBinary(Packet(9 + n + m, w))
    BY <1>3, <1>5, <1>6, <1>7, <1>8
  <2>2. 9 + n + m \in Nat /\ Len(w) <= 9 + n + m
    BY <1>8
  <2> QED BY <2>1, <2>2, BinaryHolds
<1>10. Holds(b, 4, v) /\ Holds(b, 9 + n, AddString(value))
  <2>1. Holds(b, 4, v) /\ Holds(b, 4 + Len(v), x)
    BY <1>8, <1>9, HoldsParts
  <2>2. 4 + Len(v) = 9 + n
    BY <1>7
  <2> QED BY <1>6, <2>1, <2>2
<1>11. ByteAt(b, 4) = kPut /\ Holds(b, 5, AddString(key))
  <2>1. Holds(b, 4, o) /\ Holds(b, 4 + Len(o), k)
    BY <1>7, <1>10, HoldsParts
  <2>2. Holds(b, 4, <<kPut>>) /\ Holds(b, 5, AddString(key))
    BY <1>6, <2>1
  <2> QED BY <1>1, <2>2, OneByte
<1>12. ReadSlice(b, 5) = [data |-> key, end |-> 9 + n]
  BY <1>2, <1>4, <1>11, HoldsString
<1>13. ReadSlice(b, 9 + n) = [data |-> value, end |-> 13 + n + m]
  BY <1>2, <1>4, <1>10, HoldsString
<1> QED BY <1>3, <1>5, <1>11, <1>12, <1>13 DEF CreateCommandPacket

\* What a response begins with, and what its reader makes of it.
LEMMA HeaderType ==
  ASSUME NEW op \in Byte, NEW code \in Byte, NEW message \in Seq(Byte)
  PROVE  LET header == ResponseHeader(op, [code |-> code, message |-> message])
         IN header \in Seq(Byte) /\ Len(header) = 6 + Len(message)
<1>1. PICK o, k \in Seq(Byte) :
        /\ o = <<op, code>> /\ Len(o) = 2
        /\ k = AddString(message) /\ Len(k) = 4 + Len(message)
  <2>1. <<op, code>> \in Seq(Byte) /\ Len(<<op, code>>) = 2
    OBVIOUS
  <2> QED BY <2>1, StringType
<1>2. o \o k \in Seq(Byte) /\ Len(o \o k) = Len(o) + Len(k)
  BY Cat
<1>3. Len(o) + Len(k) = 6 + Len(message)
  BY <1>1
<1>4. ResponseHeader(op, [code |-> code, message |-> message]) = o \o k
  BY <1>1 DEF ResponseHeader
<1> QED BY <1>2, <1>3, <1>4

\* The op code and the status.
LEMMA HeaderRead ==
  ASSUME NEW b, NEW op \in Byte, NEW code \in Byte, NEW message \in Seq(Byte),
         Fits(Len(message)),
         Holds(b, 4, ResponseHeader(op, [code |-> code, message |-> message]))
  PROVE  /\ ByteAt(b, 4) = op
         /\ ParseStatus(b) = [code |-> code, message |-> message,
                              end |-> 10 + Len(message)]
<1>1. PICK o, k \in Seq(Byte) :
        /\ o = <<op, code>> /\ Len(o) = 2
        /\ k = AddString(message)
  <2>1. <<op, code>> \in Seq(Byte) /\ Len(<<op, code>>) = 2
    OBVIOUS
  <2> QED BY <2>1, StringType
<1>2. Holds(b, 4, o \o k)
  BY <1>1 DEF ResponseHeader
<1>3. Holds(b, 4, o) /\ Holds(b, 4 + Len(o), k)
  BY <1>2, HoldsParts
<1>4. ByteAt(b, 4) = op /\ ByteAt(b, 5) = code
  <2>1. 0 \in 0..(Len(o) - 1) /\ 1 \in 0..(Len(o) - 1)
    BY <1>1
  <2>2. ByteAt(b, 4 + 0) = o[0 + 1] /\ ByteAt(b, 4 + 1) = o[1 + 1]
    BY <1>3, <2>1 DEF Holds
  <2>3. o[1] = op /\ o[2] = code
    BY <1>1
  <2> QED BY <2>2, <2>3
<1>5. Holds(b, 6, AddString(message))
  BY <1>1, <1>3
<1>6. ReadSlice(b, 6) = [data |-> message, end |-> 10 + Len(message)]
  <2>1. ReadSlice(b, 6) = [data |-> message, end |-> 6 + 4 + Len(message)]
    BY <1>5, HoldsString
  <2>2. 6 + 4 + Len(message) = 10 + Len(message)
    OBVIOUS
  <2> QED BY <2>1, <2>2
<1> QED BY <1>4, <1>6 DEF ParseStatus

\* GetResponsePacket: ResponsePacketFactory reads the status and the value that
\* were written, and nothing behind the packet.
THEOREM GetResponseRead ==
  ASSUME NEW code \in Byte, NEW message \in Seq(Byte), NEW value \in Seq(Byte),
         Fits(GetResponsePacket([code |-> code, message |-> message], value).size)
  PROVE  LET status == [code |-> code, message |-> message]
             packet == GetResponsePacket(status, value)
         IN CreateResponsePacket(ToBinary(packet))
              = [op |-> kGet, status |-> status, value |-> value,
                 end |-> packet.size + 4]
<1> DEFINE status == [code |-> code, message |-> message]
<1>1. kGet \in Byte /\ Len(message) \in Nat /\ Len(value) \in Nat
  BY DEF Byte, kGet
<1>2. PICK n, m \in Nat : n = Len(message) /\ m = Len(value)
  BY <1>1
<1>3. /\ GetResponsePacket(status, value)
           = Packet(10 + n + m, ResponseHeader(kGet, status) \o AddString(value))
      /\ GetResponsePacket(status, value).size = 10 + n + m
  BY <1>2 DEF GetResponsePacket, ResponseHeaderSize, Packet
<1>4. Fits(Len(message)) /\ Fits(Len(value))
  BY <1>2, <1>3, SMT DEF Fits
<1>5. PICK b : b = ToBinary(GetResponsePacket(status, value))
  OBVIOUS
<1>6. PICK h, x \in Seq(Byte) :
        /\ h = ResponseHeader(kGet, status) /\ Len(h) = 6 + n
        /\ x = AddString(value) /\ Len(x) = 4 + m
  <2>1. PICK h \in Seq(Byte) : h = ResponseHeader(kGet, status) /\ Len(h) = 6 + n
    BY <1>1, <1>2, HeaderType
  <2>2. PICK x \in Seq(Byte) : x = AddString(value) /\ Len(x) = 4 + m
    BY <1>2, StringType
  <2> QED BY ONLY <2>1, <2>2
<1>7. PICK w \in Seq(Byte) : w = h \o x /\ Len(w) = 10 + n + m
  <2>1. h \o x \in Seq(Byte) /\ Len(h \o x) = Len(h) + Len(x)
    BY Cat
  <2>2. Len(h) + Len(x) = 10 + n + m
    <3>1. Len(h) = 6 + n /\ Len(x) = 4 + m
      BY <1>6
    <3> QED BY <3>1
  <2> QED BY ONLY <2>1, <2>2
<1>8. Holds(b, 4, w)
  <2>1. b = ToBinary(Packet(10 + n + m, w))
    BY <1>3, <1>5, <1>6, <1>7
  <2>2. 10 + n + m \in Nat /\ Len(w) <= 10 + n + m
    BY <1>7
  <2> QED BY <2>1, <2>2, BinaryHolds
<1>9. Holds(b, 4, ResponseHeader(kGet, status)) /\ Holds(b, 10 + n, AddString(value))
  <2>1. Holds(b, 4, h) /\ Holds(b, 4 + Len(h), x)
    BY <1>7, <1>8, HoldsParts
  <2>2. 4 + Len(h) = 10 + n
    BY <1>6
  <2> QED BY <1>6, <2>1, <2>2
<1>10. /\ ByteAt(b, 4) = kGet
       /\ ParseStatus(b) = [code |-> code, message |-> message, end |-> 10 + n]
  BY <1>1, <1>2, <1>4, <1>9, HeaderRead
<1>11. ReadSlice(b, 10 + n) = [data |-> value, end |-> 14 + n + m]
  <2>1. 10 + n \in Nat /\ 10 + n + 4 + m = 14 + n + m
    OBVIOUS
  <2> QED BY <1>2, <1>4, <1>9, <2>1, HoldsString
<1>12. 14 + n + m = GetResponsePacket(status, value).size + 4
  BY <1>3
<1>13. CreateResponsePacket(b)
         = [op |-> kGet, status |-> status, value |-> value, end |-> 14 + n + m]
  BY <1>10, <1>11 DEF CreateResponsePacket, kGet, kGetAll
<1> QED BY <1>5, <1>12, <1>13

\* PutResponsePacket, which answers a Delete, too.
THEOREM PutResponseRead ==
  ASSUME NEW code \in Byte, NEW message \in Seq(Byte),
         Fits(PutResponsePacket([code |-> code, message |-> message]).size)
  PROVE  LET status == [code |-> code, message |-> message]
             packet == PutResponsePacket(status)
         IN CreateResponsePacket(ToBinary(packet))
              = [op |-> kPut, status |-> status, end |-> packet.size + 4]
<1> DEFINE status == [code |-> code, message |-> message]
<1>1. kPut \in Byte /\ Len(message) \in Nat
  BY DEF Byte, kPut
<1>2. PICK n \in Nat : n = Len(message)
  BY <1>1
<1>3. /\ PutResponsePacket(status) = Packet(6 + n, ResponseHeader(kPut, status))
      /\ PutResponsePacket(status).size = 6 + n
  BY <1>2 DEF PutResponsePacket, ResponseHeaderSize, Packet
<1>4. Fits(Len(message))
  BY <1>2, <1>3, SMT DEF Fits
<1>5. PICK b : b = ToBinary(PutResponsePacket(status))
  OBVIOUS
<1>6. PICK h \in Seq(Byte) : h = ResponseHeader(kPut, status) /\ Len(h) = 6 + n
  BY <1>1, <1>2, HeaderType
<1>7. Holds(b, 4, ResponseHeader(kPut, status))
  <2>1. b = ToBinary(Packet(6 + n, h))
    BY <1>3, <1>5, <1>6
  <2>2. 6 + n \in Nat /\ Len(h) <= 6 + n
    BY <1>6
  <2> QED BY <1>6, <2>1, <2>2, BinaryHolds
<1>8. /\ ByteAt(b, 4) = kPut
      /\ ParseStatus(b) = [code |-> code, message |-> message, end |-> 10 + n]
  BY <1>1, <1>2, <1>4, <1>7, HeaderRead
<1>9. 10 + n = PutResponsePacket(status).size + 4
  BY <1>3
<1>10. CreateResponsePacket(b) = [op |-> kPut, status |-> status, end |-> 10 + n]
  BY <1>8 DEF CreateResponsePacket, kPut, kGet, kGetAll
<1> QED BY <1>5, <1>9, <1>10

-----------------------------------------------------------------------------
(* The response to GetAll, which loops over its keys. *)

\* Induction up to n, for a set of numbers.
LEMMA Upward ==
  ASSUME NEW n \in Nat, NEW P, 0 \in P, \A i \in 1..n : i - 1 \in P => i \in P
  PROVE  \A i \in 0..n : i \in P
<1> DEFINE T == {i \in 0..n : i \notin P}
<1> SUFFICES ASSUME T # {} PROVE FALSE
  OBVIOUS
<1>1. T \subseteq Nat
  OBVIOUS
<1>2. PICK i \in T : \A j \in T : <<j, i>> \notin OpToRel(<, Nat)
  <2> HIDE DEF T
  <2> QED BY <1>1, NatLessThanWellFounded, WFMin, Zenon
<1>3. i \in 0..n /\ i \notin P /\ \A j \in T : ~(j < i)
  BY <1>1, <1>2 DEF OpToRel
<1>4. i \in 1..n /\ i - 1 \in 0..n /\ i - 1 < i
  BY <1>3
<1>5. i - 1 \in P
  BY <1>3, <1>4
<1> QED BY <1>3, <1>4, <1>5

\* The sizes that GetAllResponsePacket adds up, key by key.
LEMMA SizesAdded ==
  ASSUME NEW keys \in Seq(Seq(Byte))
  PROVE  \E sum \in [0..Len(keys) -> Nat] :
           /\ sum[0] = 0
           /\ \A i \in 1..Len(keys) : sum[i] = sum[i - 1] + 4 + Len(keys[i])
           /\ SumSizes(keys) = sum[Len(keys)]
<1> DEFINE Body(f, s) == IF s = {} THEN 0
                         ELSE f[s \ {Max(s)}] + 4 + Len(keys[Max(s)])
           Fold(f, n) == f = [s \in SUBSET (1..n) |-> Body(f, s)]
<1>1. /\ Len(keys) \in Nat /\ DOMAIN keys = 1..Len(keys)
      /\ \A i \in 1..Len(keys) : Len(keys[i]) \in Nat
  OBVIOUS
<1>2. ASSUME NEW n \in Nat, NEW s \in SUBSET (1..n), n \in s
      PROVE  Max(s) = n
  <2>1. n \in s /\ \A y \in s : n >= y
    BY <1>2
  <2>2. \A x \in s : (\A y \in s : x >= y) => x = n
    BY <2>1
  <2> QED BY <2>1, <2>2 DEF Max
<1>3. \A n \in 0..Len(keys) : \E f : Fold(f, n)
  <2> DEFINE P == {n \in Nat : \E f : Fold(f, n)}
  <2>1. 0 \in P
    <3> DEFINE g == [s \in SUBSET (1..0) |-> 0]
    <3>1. \A s \in SUBSET (1..0) : s = {}
      OBVIOUS
    <3>2. Fold(g, 0)
      BY <3>1
    <3> QED BY <3>2
  <2>2. ASSUME NEW n \in 1..Len(keys), n - 1 \in P
        PROVE  n \in P
    <3>1. PICK f : Fold(f, n - 1)
      BY <2>2
    <3>2. n \in Nat /\ n - 1 \in Nat
      OBVIOUS
    <3> DEFINE g == [s \in SUBSET (1..n) |->
                       IF n \in s THEN f[s \ {n}] + 4 + Len(keys[n]) ELSE f[s]]
    <3>3. ASSUME NEW s \in SUBSET (1..n)
          PROVE  g[s] = Body(g, s)
      <4>1. CASE n \in s
        <5>1. /\ Max(s) = n /\ s # {} /\ s \ {n} \in SUBSET (1..n)
              /\ n \notin s \ {n}
          BY <1>2, <3>2, <4>1
        <5>2. g[s \ {n}] = f[s \ {n}] /\ g[s] = f[s \ {n}] + 4 + Len(keys[n])
          BY <4>1, <5>1
        <5> HIDE DEF g
        <5> QED BY <5>1, <5>2
      <4>2. CASE n \notin s
        <5>1. s \in SUBSET (1..(n - 1))
          BY <3>2, <4>2
        <5>2. g[s] = f[s] /\ f[s] = Body(f, s)
          BY <3>1, <4>2, <5>1
        <5>3. s \ {Max(s)} \in SUBSET (1..n) /\ n \notin s \ {Max(s)}
          BY <4>2
        <5>4. g[s \ {Max(s)}] = f[s \ {Max(s)}]
          BY <5>3
        <5> HIDE DEF g
        <5> QED BY <5>2, <5>4
      <4> QED BY <4>1, <4>2
    <3>4. g = [s \in SUBSET (1..n) |-> g[s]]
      OBVIOUS
    <3> HIDE DEF g
    <3>5. [s \in SUBSET (1..n) |-> g[s]] = [s \in SUBSET (1..n) |-> Body(g, s)]
      <4> HIDE DEF Body
      <4> QED BY <3>3
    <3>6. Fold(g, n)
      BY <3>4, <3>5
    <3> HIDE DEF Fold
    <3> QED BY <3>2, <3>6
  <2> HIDE DEF P
  <2>3. \A n \in 0..Len(keys) : n \in P
    BY <1>1, <2>1, <2>2, Upward
  <2> QED BY <2>3 DEF P
<1>4. PICK v : v = (CHOOSE f : Fold(f, Len(keys)))
  OBVIOUS
<1>5. Fold(v, Len(keys))
  <2>1. \E f : Fold(f, Len(keys))
    <3>1. Len(keys) \in 0..Len(keys)
      BY <1>1
    <3> HIDE DEF Fold
    <3> QED BY <1>3, <3>1
  <2> HIDE DEF Fold
  <2> QED BY <1>4, <2>1, Zenon
<1>6. SumSizes(keys) = v[1..Len(keys)]
  BY <1>1, <1>4 DEF SumSizes, FoldLeft, MapThenFoldSet
<1> DEFINE sum == [i \in 0..Len(keys) |-> v[1..i]]
<1>7. sum[0] = 0
  <2>1. 1..0 = {} /\ {} \in SUBSET (1..Len(keys))
    OBVIOUS
  <2>2. v[{}] = 0
    BY <1>5, <2>1
  <2> QED BY <1>1, <2>1, <2>2
<1>8. ASSUME NEW i \in 1..Len(keys)
      PROVE  sum[i] = sum[i - 1] + 4 + Len(keys[i])
  <2>1. /\ 1..i \in SUBSET (1..Len(keys)) /\ i \in 1..i /\ 1..i \in SUBSET (1..i)
        /\ i \in Nat /\ (1..i) \ {i} = 1..(i - 1)
        /\ i \in 0..Len(keys) /\ i - 1 \in 0..Len(keys)
    BY <1>1
  <2>2. Max(1..i) = i
    BY <1>2, <2>1
  <2>3. v[1..i] = Body(v, 1..i)
    BY <1>5, <2>1
  <2>4. v[1..i] = v[1..(i - 1)] + 4 + Len(keys[i])
    BY <2>1, <2>2, <2>3
  <2> QED BY <2>1, <2>4
<1> HIDE DEF sum
<1>9. \A i \in 0..Len(keys) : sum[i] \in Nat
  <2> DEFINE P == {i \in Nat : sum[i] \in Nat}
  <2>1. 0 \in P
    BY <1>7
  <2>2. ASSUME NEW i \in 1..Len(keys), i - 1 \in P
        PROVE  i \in P
    BY <1>1, <1>8, <2>2
  <2> HIDE DEF P
  <2>3. \A i \in 0..Len(keys) : i \in P
    BY <1>1, <2>1, <2>2, Upward
  <2> QED BY <2>3 DEF P
<1>10. sum \in [0..Len(keys) -> Nat] /\ SumSizes(keys) = sum[Len(keys)]
  BY <1>1, <1>6, <1>9 DEF sum
<1> QED BY <1>7, <1>8, <1>10

\* FlattenSeq puts one sequence behind the other.
LEMMA FlattenSteps ==
  ASSUME NEW A, NEW seqs \in Seq(Seq(A))
  PROVE  \E flat \in [0..Len(seqs) -> Seq(A)] :
           /\ flat[0] = <<>>
           /\ \A i \in 1..Len(seqs) : flat[i] = flat[i - 1] \o seqs[i]
           /\ FlattenSeq(seqs) = flat[Len(seqs)]
<1> DEFINE Step(f, i) == IF i = 1 THEN seqs[i] ELSE f[i - 1] \o seqs[i]
           Flat(f, n) == f = [i \in 1..n |-> Step(f, i)]
<1>1. Len(seqs) \in Nat /\ \A i \in 1..Len(seqs) : seqs[i] \in Seq(A)
  OBVIOUS
<1>2. (Len(seqs) = 0) => FlattenSeq(seqs) = <<>>
  <2>1. Len(seqs) = 0 => FlattenSeq(seqs) = seqs
    BY DEF FlattenSeq
  <2> QED BY <2>1
<1>3. \A n \in 0..Len(seqs) : \E f : Flat(f, n)
  <2> DEFINE P == {n \in Nat : \E f : Flat(f, n)}
  <2>1. 0 \in P
    <3> DEFINE g == [i \in 1..0 |-> 0]
    <3>1. Flat(g, 0)
      OBVIOUS
    <3> QED BY <3>1
  <2>2. ASSUME NEW n \in 1..Len(seqs), n - 1 \in P
        PROVE  n \in P
    <3>1. PICK f : Flat(f, n - 1)
      BY <2>2
    <3> DEFINE g == [i \in 1..n |-> IF i = n THEN Step(f, n) ELSE f[i]]
    <3>2. \A i \in 1..(n - 1) : f[i] = Step(f, i)
      BY <3>1
    <3>3. \A i \in 1..n : Step(g, i) = Step(f, i)
      <4> SUFFICES ASSUME NEW i \in 1..n, i # 1 PROVE g[i - 1] = f[i - 1]
        OBVIOUS
      <4>1. i - 1 \in 1..n /\ i - 1 # n
        OBVIOUS
      <4> QED BY <4>1
    <3>4. \A i \in 1..n : g[i] = Step(f, i)
      <4> HIDE DEF Step
      <4>1. \A i \in 1..n : i = n \/ i \in 1..(n - 1)
        OBVIOUS
      <4> QED BY <3>2, <4>1
    <3>5. g = [i \in 1..n |-> Step(g, i)]
      <4>1. g = [i \in 1..n |-> g[i]]
        OBVIOUS
      <4> HIDE DEF Step, g
      <4> QED BY <3>3, <3>4, <4>1
    <3> HIDE DEF g
    <3>6. Flat(g, n)
      <4> HIDE DEF Step
      <4> QED BY <3>5
    <3> HIDE DEF Flat
    <3> QED BY <3>6
  <2> HIDE DEF P
  <2>3. \A n \in 0..Len(seqs) : n \in P
    BY <1>1, <2>1, <2>2, Upward
  <2> QED BY <2>3 DEF P
<1>4. PICK v : v = (CHOOSE f : Flat(f, Len(seqs)))
  OBVIOUS
<1>5. Flat(v, Len(seqs))
  <2>1. \E f : Flat(f, Len(seqs))
    <3>1. Len(seqs) \in 0..Len(seqs)
      BY <1>1
    <3> HIDE DEF Flat
    <3> QED BY <1>3, <3>1
  <2> HIDE DEF Flat
  <2> QED BY <1>4, <2>1, Zenon
<1>6. Len(seqs) # 0 => FlattenSeq(seqs) = v[Len(seqs)]
  BY <1>4 DEF FlattenSeq
<1> DEFINE flat == [i \in 0..Len(seqs) |-> IF i = 0 THEN <<>> ELSE v[i]]
<1>7. ASSUME NEW i \in 1..Len(seqs)
      PROVE  /\ flat[i] = IF i = 1 THEN seqs[i] ELSE flat[i - 1] \o seqs[i]
             /\ i = 1 => flat[i - 1] = <<>>
  <2>1. i \in 0..Len(seqs) /\ i # 0 /\ i - 1 \in 0..Len(seqs) /\ (i # 1 => i - 1 # 0)
        /\ (i = 1 => i - 1 = 0)
    BY <1>1
  <2>2. v[i] = Step(v, i)
    BY <1>5
  <2> QED BY <2>1, <2>2
<1>8. FlattenSeq(seqs) = flat[Len(seqs)] /\ flat[0] = <<>>
  BY <1>1, <1>2, <1>6
<1> HIDE DEF flat
<1>9. \A w \in Seq(A) : <<>> \o w = w
  OBVIOUS
<1>10. \A i \in 1..Len(seqs) : flat[i] = flat[i - 1] \o seqs[i]
  BY <1>1, <1>7, <1>9
<1>11. \A i \in 0..Len(seqs) : flat[i] \in Seq(A)
  <2> DEFINE P == {i \in Nat : flat[i] \in Seq(A)}
  <2>1. 0 \in P
    <3>1. <<>> \in Seq(A)
      OBVIOUS
    <3> QED BY <1>8, <3>1
  <2>2. ASSUME NEW i \in 1..Len(seqs), i - 1 \in P
        PROVE  i \in P
    <3>1. PICK x, y \in Seq(A) : x = flat[i - 1] /\ y = seqs[i]
      BY <1>1, <2>2
    <3>2. x \o y \in Seq(A)
      OBVIOUS
    <3>3. flat[i] = x \o y
      BY <1>10, <3>1
    <3>4. flat[i] \in Seq(A) /\ i \in Nat
      BY <1>1, <3>2, <3>3
    <3> QED BY <3>4
  <2> HIDE DEF P
  <2>3. \A i \in 0..Len(seqs) : i \in P
    BY <1>1, <2>1, <2>2, Upward
  <2> QED BY <2>3 DEF P
<1>12. flat \in [0..Len(seqs) -> Seq(A)]
  BY <1>11 DEF flat
<1> QED BY <1>8, <1>10, <1>12

\* The strings that it writes one behind the other.
LEMMA StringsWritten ==
  ASSUME NEW keys \in Seq(Seq(Byte)), NEW sum \in [0..Len(keys) -> Nat],
         sum[0] = 0,
         \A i \in 1..Len(keys) : sum[i] = sum[i - 1] + 4 + Len(keys[i])
  PROVE  \E flat \in [0..Len(keys) -> Seq(Byte)] :
           /\ \A i \in 0..Len(keys) : Len(flat[i]) = sum[i]
           /\ \A i \in 1..Len(keys) : flat[i] = flat[i - 1] \o AddString(keys[i])
           /\ FlattenSeq([i \in DOMAIN keys |-> AddString(keys[i])]) = flat[Len(keys)]
<1> DEFINE seqs == [i \in DOMAIN keys |-> AddString(keys[i])]
<1>1. /\ Len(keys) \in Nat /\ DOMAIN keys = 1..Len(keys)
      /\ \A i \in 1..Len(keys) : keys[i] \in Seq(Byte) /\ Len(keys[i]) \in Nat
  OBVIOUS
<1>2. \A i \in 1..Len(keys) : /\ seqs[i] = AddString(keys[i]) /\ seqs[i] \in Seq(Byte)
                              /\ Len(seqs[i]) = 4 + Len(keys[i])
  BY <1>1, StringType
<1>3. seqs \in Seq(Seq(Byte)) /\ Len(seqs) = Len(keys)
  BY <1>1, <1>2
<1> HIDE DEF seqs
<1>4. PICK flat \in [0..Len(keys) -> Seq(Byte)] :
        /\ flat[0] = <<>>
        /\ \A i \in 1..Len(keys) : flat[i] = flat[i - 1] \o seqs[i]
        /\ FlattenSeq(seqs) = flat[Len(keys)]
  <2>1. \E f \in [0..Len(seqs) -> Seq(Byte)] :
          /\ f[0] = <<>>
          /\ \A i \in 1..Len(seqs) : f[i] = f[i - 1] \o seqs[i]
          /\ FlattenSeq(seqs) = f[Len(seqs)]
    BY <1>3, FlattenSteps
  <2> QED BY <1>3, <2>1
<1>5. \A i \in 0..Len(keys) : Len(flat[i]) = sum[i]
  <2> DEFINE P == {i \in Nat : Len(flat[i]) = sum[i]}
  <2>1. 0 \in P
    <3>1. Len(<<>>) = 0
      OBVIOUS
    <3> QED BY <1>4, <3>1
  <2>2. ASSUME NEW i \in 1..Len(keys), i - 1 \in P
        PROVE  i \in P
    <3>1. i - 1 \in 0..Len(keys)
      BY <1>1
    <3>2. PICK x, y \in Seq(Byte) : x = flat[i - 1] /\ y = seqs[i]
      BY <1>2, <3>1
    <3>3. PICK m, n \in Nat : m = sum[i - 1] /\ n = Len(keys[i])
      BY <1>1, <3>1
    <3>4. /\ flat[i] = x \o y /\ Len(x) = m /\ Len(y) = 4 + n
          /\ sum[i] = m + 4 + n
      BY <1>2, <1>4, <2>2, <3>2, <3>3
    <3>5. Len(x \o y) = Len(x) + Len(y)
      BY Cat
    <3>6. Len(flat[i]) = sum[i]
      BY <3>4, <3>5
    <3> QED BY <3>6
  <2> HIDE DEF P
  <2>3. \A i \in 0..Len(keys) : i \in P
    BY <1>1, <2>1, <2>2, Upward
  <2> QED BY <2>3 DEF P
<1>6. \A i \in 1..Len(keys) : flat[i] = flat[i - 1] \o AddString(keys[i])
  BY <1>2, <1>4
<1> QED BY <1>4, <1>5, <1>6 DEF seqs

\* Each of them stands where those before it end.
LEMMA StringsHeld ==
  ASSUME NEW keys \in Seq(Seq(Byte)), NEW sum \in [0..Len(keys) -> Nat],
         NEW flat \in [0..Len(keys) -> Seq(Byte)],
         \A i \in 0..Len(keys) : Len(flat[i]) = sum[i],
         \A i \in 1..Len(keys) : flat[i] = flat[i - 1] \o AddString(keys[i]),
         NEW b, NEW start \in Nat, Holds(b, start, flat[Len(keys)])
  PROVE  \A i \in 1..Len(keys) : Holds(b, start + sum[i - 1], AddString(keys[i]))
<1> DEFINE N == Len(keys)
<1>1. N \in Nat /\ \A i \in 1..N : keys[i] \in Seq(Byte)
  OBVIOUS
<1> HIDE DEF N
<1>2. ASSUME NEW i \in 1..N, Holds(b, start, flat[i])
      PROVE  /\ Holds(b, start, flat[i - 1])
             /\ Holds(b, start + sum[i - 1], AddString(keys[i]))
  <2>1. i - 1 \in 0..N
    BY <1>1
  <2>2. PICK v, w \in Seq(Byte) : v = flat[i - 1] /\ w = AddString(keys[i])
    BY <1>1, <2>1, StringType DEF N
  <2>3. flat[i] = v \o w /\ Len(v) = sum[i - 1]
    BY <2>1, <2>2 DEF N
  <2>4. Holds(b, start, v) /\ Holds(b, start + Len(v), w)
    BY <1>2, <2>3, HoldsParts
  <2> QED BY <2>2, <2>3, <2>4
<1> DEFINE P == {j \in Nat : Holds(b, start, flat[N - j])}
<1>3. 0 \in P
  <2>1. N - 0 = N
    BY <1>1
  <2> QED BY <2>1 DEF N
<1>4. ASSUME NEW j \in 1..N, j - 1 \in P
      PROVE  j \in P
  <2>1. N - (j - 1) \in 1..N /\ (N - (j - 1)) - 1 = N - j /\ j \in Nat
    BY <1>1
  <2>2. Holds(b, start, flat[N - (j - 1)])
    BY <1>4
  <2>3. Holds(b, start, flat[N - j])
    BY <1>2, <2>1, <2>2
  <2> QED BY <2>1, <2>3
<1> HIDE DEF P
<1>5. \A j \in 0..N : j \in P
  BY <1>1, <1>3, <1>4, Upward
<1>6. ASSUME NEW i \in 1..N
      PROVE  Holds(b, start + sum[i - 1], AddString(keys[i]))
  <2>1. N - i \in 0..N /\ N - (N - i) = i
    BY <1>1
  <2>2. Holds(b, start, flat[i])
    BY <1>5, <2>1 DEF P
  <2> QED BY <1>2, <2>2
<1> QED BY <1>6 DEF N

\* One more of a sequence.
LEMMA OneMore ==
  ASSUME NEW S, NEW s \in Seq(S), NEW i \in 1..Len(s)
  PROVE  SubSeq(s, 1, i) = Append(SubSeq(s, 1, i - 1), s[i])
<1>1. ASSUME NEW n \in 0..Len(s)
      PROVE  /\ SubSeq(s, 1, n) \in Seq(S) /\ Len(SubSeq(s, 1, n)) = n
             /\ \A j \in 1..n : SubSeq(s, 1, n)[j] = s[j]
  OBVIOUS
<1>2. PICK v \in Seq(S) :
        /\ v = SubSeq(s, 1, i - 1) /\ Len(v) = i - 1
        /\ \A j \in 1..(i - 1) : v[j] = s[j]
  <2>1. i - 1 \in 0..Len(s)
    OBVIOUS
  <2> QED BY <1>1, <2>1
<1>3. PICK w \in Seq(S) :
        /\ w = SubSeq(s, 1, i) /\ Len(w) = i
        /\ \A j \in 1..i : w[j] = s[j]
  <2>1. i \in 0..Len(s)
    OBVIOUS
  <2> QED BY <1>1, <2>1
<1>4. /\ Append(v, s[i]) \in Seq(S) /\ Len(Append(v, s[i])) = i
      /\ \A j \in 1..i : Append(v, s[i])[j] = s[j]
  BY <1>2
<1>5. w = Append(v, s[i])
  BY <1>3, <1>4
<1> QED BY <1>2, <1>3, <1>5

\* The loop over num_keys reads them one by one.
LEMMA KeysRead ==
  ASSUME NEW keys \in Seq(Seq(Byte)), NEW sum \in [0..Len(keys) -> Nat],
         sum[0] = 0,
         \A i \in 1..Len(keys) : sum[i] = sum[i - 1] + 4 + Len(keys[i]),
         Fits(Len(keys)), \A i \in 1..Len(keys) : Fits(Len(keys[i])),
         NEW b, NEW start \in Nat, Holds(b, start, U32(Len(keys))),
         \A i \in 1..Len(keys) :
           Holds(b, start + 4 + sum[i - 1], AddString(keys[i]))
  PROVE  ReadKeys(b, start) = [keys |-> keys, end |-> start + 4 + sum[Len(keys)]]
<1> DEFINE N == Len(keys)
           Step(f, i) ==
             IF i = 0 THEN [keys |-> <<>>, end |-> start + 4]
             ELSE LET key == ReadSlice(b, f[i - 1].end)
                  IN [keys |-> Append(f[i - 1].keys, key.data), end |-> key.end]
           Loop(f) == f = [i \in 0..N |-> Step(f, i)]
           Upto(i) == [keys |-> SubSeq(keys, 1, i), end |-> start + 4 + sum[i]]
           g == [i \in 0..N |-> Upto(i)]
<1>1. N \in Nat /\ \A i \in 1..N : keys[i] \in Seq(Byte) /\ Len(keys[i]) \in Nat
  OBVIOUS
<1>2. ReadU32(b, start) = N
  BY <1>1, HoldsU32
<1>3. Upto(0) = [keys |-> <<>>, end |-> start + 4]
  <2>1. SubSeq(keys, 1, 0) = <<>> /\ start + 4 + 0 = start + 4
    OBVIOUS
  <2> QED BY <2>1
<1>4. ASSUME NEW i \in 1..N
      PROVE  LET key == ReadSlice(b, Upto(i - 1).end)
             IN Upto(i) = [keys |-> Append(Upto(i - 1).keys, key.data), end |-> key.end]
  <2>1. i - 1 \in 0..N /\ i \in 0..N
    BY <1>1
  <2>2. PICK m, n \in Nat : m = sum[i - 1] /\ n = Len(keys[i])
    BY <1>1, <2>1
  <2>3. ReadSlice(b, start + 4 + m) = [data |-> keys[i], end |-> start + 4 + m + 4 + n]
    <3>1. Holds(b, start + 4 + m, AddString(keys[i])) /\ start + 4 + m \in Nat
      <4>1. Holds(b, start + 4 + sum[i - 1], AddString(keys[i]))
        OBVIOUS
      <4>2. sum[i - 1] = m
        BY <2>2
      <4>3. start + 4 + m \in Nat
        OBVIOUS
      <4> QED BY ONLY <4>1, <4>2, <4>3
    <3> QED BY <1>1, <2>2, <3>1, HoldsString
  <2>4. start + 4 + m + 4 + n = start + 4 + sum[i]
    <3>1. sum[i] = m + 4 + n
      BY <2>2
    <3> QED BY <3>1
  <2>5. SubSeq(keys, 1, i) = Append(SubSeq(keys, 1, i - 1), keys[i])
    BY OneMore
  <2>6. /\ Upto(i - 1).end = start + 4 + m
        /\ Upto(i - 1).keys = SubSeq(keys, 1, i - 1)
    BY <2>2
  <2>7. /\ ReadSlice(b, start + 4 + m).data = keys[i]
        /\ ReadSlice(b, start + 4 + m).end = start + 4 + sum[i]
    BY <2>3, <2>4
  <2>8. Upto(i) = [keys |-> Append(SubSeq(keys, 1, i - 1), keys[i]),
                   end |-> start + 4 + sum[i]]
    BY <2>5
  <2> HIDE DEF Upto
  <2> QED BY <2>6, <2>7, <2>8
<1> HIDE DEF N, Upto
<1>5. \A i \in 0..N : g[i] = Upto(i)
  OBVIOUS
<1>6. ASSUME NEW i \in 0..N
      PROVE  Step(g, i) = Upto(i)
  <2>1. CASE i = 0
    BY <1>3, <2>1
  <2>2. CASE i # 0
    <3>1. i \in 1..N /\ i - 1 \in 0..N
      BY <1>1, <2>2
    <3>2. g[i - 1] = Upto(i - 1)
      BY <1>5, <3>1
    <3> HIDE DEF g
    <3> QED BY <1>4, <2>2, <3>1, <3>2
  <2> QED BY <2>1, <2>2
<1>7. Loop(g)
  <2> HIDE DEF Step
  <2>1. [i \in 0..N |-> Upto(i)] = [i \in 0..N |-> Step(g, i)]
    BY <1>6
  <2> QED BY <2>1
<1> HIDE DEF g
<1>8. PICK v : v = (CHOOSE f : Loop(f))
  OBVIOUS
<1>9. Loop(v)
  <2> HIDE DEF Loop
  <2> QED BY <1>7, <1>8, Zenon
<1>10. ReadKeys(b, start) = v[N]
  BY <1>2, <1>8 DEF ReadKeys
<1>11. \A i \in 0..N : v[i] = Upto(i)
  <2> DEFINE P == {i \in Nat : v[i] = Upto(i)}
  <2>1. \A i \in 0..N : v[i] = Step(v, i)
    BY <1>9
  <2>2. 0 \in P
    <3>1. 0 \in 0..N
      BY <1>1
    <3> QED BY <1>3, <2>1, <3>1
  <2>3. ASSUME NEW i \in 1..N, i - 1 \in P
        PROVE  i \in P
    <3>1. i \in 0..N /\ i # 0 /\ i \in Nat
      BY <1>1
    <3>2. v[i - 1] = Upto(i - 1)
      BY <2>3
    <3>3. v[i] = Upto(i)
      BY <1>4, <2>1, <3>1, <3>2
    <3> QED BY <3>1, <3>3
  <2> HIDE DEF P
  <2>4. \A i \in 0..N : i \in P
    BY <1>1, <2>2, <2>3, Upward
  <2> QED BY <2>4 DEF P
<1>12. SubSeq(keys, 1, N) = keys
  BY DEF N
<1> QED BY <1>1, <1>10, <1>11, <1>12 DEF N, Upto

\* No number of keys and no size of one is larger than all sizes together.
LEMMA SizesFit ==
  ASSUME NEW keys \in Seq(Seq(Byte)), NEW sum \in [0..Len(keys) -> Nat],
         sum[0] = 0,
         \A i \in 1..Len(keys) : sum[i] = sum[i - 1] + 4 + Len(keys[i])
  PROVE  /\ Len(keys) <= sum[Len(keys)]
         /\ \A i \in 1..Len(keys) : Len(keys[i]) <= sum[Len(keys)]
<1> DEFINE N == Len(keys)
           P == {i \in Nat : i <= sum[i] /\ \A j \in 1..i : Len(keys[j]) <= sum[i]}
<1>1. N \in Nat /\ \A i \in 1..N : Len(keys[i]) \in Nat
  OBVIOUS
<1>2. 0 \in P
  OBVIOUS
<1>3. ASSUME NEW i \in 1..N, i - 1 \in P
      PROVE  i \in P
  <2>1. PICK m, n \in Nat : m = sum[i - 1] /\ n = Len(keys[i])
    <3>1. i - 1 \in 0..N
      BY <1>1
    <3> QED BY <1>1, <3>1
  <2>2. sum[i] = m + 4 + n /\ i - 1 <= m /\ \A j \in 1..(i - 1) : Len(keys[j]) <= m
    BY <1>3, <2>1
  <2>3. i \in Nat /\ i <= sum[i] /\ n <= sum[i]
    BY <2>2
  <2>4. ASSUME NEW j \in 1..i
        PROVE  Len(keys[j]) <= sum[i]
    <3>1. CASE j = i
      BY <2>1, <2>3, <3>1
    <3>2. CASE j # i
      <4>1. j \in 1..(i - 1) /\ j \in 1..N
        BY <3>2
      <4>2. PICK x \in Nat : x = Len(keys[j])
        BY <1>1, <4>1
      <4>3. x <= m
        BY <2>2, <4>1, <4>2
      <4> QED BY <2>2, <4>2, <4>3
    <3> QED BY <3>1, <3>2
  <2> QED BY <2>3, <2>4
<1> HIDE DEF P
<1>4. \A i \in 0..N : i \in P
  BY <1>1, <1>2, <1>3, Upward
<1>5. N \in P
  BY <1>1, <1>4
<1> QED BY <1>5 DEF P

\* GetAllResponsePacket, as long as the message of its status has at most four
\* bytes (the worker sends "OK"): the size it declares has room for what it
\* writes, although it leaves the message out and counts the number of keys
\* twice, and the reader gets back the status and the keys, in their order.
THEOREM GetAllResponseRead ==
  ASSUME NEW code \in Byte, NEW message \in Seq(Byte), Len(message) <= 4,
         NEW keys \in Seq(Seq(Byte)),
         Fits(GetAllResponsePacket([code |-> code, message |-> message], keys).size)
  PROVE  LET status == [code |-> code, message |-> message]
             packet == GetAllResponsePacket(status, keys)
         IN /\ Len(packet.payload) <= packet.size
            /\ CreateResponsePacket(ToBinary(packet))
                 = [op |-> kGetAll, status |-> status, keys |-> keys,
                    end |-> packet.size + Len(message)]
<1> DEFINE status == [code |-> code, message |-> message]
           packet == GetAllResponsePacket(status, keys)
<1>1. /\ kGetAll \in Byte /\ Len(message) \in Nat /\ Len(keys) \in Nat
      /\ \A i \in 1..Len(keys) : Len(keys[i]) \in Nat
  BY DEF Byte, kGetAll
<1>2. PICK sum \in [0..Len(keys) -> Nat] :
        /\ sum[0] = 0
        /\ \A i \in 1..Len(keys) : sum[i] = sum[i - 1] + 4 + Len(keys[i])
        /\ SumSizes(keys) = sum[Len(keys)]
  BY SizesAdded
<1>3. PICK flat \in [0..Len(keys) -> Seq(Byte)] :
        /\ \A i \in 0..Len(keys) : Len(flat[i]) = sum[i]
        /\ \A i \in 1..Len(keys) : flat[i] = flat[i - 1] \o AddString(keys[i])
        /\ FlattenSeq([i \in DOMAIN keys |-> AddString(keys[i])]) = flat[Len(keys)]
  BY <1>2, StringsWritten
<1>4. PICK n, m \in Nat : n = Len(message) /\ m = sum[Len(keys)] /\ n <= 4
  <2>1. Len(keys) \in 0..Len(keys)
    BY <1>1
  <2>2. sum[Len(keys)] \in Nat
    BY <2>1
  <2> QED BY <1>1, <2>2
<1>5. PICK h, u, f \in Seq(Byte) :
        /\ h = ResponseHeader(kGetAll, status) /\ Len(h) = 6 + n
        /\ u = U32(Len(keys)) /\ Len(u) = 4
        /\ f = flat[Len(keys)] /\ Len(f) = m
  <2>1. PICK h \in Seq(Byte) : h = ResponseHeader(kGetAll, status) /\ Len(h) = 6 + n
    BY <1>1, <1>4, HeaderType
  <2>2. PICK u \in Seq(Byte) : u = U32(Len(keys)) /\ Len(u) = 4
    BY <1>1, U32Type
  <2>3. PICK f \in Seq(Byte) : f = flat[Len(keys)] /\ Len(f) = m
    <3>1. Len(keys) \in 0..Len(keys)
      BY <1>1
    <3>2. flat[Len(keys)] \in Seq(Byte) /\ Len(flat[Len(keys)]) = sum[Len(keys)]
      BY <1>3, <3>1
    <3> QED BY <1>4, <3>2
  <2> QED BY ONLY <2>1, <2>2, <2>3
<1>6. PICK a \in Seq(Byte) : a = u \o f /\ Len(a) = 4 + m
  <2>1. u \o f \in Seq(Byte) /\ Len(u \o f) = Len(u) + Len(f)
    BY Cat
  <2>2. Len(u) + Len(f) = 4 + m
    BY <1>5
  <2> QED BY ONLY <2>1, <2>2
<1>7. PICK w \in Seq(Byte) : w = h \o a /\ Len(w) = 10 + n + m
  <2>1. h \o a \in Seq(Byte) /\ Len(h \o a) = Len(h) + Len(a)
    BY Cat
  <2>2. Len(h) = 6 + n /\ Len(a) = 4 + m
    BY <1>5, <1>6
  <2>3. Len(h) + Len(a) = 10 + n + m
    BY <2>2
  <2> QED BY ONLY <2>1, <2>3
<1>8. packet = Packet(14 + m, w) /\ packet.size = 14 + m /\ packet.payload = w
  <2>1. AddKeys(keys) = a
    BY <1>3, <1>5, <1>6 DEF AddKeys
  <2>2. ResponseHeaderSize + 4 + 4 + SumSizes(keys) = 14 + m
    BY <1>2, <1>4 DEF ResponseHeaderSize
  <2>3. packet = Packet(14 + m, w)
    BY <1>5, <1>7, <2>1, <2>2 DEF GetAllResponsePacket
  <2> HIDE DEF packet
  <2> QED BY <2>3 DEF Packet
<1>9. Len(w) <= 14 + m /\ 14 + m \in Nat
  BY <1>4, <1>7
<1>10. PICK b : b = ToBinary(packet)
  OBVIOUS
<1>11. Holds(b, 4, w)
  BY <1>8, <1>9, <1>10, BinaryHolds
<1>12. Holds(b, 4, h) /\ Holds(b, 10 + n, u) /\ Holds(b, 14 + n, f)
  <2>1. Holds(b, 4, h) /\ Holds(b, 4 + Len(h), a)
    BY <1>7, <1>11, HoldsParts
  <2>2. 4 + Len(h) = 10 + n /\ 10 + n \in Nat /\ 10 + n + Len(u) = 14 + n
    BY <1>5
  <2>3. Holds(b, 10 + n, u) /\ Holds(b, 10 + n + Len(u), f)
    BY <1>6, <2>1, <2>2, HoldsParts
  <2> QED BY <2>1, <2>2, <2>3
<1>13. Fits(Len(keys)) /\ Fits(Len(message)) /\ \A i \in 1..Len(keys) : Fits(Len(keys[i]))
  <2>1. Fits(14 + m)
    BY <1>8
  <2>2. \A x \in Nat : x <= m \/ x <= 4 => Fits(x)
    BY <2>1, SMT DEF Fits
  <2>3. Len(keys) <= m /\ \A i \in 1..Len(keys) : Len(keys[i]) <= m
    BY <1>2, <1>4, SizesFit
  <2> QED BY <1>1, <2>2, <2>3
<1>14. \A i \in 1..Len(keys) : Holds(b, 14 + n + sum[i - 1], AddString(keys[i]))
  <2>1. 14 + n \in Nat /\ Holds(b, 14 + n, flat[Len(keys)])
    BY <1>5, <1>12
  <2> QED BY <1>3, <2>1, StringsHeld
<1>15. ReadKeys(b, 10 + n) = [keys |-> keys, end |-> 14 + n + m]
  <2>1. 10 + n \in Nat /\ 10 + n + 4 = 14 + n
    OBVIOUS
  <2>2. \A i \in 1..Len(keys) : Holds(b, 10 + n + 4 + sum[i - 1], AddString(keys[i]))
    BY <1>14, <2>1
  <2>3. Holds(b, 10 + n, U32(Len(keys)))
    BY <1>5, <1>12
  <2>4. ReadKeys(b, 10 + n) = [keys |-> keys, end |-> 10 + n + 4 + sum[Len(keys)]]
    BY <1>2, <1>13, <2>1, <2>2, <2>3, KeysRead
  <2> QED BY <1>4, <2>1, <2>4
<1>16. /\ ByteAt(b, 4) = kGetAll
       /\ ParseStatus(b) = [code |-> code, message |-> message, end |-> 10 + n]
  <2>1. Holds(b, 4, ResponseHeader(kGetAll, status))
    BY <1>5, <1>12
  <2> QED BY <1>1, <1>4, <1>13, <2>1, HeaderRead
<1>17. CreateResponsePacket(b)
         = [op |-> kGetAll, status |-> status, keys |-> keys, end |-> 14 + n + m]
  <2>1. /\ ParseStatus(b).code = code /\ ParseStatus(b).message = message
        /\ ParseStatus(b).end = 10 + n /\ ByteAt(b, 4) = kGetAll
    BY <1>16
  <2>2. /\ ReadKeys(b, ParseStatus(b).end).keys = keys
        /\ ReadKeys(b, ParseStatus(b).end).end = 14 + n + m
    BY <1>15, <2>1
  <2>3. kGetAll # kGet
    BY DEF kGetAll, kGet
  <2> QED BY <2>1, <2>2, <2>3 DEF CreateResponsePacket
<1>18. 14 + n + m = packet.size + Len(message)
  <2>1. packet.size = 14 + m /\ Len(message) = n
    BY <1>4, <1>8
  <2>2. 14 + n + m = 14 + m + n
    OBVIOUS
  <2> HIDE DEF packet
  <2> QED BY <2>1, <2>2
<1>19. Len(packet.payload) <= packet.size
  BY <1>8, <1>9
<1> HIDE DEF packet
<1>20. CreateResponsePacket(ToBinary(packet))
         = [op |-> kGetAll, status |-> status, keys |-> keys,
            end |-> packet.size + Len(message)]
  BY <1>10, <1>17, <1>18
<1> QED BY <1>19, <1>20 DEF packet

-----------------------------------------------------------------------------
(* Declared sizes. *)

\* A command takes exactly the size its constructor computes.
LEMMA CommandSize ==
  ASSUME NEW op \in Byte, NEW key \in Seq(Byte), NEW value \in Seq(Byte)
  PROVE  /\ Len(KeyPacket(op, key).payload) = KeyPacket(op, key).size
         /\ Len(PutPacket(key, value).payload) = PutPacket(key, value).size
<1>1. PICK m, n \in Nat : m = Len(key) /\ n = Len(value)
  OBVIOUS
<1>2. PICK k, v \in Seq(Byte) : /\ k = AddString(key) /\ Len(k) = 4 + m
                                /\ v = AddString(value) /\ Len(v) = 4 + n
  BY <1>1, StringType
<1>3. PICK o, p \in Seq(Byte) : o = <<op>> /\ Len(o) = 1 /\ p = <<kPut>> /\ Len(p) = 1
  <2>1. kPut \in Byte
    BY DEF kPut, Byte
  <2> QED BY <2>1, OneByte
<1>4. Len(o \o k) = 5 + m
  BY <1>2, <1>3, Cat
<1>5. PICK w \in Seq(Byte) : w = p \o k /\ Len(w) = 5 + m
  <2>1. p \o k \in Seq(Byte) /\ Len(p \o k) = Len(p) + Len(k)
    BY Cat
  <2>2. Len(p) = 1 /\ Len(k) = 4 + m
    BY <1>2, <1>3
  <2>3. Len(p \o k) = 5 + m
    BY ONLY <2>1, <2>2, m \in Nat
  <2> QED BY <2>1, <2>3
<1>6. Len(w \o v) = 9 + m + n
  <2>1. Len(w \o v) = Len(w) + Len(v) /\ Len(w) = 5 + m /\ Len(v) = 4 + n
    BY <1>2, <1>5, Cat
  <2> QED BY ONLY <2>1, m \in Nat, n \in Nat
<1>7. KeyPacket(op, key) = [size |-> 5 + m, payload |-> o \o k]
  BY <1>1, <1>2, <1>3 DEF KeyPacket, Packet
<1>8. PutPacket(key, value) = [size |-> 9 + m + n, payload |-> w \o v]
  BY <1>1, <1>2, <1>3, <1>5 DEF PutPacket, Packet
<1> QED BY <1>4, <1>6, <1>7, <1>8

\* So does a response without keys.
LEMMA ResponseSize ==
  ASSUME NEW code \in Byte, NEW message \in Seq(Byte), NEW value \in Seq(Byte)
  PROVE  LET status == [code |-> code, message |-> message]
         IN /\ Len(GetResponsePacket(status, value).payload)
                 = GetResponsePacket(status, value).size
            /\ Len(PutResponsePacket(status).payload) = PutResponsePacket(status).size
<1> DEFINE status == [code |-> code, message |-> message]
<1>1. PICK m, n \in Nat : m = Len(message) /\ n = Len(value)
  OBVIOUS
<1>2. PICK v \in Seq(Byte) : v = AddString(value) /\ Len(v) = 4 + n
  BY <1>1, StringType
<1>3. kGet \in Byte /\ kPut \in Byte
  BY DEF kGet, kPut, Byte
<1>4. PICK g, p \in Seq(Byte) :
        /\ g = ResponseHeader(kGet, status) /\ Len(g) = 6 + m
        /\ p = ResponseHeader(kPut, status) /\ Len(p) = 6 + m
  BY <1>1, <1>3, HeaderType
<1>5. Len(g \o v) = 10 + m + n
  <2>1. Len(g \o v) = Len(g) + Len(v) /\ Len(g) = 6 + m /\ Len(v) = 4 + n
    BY <1>2, <1>4, Cat
  <2> QED BY ONLY <2>1, m \in Nat, n \in Nat
<1>6. GetResponsePacket(status, value) = [size |-> 10 + m + n, payload |-> g \o v]
  BY <1>1, <1>2, <1>4 DEF GetResponsePacket, ResponseHeaderSize, Packet
<1>7. PutResponsePacket(status) = [size |-> 6 + m, payload |-> p]
  BY <1>1, <1>4 DEF PutResponsePacket, ResponseHeaderSize, Packet
<1>8. /\ Len(GetResponsePacket(status, value).payload)
           = GetResponsePacket(status, value).size
      /\ Len(PutResponsePacket(status).payload) = PutResponsePacket(status).size
  <2> HIDE DEF status
  <2> QED BY <1>4, <1>5, <1>6, <1>7
<1> QED BY <1>8
=============================================================================
