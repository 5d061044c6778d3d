---------------------------- MODULE RequestProofs ---------------------------
(***************************************************************************)
(* One request through the deployment, for all strings: it is understood,  *)
(* its answer is true, a key of the intended form finds its shard, and a   *)
(* GetAll lists the keys with its prefix, and no other.                    *)
(***************************************************************************)
EXTENDS Request, PacketProofs, KeysProofs, FiniteSetTheorems

\* Where ShardingProxyWorker sends a command with this key, if it can.
ShardOf(key) == GetShardId(ExtractKey(key), NumShards)

HasShard(key) == ExtractKey(key) # Throws /\ ShardOf(key) \in Shards

\* Every key that has a shard has its last value there.
Current ==
  \A k \in KeySet : HasShard(k) => store[ShardOf(k)][k] = latest[k]

\* The response to the command, once the shard has handled it.
Answer ==
  IF call.op # kGet
  THEN PutResponsePacket(IF failed # <<>> THEN Err(failed) ELSE Ok)
  ELSE IF failed # <<>> THEN GetResponsePacket(Err(failed), <<>>)
  ELSE IF latest[call.key] = Absent THEN GetResponsePacket(Err(NotFound), <<>>)
  ELSE GetResponsePacket(Ok, latest[call.key])

\* The command is with the one shard of its key, or the answer is.
AtShard ==
  /\ HasShard(call.key)
  /\ \A s \in Shards \ {ShardOf(call.key)} : to[s] = NoPacket /\ from[s] = NoPacket
  /\ \/ /\ to[ShardOf(call.key)] = Encoded(call) /\ failed = <<>>
        /\ from[ShardOf(call.key)] = NoPacket
     \/ to[ShardOf(call.key)] = NoPacket /\ from[ShardOf(call.key)] = Answer

\* What is under way, and where.
Journey ==
  /\ failed \in ErrorMessages \cup {<<>>}
  /\ DOMAIN from = Shards
  /\ pc # "idle" => call \in Commands
  /\ pc = "shards" => to \in [Shards -> {NoPacket, Encoded(call)}]
  /\ pc # "shards" => to = NoPackets /\ from = NoPackets
  /\ pc = "proxy" => wire = Encoded(call) /\ failed = <<>>
  /\ pc = "shards" /\ call.op # kGetAll => AtShard
  /\ pc = "client" /\ call.op # kGetAll => wire = Answer
  /\ pc \in {"dead", "lost"} => call.op # kGetAll /\ ~HasShard(call.key)

\* The keys in a shard's RocksDB.
Stored(s) == {k \in DbKeys : store[s][k] # Absent}

\* The inductive invariant.
RequestInv == TypeOK /\ Current /\ Journey

\* Every key once, and shard_id once per shard.
AtMostAll(keys) ==
  \A k \in DbKeys : Times(k, keys) <= IF k = kShardIdKey THEN NumShards ELSE 1

\* The keys of a deployment can be listed in one response: what its size counts
\* is less than 2^32, where the uint32_t would begin again at 0.
AllKeysFit ==
  /\ IsFiniteSet(KeySet)
  /\ \A keys \in Seq(DbKeys) :
       AtMostAll(keys) => Fits(GetAllResponsePacket(Ok, keys).size)

\* What a shard answers to the GetAll under way: its keys that start with the
\* prefix, each at most once, and all of them if its iterator did not fail.
ListOf(keys, s) ==
  /\ keys \in Seq(DbKeys) /\ IsInjective(keys)
  /\ \A k \in ToSet(keys) : k \in Stored(s) /\ StartsWith(k, call.key)
  /\ s \notin cut => \A k \in Stored(s) : StartsWith(k, call.key) => k \in ToSet(keys)

\* The lists of all shards, one behind the other.
InTurn(lists) == FlattenSeq([i \in 1..NumShards |-> lists[i - 1]])

\* A client's key is stored at no shard but its own, shard_id at all of them.
Sharded ==
  /\ \A s \in Shards : store[s][kShardIdKey] # Absent
  /\ \A s \in Shards, k \in DbKeys :
       store[s][k] # Absent /\ k # kShardIdKey => HasShard(k) /\ s = ShardOf(k)
  /\ \A k \in KeySet : latest[k] # Absent => HasShard(k)

\* A GetAll is with a shard, or the shard's list is; the client gets the lists of
\* them all.
Listing ==
  /\ pc \notin {"proxy", "client"} => wire = NoPacket
  /\ pc = "shards" /\ call.op = kGetAll =>
       \A s \in Shards : IF to[s] # NoPacket THEN from[s] = NoPacket
                         ELSE \E keys : /\ ListOf(keys, s)
                                        /\ from[s] = GetAllResponsePacket(Ok, keys)
  /\ pc = "client" /\ call.op = kGetAll =>
       \E lists \in [Shards -> Seq(DbKeys)] :
         /\ \A s \in Shards : ListOf(lists[s], s)
         /\ wire = GetAllResponsePacket(Ok, InTurn(lists))

\* The inductive invariant of GetAll.
ListInv == RequestInv /\ Sharded /\ Listing

-----------------------------------------------------------------------------
(* Commands and answers. *)

\* What the assumptions say of each string.
LEMMA Strings ==
  /\ \A s \in KeySet \cup ValueSet \cup PrefixSet \cup ErrorMessages \cup {NotFound} :
       s \in Seq(Byte) /\ Len(s) \in Nat /\ Len(s) <= MaxLength
  /\ <<>> \in Seq(Byte) /\ Len(<<>>) = 0 /\ Len(<<>>) <= MaxLength
  /\ \A m, n \in Nat : m <= MaxLength /\ n <= MaxLength => Fits(10 + m + n)
<1>1. \A s \in KeySet \cup ValueSet \cup PrefixSet \cup ErrorMessages \cup {NotFound} :
        s \in Seq(Byte) /\ Len(s) <= MaxLength
  BY StringsAssumption DEF Byte
<1>2. <<>> \in Seq(Byte) /\ Len(<<>>) = 0 /\ Len(<<>>) <= MaxLength
  BY SMT DEF MaxLength
<1>3. \A m, n \in Nat : m <= MaxLength /\ n <= MaxLength => Fits(10 + m + n)
  BY SMT DEF MaxLength, Fits
<1> QED BY <1>1, <1>2, <1>3

\* The kinds of commands.
LEMMA CommandKinds ==
  ASSUME NEW c \in Commands
  PROVE  /\ c.op \in {kGet, kPut, kDelete, kGetAll}
         /\ c.key \in KeySet \cup PrefixSet
         /\ c.op # kGetAll => c.key \in KeySet
         /\ c.op = kPut => c.value \in ValueSet
BY DEF Commands, kGet, kPut, kDelete, kGetAll

\* The op codes are bytes.
LEMMA Codes == \A op \in {kGet, kPut, kDelete, kGetAll} : op \in Byte
BY DEF kGet, kPut, kDelete, kGetAll, Byte

\* What is sent is read as what was meant, within its size, and is not nothing.
LEMMA CommandRead ==
  ASSUME NEW c \in Commands
  PROVE  /\ CreateCommandPacket(ToBinary(Encoded(c))).op = c.op
         /\ CreateCommandPacket(ToBinary(Encoded(c))).key = c.key
         /\ c.op = kPut => CreateCommandPacket(ToBinary(Encoded(c))).value = c.value
         /\ Encoded(c) # NoPacket
         /\ Len(Encoded(c).payload) <= Encoded(c).size
         /\ CreateCommandPacket(ToBinary(Encoded(c))).end <= Encoded(c).size + 4
<1>1. PICK key \in Seq(Byte), n \in Nat : key = c.key /\ n = Len(key) /\ n <= MaxLength
  BY CommandKinds, Strings
<1>2. CASE c.op = kPut
  <2>1. PICK value \in Seq(Byte), m \in Nat :
          value = c.value /\ m = Len(value) /\ m <= MaxLength
    BY <1>2, CommandKinds, Strings
  <2>2. Encoded(c) = PutPacket(key, value)
    BY <1>1, <1>2, <2>1 DEF Encoded
  <2>3. PutPacket(key, value).size = 9 + n + m
    BY <1>1, <2>1 DEF PutPacket, Packet
  <2>4. Fits(PutPacket(key, value).size)
    <3>1. Fits(10 + n + m)
      BY <1>1, <2>1, Strings
    <3> QED BY <2>3, <3>1, SMT DEF Fits
  <2>5. CreateCommandPacket(ToBinary(Encoded(c)))
          = [op |-> kPut, key |-> key, value |-> value,
             end |-> PutPacket(key, value).size + 4]
    BY <2>2, <2>4, PutCommandRead
  <2>6. Encoded(c) # NoPacket
    <3>1. NoPacket.size = 0 /\ 9 + n + m # 0
      BY DEF NoPacket, Packet
    <3> QED BY <2>2, <2>3, <3>1
  <2>7. /\ Len(Encoded(c).payload) <= Encoded(c).size
        /\ CreateCommandPacket(ToBinary(Encoded(c))).end <= Encoded(c).size + 4
    <3>1. Len(PutPacket(key, value).payload) = PutPacket(key, value).size
      BY CommandSize, Codes
    <3> QED BY <2>2, <2>3, <2>5, <3>1
  <2> QED BY <1>1, <1>2, <2>1, <2>5, <2>6, <2>7
<1>3. CASE c.op # kPut
  <2>1. PICK op \in {kGet, kDelete, kGetAll} : op = c.op
    BY <1>3, CommandKinds
  <2>2. Encoded(c) = KeyPacket(op, key)
    BY <1>1, <1>3, <2>1 DEF Encoded
  <2>3. KeyPacket(op, key).size = 5 + n
    BY <1>1 DEF KeyPacket, Packet
  <2>4. Fits(KeyPacket(op, key).size)
    <3>1. Fits(10 + n + n)
      BY <1>1, Strings
    <3> QED BY <2>3, <3>1, SMT DEF Fits
  <2>5. CreateCommandPacket(ToBinary(Encoded(c)))
          = [op |-> op, key |-> key, end |-> KeyPacket(op, key).size + 4]
    BY <2>2, <2>4, KeyCommandRead
  <2>6. Encoded(c) # NoPacket
    <3>1. NoPacket.size = 0 /\ 5 + n # 0
      BY DEF NoPacket, Packet
    <3> QED BY <2>2, <2>3, <3>1
  <2>7. /\ Len(Encoded(c).payload) <= Encoded(c).size
        /\ CreateCommandPacket(ToBinary(Encoded(c))).end <= Encoded(c).size + 4
    <3>1. Len(KeyPacket(op, key).payload) = KeyPacket(op, key).size
      BY CommandSize, Codes
    <3> QED BY <2>2, <2>3, <2>5, <3>1
  <2> QED BY <1>1, <1>3, <2>1, <2>5, <2>6, <2>7
<1> QED BY <1>2, <1>3

\* The statuses a response carries.
LEMMA Statuses ==
  /\ kOk \in Byte /\ kErr \in Byte /\ kOk # kErr
  /\ <<79, 75>> \in Seq(Byte) /\ Len(<<79, 75>>) = 2 /\ 2 <= MaxLength
<1>1. kOk \in Byte /\ kErr \in Byte /\ kOk # kErr /\ 79 \in Byte /\ 75 \in Byte
  BY DEF kOk, kErr, Byte
<1>2. <<79, 75>> \in Seq(Byte) /\ Len(<<79, 75>>) = 2
  BY <1>1
<1>3. 2 <= MaxLength
  BY SMT DEF MaxLength
<1> QED BY <1>1, <1>2, <1>3

\* A response to a Get, and one to a Put or Delete, of strings the constants allow.
LEMMA GetAnswerRead ==
  ASSUME NEW code \in Byte, NEW message \in Seq(Byte), NEW value \in Seq(Byte),
         Len(message) <= MaxLength, Len(value) <= MaxLength
  PROVE  LET status == [code |-> code, message |-> message]
             r == CreateResponsePacket(ToBinary(GetResponsePacket(status, value)))
         IN /\ r.op = kGet /\ r.status = status /\ r.value = value
            /\ GetResponsePacket(status, value) # NoPacket
            /\ Len(GetResponsePacket(status, value).payload)
                 <= GetResponsePacket(status, value).size
            /\ r.end <= GetResponsePacket(status, value).size + 4
<1> DEFINE status == [code |-> code, message |-> message]
<1>1. PICK n, m \in Nat : n = Len(message) /\ m = Len(value)
  OBVIOUS
<1>2. GetResponsePacket(status, value).size = 10 + n + m
  BY <1>1 DEF GetResponsePacket, ResponseHeaderSize, Packet
<1>3. Fits(10 + n + m)
  BY <1>1, Strings
<1>4. CreateResponsePacket(ToBinary(GetResponsePacket(status, value)))
        = [op |-> kGet, status |-> status, value |-> value,
           end |-> GetResponsePacket(status, value).size + 4]
  BY <1>2, <1>3, GetResponseRead
<1>5. GetResponsePacket(status, value) # NoPacket
  <2>1. NoPacket.size = 0 /\ 10 + n + m # 0
    BY DEF NoPacket, Packet
  <2> QED BY <1>2, <2>1
<1>6. /\ Len(GetResponsePacket(status, value).payload)
           <= GetResponsePacket(status, value).size
      /\ CreateResponsePacket(ToBinary(GetResponsePacket(status, value))).end
           <= GetResponsePacket(status, value).size + 4
  <2>1. Len(GetResponsePacket(status, value).payload)
          = GetResponsePacket(status, value).size
    BY ResponseSize
  <2> HIDE DEF status
  <2> QED BY <1>2, <1>4, <2>1
<1> QED BY <1>4, <1>5, <1>6

\* The same without a value.
LEMMA PutAnswerRead ==
  ASSUME NEW code \in Byte, NEW message \in Seq(Byte), Len(message) <= MaxLength
  PROVE  LET status == [code |-> code, message |-> message]
             r == CreateResponsePacket(ToBinary(PutResponsePacket(status)))
         IN /\ r.op = kPut /\ r.status = status
            /\ PutResponsePacket(status) # NoPacket
            /\ Len(PutResponsePacket(status).payload) <= PutResponsePacket(status).size
            /\ r.end <= PutResponsePacket(status).size + 4
<1> DEFINE status == [code |-> code, message |-> message]
<1>1. PICK n \in Nat : n = Len(message)
  OBVIOUS
<1>2. PutResponsePacket(status).size = 6 + n
  BY <1>1 DEF PutResponsePacket, ResponseHeaderSize, Packet
<1>3. Fits(PutResponsePacket(status).size)
  <2>1. Fits(10 + n + n)
    BY <1>1, Strings
  <2> QED BY <1>2, <2>1, SMT DEF Fits
<1>4. CreateResponsePacket(ToBinary(PutResponsePacket(status)))
        = [op |-> kPut, status |-> status,
           end |-> PutResponsePacket(status).size + 4]
  BY <1>3, PutResponseRead
<1>5. PutResponsePacket(status) # NoPacket
  <2>1. NoPacket.size = 0 /\ 6 + n # 0
    BY DEF NoPacket, Packet
  <2> QED BY <1>2, <2>1
<1>6. /\ Len(PutResponsePacket(status).payload) <= PutResponsePacket(status).size
      /\ CreateResponsePacket(ToBinary(PutResponsePacket(status))).end
           <= PutResponsePacket(status).size + 4
  <2>1. Len(PutResponsePacket(status).payload) = PutResponsePacket(status).size
    BY ResponseSize
  <2> HIDE DEF status
  <2> QED BY <1>2, <1>4, <2>1
<1> QED BY <1>4, <1>5, <1>6

\* The answer says what happened, within its size, and is not nothing.
LEMMA AnswerRead ==
  ASSUME TypeOK, failed \in ErrorMessages \cup {<<>>}, call \in Commands,
         call.op # kGetAll
  PROVE  LET r == CreateResponsePacket(ToBinary(Answer))
         IN /\ Answer # NoPacket
            /\ Len(Answer.payload) <= Answer.size /\ r.end <= Answer.size + 4
            /\ r.op = kGet <=> call.op = kGet
            /\ r.status = IF failed # <<>> THEN Err(failed)
                          ELSE IF call.op = kGet /\ latest[call.key] = Absent
                          THEN Err(NotFound) ELSE Ok
            /\ call.op = kGet /\ r.status = Ok => r.value = latest[call.key]
<1>1. call.key \in KeySet /\ latest[call.key] \in ValueSet \cup {Absent}
  BY CommandKinds DEF TypeOK
<1>2. /\ \A m \in Seq(Byte) : Len(m) <= MaxLength => Err(m) # Ok
      /\ kPut # kGet
  BY Statuses DEF Ok, Err, kPut, kGet
<1>3. failed \in Seq(Byte) /\ Len(failed) <= MaxLength
  BY Strings
<1>4. CASE call.op # kGet
  <2>1. PICK code \in Byte, message \in Seq(Byte) :
          /\ Len(message) <= MaxLength
          /\ (IF failed # <<>> THEN Err(failed) ELSE Ok)
               = [code |-> code, message |-> message]
    BY <1>3, Statuses DEF Ok, Err
  <2>2. Answer = PutResponsePacket([code |-> code, message |-> message])
    BY <1>4, <2>1 DEF Answer
  <2>3. /\ CreateResponsePacket(ToBinary(Answer)).op = kPut
        /\ CreateResponsePacket(ToBinary(Answer)).status
             = [code |-> code, message |-> message]
        /\ Answer # NoPacket /\ Len(Answer.payload) <= Answer.size
        /\ CreateResponsePacket(ToBinary(Answer)).end <= Answer.size + 4
    BY <2>1, <2>2, PutAnswerRead
  <2> QED BY <1>2, <1>4, <2>1, <2>3
<1>5. CASE call.op = kGet
  <2> DEFINE Status == IF failed # <<>> THEN Err(failed)
                       ELSE IF latest[call.key] = Absent THEN Err(NotFound) ELSE Ok
             Value == IF failed # <<>> \/ latest[call.key] = Absent THEN <<>>
                      ELSE latest[call.key]
  <2>1. Answer = GetResponsePacket(Status, Value)
    BY <1>5 DEF Answer
  <2>2. NotFound \in Seq(Byte) /\ Len(NotFound) <= MaxLength
    BY Strings
  <2>3. PICK code \in Byte, message \in Seq(Byte) :
          Len(message) <= MaxLength /\ Status = [code |-> code, message |-> message]
    BY <1>3, <2>2, Statuses DEF Ok, Err
  <2>4. PICK value \in Seq(Byte) : Len(value) <= MaxLength /\ value = Value
    BY <1>1, Strings
  <2>5. Status = Ok => Value = latest[call.key]
    BY <1>2, <1>3, <2>2
  <2>6. Answer = GetResponsePacket([code |-> code, message |-> message], value)
    BY <2>1, <2>3, <2>4
  <2>7. /\ CreateResponsePacket(ToBinary(Answer)).op = kGet
        /\ CreateResponsePacket(ToBinary(Answer)).status
             = [code |-> code, message |-> message]
        /\ CreateResponsePacket(ToBinary(Answer)).value = value
        /\ Answer # NoPacket /\ Len(Answer.payload) <= Answer.size
        /\ CreateResponsePacket(ToBinary(Answer)).end <= Answer.size + 4
    <3>1. PICK p : p = GetResponsePacket([code |-> code, message |-> message], value)
      OBVIOUS
    <3>2. Len(message) <= MaxLength /\ Len(value) <= MaxLength
      BY <2>3, <2>4
    <3>3. /\ CreateResponsePacket(ToBinary(p)).op = kGet
          /\ CreateResponsePacket(ToBinary(p)).status
               = [code |-> code, message |-> message]
          /\ CreateResponsePacket(ToBinary(p)).value = value
          /\ p # NoPacket /\ Len(p.payload) <= p.size
          /\ CreateResponsePacket(ToBinary(p)).end <= p.size + 4
      BY ONLY <3>1, <3>2, GetAnswerRead
    <3> QED BY <2>6, <3>1, <3>3
  <2> HIDE DEF Value
  <2> QED BY <1>5, <2>3, <2>4, <2>5, <2>7
<1> QED BY <1>4, <1>5

-----------------------------------------------------------------------------
(* The launcher's own key. *)

\* The rank that the launcher has saved is out of the clients' reach: ExtractKey
\* finds no number behind the underscore of shard_id.
LEMMA ShardIdThrows == ExtractKey(kShardIdKey) = Throws
<1>1. /\ kShardIdKey \in Seq(Int) /\ Len(kShardIdKey) = 8
      /\ kShardIdKey[1] = 115 /\ kShardIdKey[2] = 104 /\ kShardIdKey[3] = 97
      /\ kShardIdKey[4] = 114 /\ kShardIdKey[5] = 100 /\ kShardIdKey[6] = 95
      /\ kShardIdKey[7] = 105 /\ kShardIdKey[8] = 100
  BY DEF kShardIdKey
<1>2. FirstUnderscore(kShardIdKey) = 6 /\ InDomain(kShardIdKey)
  <2>1. 6 \in 1..Len(kShardIdKey) /\ kShardIdKey[6] = Underscore
    BY <1>1 DEF Underscore
  <2>2. \A j \in 1..(6 - 1) : j = 1 \/ j = 2 \/ j = 3 \/ j = 4 \/ j = 5
    OBVIOUS
  <2>3. \A j \in 1..(6 - 1) : kShardIdKey[j] # Underscore
    BY <1>1, <2>2 DEF Underscore
  <2>4. PICK key \in Seq(Int) : key = kShardIdKey
    BY <1>1
  <2>5. PICK i \in 1..Len(key) : i = 6
    BY <2>1, <2>4
  <2>6. key[i] = Underscore /\ \A j \in 1..(i - 1) : key[j] # Underscore
    BY <2>1, <2>3, <2>4, <2>5
  <2>7. InDomain(key) /\ FirstUnderscore(key) = i
    BY ONLY <2>6, key \in Seq(Int), i \in 1..Len(key), FirstUnique
  <2> QED BY <2>4, <2>5, <2>7
<1>3. PICK e \in Seq(Int) : /\ e = SubSeq(kShardIdKey, 6 + 1, Len(kShardIdKey))
                            /\ Len(e) = 2 /\ e[1] = 105 /\ e[2] = 100
  <2>1. PICK q \in Seq(Int) : q = kShardIdKey
    BY <1>1
  <2>2. Len(q) = 8 /\ q[7] = 105 /\ q[8] = 100
    BY <1>1, <2>1
  <2>3. SubSeq(q, 6 + 1, Len(q)) = [i \in 1..2 |-> q[i + 6]]
    BY <2>2
  <2>4. PICK e : e = [i \in 1..2 |-> q[i + 6]]
    OBVIOUS
  <2>5. \A i \in 1..2 : q[i + 6] \in Int
    BY <2>2
  <2>6. e \in Seq(Int) /\ Len(e) = 2
    BY <2>4, <2>5
  <2>7. e[1] = q[1 + 6] /\ e[2] = q[2 + 6]
    BY <2>4
  <2>8. e[1] = 105 /\ e[2] = 100
    BY <2>2, <2>7
  <2> QED BY <2>1, <2>3, <2>4, <2>6, <2>8
<1>4. e[1] \notin Spaces /\ e[1] \notin {Plus, Minus} /\ e[1] \notin DigitChars
  <2>1. \A c \in Int : c = 105 => /\ c \notin Spaces /\ c \notin {Plus, Minus}
                                  /\ c \notin DigitChars
    BY DEF Spaces, Plus, Minus, DigitChars
  <2> QED BY <1>3, <2>1
<1>5. ASSUME NEW chars, e[1] \notin chars
      PROVE  Skip(e, chars) = e
  <2> DEFINE Q(n) == /\ \A i \in 1..n : e[i] \in chars
                     /\ n < Len(e) => e[n + 1] \notin chars
  <2>1. 0 \in 0..Len(e) /\ Q(0)
    BY <1>3, <1>5
  <2>2. \A n \in 0..Len(e) : Q(n) => n = 0
    BY <1>3, <1>5
  <2>3. (CHOOSE n \in 0..Len(e) : Q(n)) = 0
    BY <2>1, <2>2
  <2>4. SubSeq(e, 0 + 1, Len(e)) = e
    BY <1>3
  <2> QED BY <2>3, <2>4 DEF Skip
<1>6. Skip(e, Spaces) = e /\ Skip(e, DigitChars) = e
  BY <1>4, <1>5
<1>7. Leading(e, DigitChars) = <<>>
  <2>1. SubSeq(e, 1, 2 - 2) = <<>>
    BY <1>3
  <2> QED BY <1>3, <1>6, <2>1 DEF Leading
<1>8. stoul(e) = Throws
  BY <1>4, <1>6, <1>7 DEF stoul
<1> QED BY <1>2, <1>3, <1>8 DEF ExtractKey

-----------------------------------------------------------------------------
(* The invariant, action by action. *)

\* At first nothing is under way and nothing is stored.
LEMMA RequestInit ==
  ASSUME Init
  PROVE  RequestInv
<1>1. TypeOK
  BY MaxOpsAssumption DEF Init, TypeOK
<1>2. Current
  <2> SUFFICES ASSUME NEW k \in KeySet, HasShard(k)
               PROVE  store[ShardOf(k)][k] = latest[k]
    BY DEF Current
  <2>1. k \in DbKeys /\ k # kShardIdKey /\ ShardOf(k) \in Shards
    BY ShardIdThrows DEF HasShard, DbKeys
  <2> QED BY <2>1 DEF Init
<1>3. Journey
  BY DEF Init, Journey, NoPackets
<1> QED BY <1>1, <1>2, <1>3 DEF RequestInv

\* A client sends a command.
LEMMA InvokeKeeps ==
  ASSUME RequestInv, Invoke
  PROVE  RequestInv'
<1> USE DEF RequestInv
<1>1. /\ pc = "idle" /\ ops < MaxOps /\ pc' = "proxy" /\ ops' = ops + 1
      /\ failed' = <<>> /\ cut' = {} /\ call' \in Commands /\ wire' = Encoded(call')
      /\ UNCHANGED <<to, from, store, latest>>
  BY DEF Invoke
<1>2. TypeOK'
  <2>1. ops' \in 0..MaxOps
    BY <1>1, MaxOpsAssumption DEF TypeOK
  <2> QED BY <1>1, <2>1 DEF TypeOK
<1>3. Current'
  BY <1>1 DEF Current
<1>4. Journey'
  <2>1. to = NoPackets /\ from = NoPackets
    BY <1>1 DEF Journey
  <2> QED BY <1>1, <2>1 DEF Journey, Encoded
<1> QED BY <1>2, <1>3, <1>4

\* The proxy's worker sends it on to all shards, or to that of its key, or ends.
LEMMA DispatchKeeps ==
  ASSUME RequestInv, Dispatch
  PROVE  RequestInv'
<1> USE DEF RequestInv
<1>1. pc = "proxy" /\ call \in Commands /\ wire = Encoded(call) /\ failed = <<>>
      /\ to = NoPackets /\ from = NoPackets
  BY DEF Dispatch, Journey
<1>2. /\ CreateCommandPacket(ToBinary(wire)).op = call.op
      /\ CreateCommandPacket(ToBinary(wire)).key = call.key
  BY <1>1, CommandRead
<1>3. wire' = NoPacket /\ UNCHANGED <<call, from, store, failed, cut, latest, ops>>
  BY DEF Dispatch
<1>4. \/ /\ call.op = kGetAll /\ pc' = "shards"
         /\ to' = [s \in Shards |-> IF s \in Shards THEN wire ELSE NoPacket]
      \/ /\ call.op # kGetAll /\ ExtractKey(call.key) = Throws /\ pc' = "dead"
         /\ to' = to
      \/ /\ call.op # kGetAll /\ HasShard(call.key) /\ pc' = "shards"
         /\ to' = [s \in Shards |-> IF s \in {ShardOf(call.key)} THEN wire
                                    ELSE NoPacket]
      \/ /\ call.op # kGetAll /\ ~HasShard(call.key) /\ pc' = "lost" /\ to' = to
  BY <1>2 DEF Dispatch, HasShard, ShardOf
<1>5. TypeOK'
  BY <1>3, <1>4 DEF TypeOK
<1>6. Current'
  BY <1>3 DEF Current
<1>7. Encoded(call)' = Encoded(call) /\ HasShard(call.key)' = HasShard(call.key)
      /\ ShardOf(call.key)' = ShardOf(call.key)
  BY <1>3 DEF Encoded, HasShard, ShardOf
<1>8. failed' \in ErrorMessages \cup {<<>>} /\ DOMAIN from' = Shards /\ call' \in Commands
  BY <1>1, <1>3 DEF Journey
<1>9. CASE pc' = "shards"
  <2>1. to' \in [Shards -> {NoPacket, Encoded(call)}]
    BY <1>1, <1>4, <1>9
  <2>2. call.op # kGetAll => AtShard'
    <3> SUFFICES ASSUME call.op # kGetAll PROVE AtShard'
      OBVIOUS
    <3>1. HasShard(call.key) /\ ShardOf(call.key) \in Shards
          /\ to' = [s \in Shards |-> IF s \in {ShardOf(call.key)} THEN wire
                                     ELSE NoPacket]
      BY <1>4, <1>9 DEF HasShard
    <3>2. \A s \in Shards : from'[s] = NoPacket
      BY <1>1, <1>3 DEF NoPackets
    <3> QED BY <1>1, <1>3, <1>7, <3>1, <3>2 DEF AtShard
  <2>3. Journey'
    BY <1>3, <1>7, <1>8, <1>9, <2>1, <2>2 DEF Journey
  <2> QED BY <1>5, <1>6, <2>3
<1>10. CASE pc' \in {"dead", "lost"}
  <2>1. call.op # kGetAll /\ ~HasShard(call.key) /\ to' = NoPackets /\ from' = NoPackets
    BY <1>1, <1>3, <1>4, <1>10 DEF HasShard
  <2>2. Journey'
    BY <1>3, <1>7, <1>8, <1>10, <2>1 DEF Journey
  <2> QED BY <1>5, <1>6, <2>2
<1> QED BY <1>4, <1>9, <1>10

\* The answer goes to the client.
LEMMA ForwardKeeps ==
  ASSUME RequestInv, Forward
  PROVE  RequestInv'
<1> USE DEF RequestInv
<1>1. /\ pc = "shards" /\ to = NoPackets /\ pc' = "client" /\ from' = NoPackets
      /\ UNCHANGED <<call, to, store, failed, cut, latest, ops>>
  BY DEF Forward
<1>2. TypeOK' /\ Current'
  BY <1>1 DEF TypeOK, Current
<1>3. call.op # kGetAll => wire' = Answer
  <2> SUFFICES ASSUME call.op # kGetAll PROVE wire' = Answer
    OBVIOUS
  <2>1. AtShard /\ call \in Commands /\ failed \in ErrorMessages \cup {<<>>}
    BY <1>1 DEF Journey
  <2>2. PICK s \in Shards : from[s] # NoPacket /\ wire' = from[s]
    BY DEF Forward
  <2>3. s = ShardOf(call.key)
    BY <2>1, <2>2 DEF AtShard
  <2> QED BY <2>1, <2>2, <2>3 DEF AtShard
<1>4. Answer' = Answer
  BY <1>1 DEF Answer
<1>5. Journey'
  BY <1>1, <1>3, <1>4 DEF Journey, NoPackets
<1> QED BY <1>2, <1>5

\* The client takes it.
LEMMA ReturnKeeps ==
  ASSUME RequestInv, Return
  PROVE  RequestInv'
<1> USE DEF RequestInv
<1>1. /\ pc = "client" /\ pc' = "idle"
      /\ UNCHANGED <<call, to, from, store, failed, cut, latest, ops>>
  BY DEF Return
<1>2. TypeOK' /\ Current'
  BY <1>1 DEF TypeOK, Current
<1>3. Journey'
  BY <1>1 DEF Journey
<1> QED BY <1>2, <1>3

\* The op codes differ.
LEMMA OpCodes ==
  /\ kGet # kPut /\ kGet # kDelete /\ kGet # kGetAll
  /\ kPut # kDelete /\ kPut # kGetAll /\ kDelete # kGetAll
BY DEF kGet, kPut, kDelete, kGetAll

\* What a RocksDB that works makes of a Get, a Put and a Delete.
LEMMA DoneGet ==
  ASSUME NEW c, NEW db, NEW done \in Done(c, db), c.op = kGet
  PROVE  /\ done[1] = db
         /\ done[2] = IF db[c.key] = Absent
                      THEN GetResponsePacket(Err(NotFound), <<>>)
                      ELSE GetResponsePacket(Ok, db[c.key])
<1>1. Done(c, db) = {<<db, IF db[c.key] = Absent
                           THEN GetResponsePacket(Err(NotFound), <<>>)
                           ELSE GetResponsePacket(Ok, db[c.key])>>}
  BY OpCodes DEF Done
<1> QED BY <1>1

\* A Put.
LEMMA DonePut ==
  ASSUME NEW c, NEW db, NEW done \in Done(c, db), c.op = kPut
  PROVE  done[1] = [db EXCEPT ![c.key] = c.value] /\ done[2] = PutResponsePacket(Ok)
<1>1. Done(c, db) = {<<[db EXCEPT ![c.key] = c.value], PutResponsePacket(Ok)>>}
  BY OpCodes DEF Done
<1> QED BY <1>1

\* A Delete.
LEMMA DoneDelete ==
  ASSUME NEW c, NEW db, NEW done \in Done(c, db), c.op = kDelete
  PROVE  done[1] = [db EXCEPT ![c.key] = Absent] /\ done[2] = PutResponsePacket(Ok)
<1>1. Done(c, db) = {<<[db EXCEPT ![c.key] = Absent], PutResponsePacket(Ok)>>}
  BY OpCodes DEF Done
<1> QED BY <1>1

\* GetAll, whatever the iterator visits.
LEMMA DoneGetAll ==
  ASSUME NEW c, NEW db, NEW done \in Done(c, db), c.op = kGetAll
  PROVE  /\ done[1] = db
         /\ \E list \in Listed(c, db) : done[2] = GetAllResponsePacket(Ok, list)
<1>1. Done(c, db) = {<<db, GetAllResponsePacket(Ok, list)>> : list \in Listed(c, db)}
  BY OpCodes DEF Done
<1>2. PICK list \in Listed(c, db) : done = <<db, GetAllResponsePacket(Ok, list)>>
  BY <1>1
<1> QED BY <1>2

\* GetAll with an iterator that fails.
LEMMA CutGetAll ==
  ASSUME NEW c, NEW db, NEW done \in CutShort(c, db)
  PROVE  /\ done[1] = db
         /\ \E list \in Listed(c, db) : \E n \in 0..Len(list) :
              done[2] = GetAllResponsePacket(Ok, SubSeq(list, 1, n))
<1>1. PICK list \in Listed(c, db) :
        done \in {<<db, GetAllResponsePacket(Ok, SubSeq(list, 1, n))>> :
                   n \in 0..Len(list)}
  BY DEF CutShort
<1>2. PICK n \in 0..Len(list) :
        done = <<db, GetAllResponsePacket(Ok, SubSeq(list, 1, n))>>
  BY <1>1
<1> QED BY <1>2

\* A shard reads its command, and RocksDB works or fails.
LEMMA HandleSays ==
  ASSUME NEW s \in Shards, Handle(s), NEW c, NEW db,
         c = CreateCommandPacket(ToBinary(to[s])), db = store[s]
  PROVE  /\ pc = "shards" /\ to[s] # NoPacket /\ to' = [to EXCEPT ![s] = NoPacket]
         /\ UNCHANGED <<pc, call, wire, ops>>
         /\ \E done :
              /\ store' = [store EXCEPT ![s] = done[1]]
              /\ from' = [from EXCEPT ![s] = done[2]]
              /\ \/ /\ done \in Done(c, db) /\ UNCHANGED <<failed, cut>>
                    /\ call.op = kPut => latest' = [latest EXCEPT ![call.key] = call.value]
                    /\ call.op = kDelete => latest' = [latest EXCEPT ![call.key] = Absent]
                    /\ call.op \notin {kPut, kDelete} => latest' = latest
                 \/ /\ c.op # kGetAll /\ latest' = latest
                    /\ \E message \in ErrorMessages :
                         done = NotDone(c, db, message) /\ failed' = message
                    /\ cut' = cut
                 \/ /\ c.op = kGetAll /\ done \in CutShort(c, db)
                    /\ cut' = cut \cup {s} /\ UNCHANGED <<latest, failed>>
<1>1. /\ pc = "shards" /\ to[s] # NoPacket /\ to' = [to EXCEPT ![s] = NoPacket]
      /\ UNCHANGED <<pc, call, wire, ops>>
  BY DEF Handle
<1>2. CASE /\ \E done \in Done(c, db) :
                /\ store' = [store EXCEPT ![s] = done[1]]
                /\ from' = [from EXCEPT ![s] = done[2]]
           /\ latest' =
                CASE call.op = kPut -> [latest EXCEPT ![call.key] = call.value]
                  [] call.op = kDelete -> [latest EXCEPT ![call.key] = Absent]
                  [] OTHER -> latest
           /\ UNCHANGED <<failed, cut>>
  <2>1. PICK done \in Done(c, db) :
          /\ store' = [store EXCEPT ![s] = done[1]]
          /\ from' = [from EXCEPT ![s] = done[2]]
    BY <1>2
  <2>2. /\ call.op = kPut => latest' = [latest EXCEPT ![call.key] = call.value]
        /\ call.op = kDelete => latest' = [latest EXCEPT ![call.key] = Absent]
        /\ call.op \notin {kPut, kDelete} => latest' = latest
    BY <1>2, OpCodes
  <2> QED BY <1>1, <1>2, <2>1, <2>2
<1>3. CASE /\ c.op # kGetAll /\ UNCHANGED <<latest, cut>>
           /\ \E message \in ErrorMessages :
                /\ store' = [store EXCEPT ![s] = NotDone(c, db, message)[1]]
                /\ from' = [from EXCEPT ![s] = NotDone(c, db, message)[2]]
                /\ failed' = message
  <2>1. PICK message \in ErrorMessages :
          /\ store' = [store EXCEPT ![s] = NotDone(c, db, message)[1]]
          /\ from' = [from EXCEPT ![s] = NotDone(c, db, message)[2]]
          /\ failed' = message
    BY <1>3
  <2>2. PICK done : done = NotDone(c, db, message)
    OBVIOUS
  <2> QED BY <1>1, <1>3, <2>1, <2>2
<1>4. CASE /\ c.op = kGetAll /\ cut' = cut \cup {s} /\ UNCHANGED <<latest, failed>>
           /\ \E done \in CutShort(c, db) :
                /\ store' = [store EXCEPT ![s] = done[1]]
                /\ from' = [from EXCEPT ![s] = done[2]]
  BY <1>1, <1>4
<1> QED BY <1>2, <1>3, <1>4 DEF Handle

\* A shard with a command that is not GetAll opens no iterator.
LEMMA HandleCut ==
  ASSUME RequestInv, NEW s \in Shards, Handle(s), call.op # kGetAll
  PROVE  cut' = cut
<1>1. to[s] = Encoded(call) /\ call \in Commands
  BY DEF RequestInv, Handle, Journey
<1>2. CreateCommandPacket(ToBinary(to[s])).op # kGetAll
  BY <1>1, CommandRead
<1> QED BY <1>2 DEF Handle

\* What a shard does with a command that is not GetAll: it answers, and what it
\* stores is what the answer says.
LEMMA HandleOne ==
  ASSUME RequestInv, NEW s \in Shards, Handle(s), call.op # kGetAll
  PROVE  /\ s = ShardOf(call.key) /\ from' = [from EXCEPT ![s] = Answer']
         /\ failed' \in ErrorMessages \cup {<<>>}
         /\ \E v \in ValueSet \cup {Absent} :
              /\ store' = [store EXCEPT ![s] = [@ EXCEPT ![call.key] = v]]
              /\ latest' = [latest EXCEPT ![call.key] = v]
<1> USE DEF RequestInv
<1>1. /\ pc = "shards" /\ to[s] # NoPacket /\ call' = call /\ call \in Commands
      /\ AtShard
  BY DEF Handle, Journey
<1>2. s = ShardOf(call.key) /\ HasShard(call.key) /\ to[s] = Encoded(call)
      /\ failed = <<>>
  BY <1>1 DEF AtShard
<1>3. PICK c :
        /\ c = CreateCommandPacket(ToBinary(to[s]))
        /\ c.op = call.op /\ c.key = call.key
        /\ call.op = kPut => c.value = call.value
  BY <1>1, <1>2, CommandRead
<1>4. /\ call.key \in KeySet /\ call.op \in {kGet, kPut, kDelete}
      /\ call.op = kPut => call.value \in ValueSet
  BY <1>1, CommandKinds
<1>5. PICK db : db = store[s]
  OBVIOUS
<1>6. /\ db \in [DbKeys -> ValueSet \cup {Absent, SavedId}] /\ call.key \in DbKeys
      /\ db[call.key] = latest[call.key]
      /\ latest \in [KeySet -> ValueSet \cup {Absent}]
      /\ store \in [Shards -> [DbKeys -> ValueSet \cup {Absent, SavedId}]]
  BY <1>2, <1>4, <1>5 DEF TypeOK, Current, DbKeys
<1>7. PICK done :
        /\ store' = [store EXCEPT ![s] = done[1]]
        /\ from' = [from EXCEPT ![s] = done[2]]
        /\ \/ /\ done \in Done(c, db) /\ UNCHANGED <<failed, cut>>
              /\ call.op = kPut => latest' = [latest EXCEPT ![call.key] = call.value]
              /\ call.op = kDelete => latest' = [latest EXCEPT ![call.key] = Absent]
              /\ call.op \notin {kPut, kDelete} => latest' = latest
           \/ /\ c.op # kGetAll /\ latest' = latest
              /\ \E message \in ErrorMessages :
                   done = NotDone(c, db, message) /\ failed' = message
              /\ cut' = cut
           \/ /\ c.op = kGetAll /\ done \in CutShort(c, db)
              /\ cut' = cut \cup {s} /\ UNCHANGED <<latest, failed>>
  <2>1. c = CreateCommandPacket(ToBinary(to[s])) /\ db = store[s]
    BY <1>3, <1>5
  <2> QED BY ONLY <2>1, Handle(s), HandleSays
<1>8. \A v \in ValueSet \cup {Absent} : v = latest[call.key] =>
        /\ [latest EXCEPT ![call.key] = v] = latest
        /\ [db EXCEPT ![call.key] = v] = db
  BY <1>4, <1>6
<1>9. \A d : done[1] = d => store' = [store EXCEPT ![s] = d]
  BY <1>7
<1>10. ASSUME NEW v \in ValueSet \cup {Absent}, done[1] = [db EXCEPT ![call.key] = v]
       PROVE  store' = [store EXCEPT ![s] = [@ EXCEPT ![call.key] = v]]
  BY <1>5, <1>9, <1>10
<1>11. ASSUME done[1] = db, latest' = latest
       PROVE  \E v \in ValueSet \cup {Absent} :
                /\ store' = [store EXCEPT ![s] = [@ EXCEPT ![call.key] = v]]
                /\ latest' = [latest EXCEPT ![call.key] = v]
  <2>1. PICK v \in ValueSet \cup {Absent} : v = latest[call.key]
    BY <1>4, <1>6
  <2>2. done[1] = [db EXCEPT ![call.key] = v] /\ latest' = [latest EXCEPT ![call.key] = v]
    BY <1>8, <1>11, <2>1
  <2> QED BY <1>10, <2>2
<1>12. CASE /\ latest' = latest
            /\ \E message \in ErrorMessages :
                 done = NotDone(c, db, message) /\ failed' = message
  <2>1. PICK message \in ErrorMessages :
          done = NotDone(c, db, message) /\ failed' = message /\ latest' = latest
    BY <1>12
  <2>2. done[1] = db
    BY <2>1 DEF NotDone
  <2>3. failed' # <<>>
    BY <2>1, MessagesAssumption
  <2>4. done[2] = IF call.op = kGet THEN GetResponsePacket(Err(message), <<>>)
                  ELSE PutResponsePacket(Err(message))
    <3>1. done[2] = IF c.op = kGet THEN GetResponsePacket(Err(message), <<>>)
                    ELSE PutResponsePacket(Err(message))
      BY <2>1 DEF NotDone
    <3> QED BY <1>3, <3>1
  <2>5. Answer' = IF call.op = kGet THEN GetResponsePacket(Err(message), <<>>)
                  ELSE PutResponsePacket(Err(message))
    BY <1>1, <2>1, <2>3 DEF Answer
  <2> QED BY <1>2, <1>7, <1>11, <2>1, <2>2, <2>4, <2>5
<1>13. CASE /\ done \in Done(c, db) /\ failed' = failed
            /\ call.op = kPut => latest' = [latest EXCEPT ![call.key] = call.value]
            /\ call.op = kDelete => latest' = [latest EXCEPT ![call.key] = Absent]
            /\ call.op \notin {kPut, kDelete} => latest' = latest
  <2>1. failed' = <<>> /\ failed' \in ErrorMessages \cup {<<>>}
    BY <1>2, <1>13
  <2>2. CASE call.op = kGet
    <3>1. latest' = latest
      BY <1>13, <2>2, OpCodes
    <3>2. /\ done[1] = db
          /\ done[2] = IF latest[call.key] = Absent
                       THEN GetResponsePacket(Err(NotFound), <<>>)
                       ELSE GetResponsePacket(Ok, latest[call.key])
      <4>1. c.op = kGet /\ done \in Done(c, db)
        BY <1>3, <1>13, <2>2
      <4>2. /\ done[1] = db
            /\ done[2] = IF db[c.key] = Absent
                         THEN GetResponsePacket(Err(NotFound), <<>>)
                         ELSE GetResponsePacket(Ok, db[c.key])
        BY ONLY <4>1, DoneGet
      <4> QED BY <1>3, <1>6, <4>2
    <3>3. Answer' = IF latest[call.key] = Absent
                    THEN GetResponsePacket(Err(NotFound), <<>>)
                    ELSE GetResponsePacket(Ok, latest[call.key])
      BY <1>1, <2>1, <2>2, <3>1 DEF Answer
    <3> QED BY <1>2, <1>7, <1>11, <2>1, <3>1, <3>2, <3>3
  <2>3. CASE call.op = kPut
    <3>1. latest' = [latest EXCEPT ![call.key] = call.value]
      BY <1>13, <2>3
    <3>2. /\ done[1] = [db EXCEPT ![call.key] = call.value]
          /\ done[2] = PutResponsePacket(Ok)
      <4>1. c.op = kPut /\ done \in Done(c, db)
        BY <1>3, <1>13, <2>3
      <4>2. /\ done[1] = [db EXCEPT ![c.key] = c.value]
            /\ done[2] = PutResponsePacket(Ok)
        BY ONLY <4>1, DonePut
      <4> QED BY <1>3, <2>3, <4>2
    <3>3. Answer' = PutResponsePacket(Ok)
      BY <1>1, <2>1, <2>3, OpCodes DEF Answer
    <3>4. PICK v \in ValueSet \cup {Absent} : v = call.value
      BY <1>4, <2>3
    <3> QED BY <1>2, <1>7, <1>10, <2>1, <3>1, <3>2, <3>3, <3>4
  <2>4. CASE call.op = kDelete
    <3>1. latest' = [latest EXCEPT ![call.key] = Absent]
      BY <1>13, <2>4
    <3>2. /\ done[1] = [db EXCEPT ![call.key] = Absent]
          /\ done[2] = PutResponsePacket(Ok)
      <4>1. c.op = kDelete /\ done \in Done(c, db)
        BY <1>3, <1>13, <2>4
      <4>2. /\ done[1] = [db EXCEPT ![c.key] = Absent]
            /\ done[2] = PutResponsePacket(Ok)
        BY ONLY <4>1, DoneDelete
      <4> QED BY <1>3, <4>2
    <3>3. Answer' = PutResponsePacket(Ok)
      BY <1>1, <2>1, <2>4, OpCodes DEF Answer
    <3> QED BY <1>2, <1>7, <1>10, <2>1, <3>1, <3>2, <3>3
  <2> QED BY <1>4, <2>2, <2>3, <2>4
<1> QED BY <1>3, <1>7, <1>12, <1>13

\* GetAll changes nothing that is stored, and is answered with what the iterator
\* visits, up to its end or to where it fails.
LEMMA HandleAll ==
  ASSUME RequestInv, NEW s \in Shards, Handle(s), call.op = kGetAll
  PROVE  /\ UNCHANGED <<store, failed, latest>>
         /\ \E keys \in Visible(Stored(s), call.key) :
              \E list : /\ list = Iterate(keys, call.key)
                        /\ \/ /\ cut' = cut
                              /\ from' = [from EXCEPT ![s] =
                                            GetAllResponsePacket(Ok, list)]
                           \/ /\ cut' = cut \cup {s}
                              /\ \E n \in 0..Len(list) :
                                   from' = [from EXCEPT ![s] =
                                     GetAllResponsePacket(Ok, SubSeq(list, 1, n))]
<1> USE DEF RequestInv
<1>1. /\ to[s] = Encoded(call) /\ call \in Commands
      /\ store \in [Shards -> [DbKeys -> ValueSet \cup {Absent, SavedId}]]
  BY DEF Handle, Journey, TypeOK
<1>2. PICK c, db :
        /\ c = CreateCommandPacket(ToBinary(to[s])) /\ db = store[s]
        /\ c.op = kGetAll /\ c.key = call.key
  BY <1>1, CommandRead
<1>3. PICK done :
        /\ store' = [store EXCEPT ![s] = done[1]]
        /\ from' = [from EXCEPT ![s] = done[2]]
        /\ \/ /\ done \in Done(c, db) /\ UNCHANGED <<failed, cut>>
              /\ call.op = kPut => latest' = [latest EXCEPT ![call.key] = call.value]
              /\ call.op = kDelete => latest' = [latest EXCEPT ![call.key] = Absent]
              /\ call.op \notin {kPut, kDelete} => latest' = latest
           \/ /\ c.op # kGetAll /\ latest' = latest
              /\ \E message \in ErrorMessages :
                   done = NotDone(c, db, message) /\ failed' = message
              /\ cut' = cut
           \/ /\ c.op = kGetAll /\ done \in CutShort(c, db)
              /\ cut' = cut \cup {s} /\ UNCHANGED <<latest, failed>>
  <2>1. c = CreateCommandPacket(ToBinary(to[s])) /\ db = store[s]
    BY <1>2
  <2> QED BY ONLY <2>1, Handle(s), HandleSays
<1>4. /\ failed' = failed /\ latest' = latest
      /\ \/ done \in Done(c, db) /\ cut' = cut
         \/ done \in CutShort(c, db) /\ cut' = cut \cup {s}
  BY <1>2, <1>3, OpCodes
<1>5. PICK list \in Listed(c, db) :
        /\ done[1] = db
        /\ \/ cut' = cut /\ done[2] = GetAllResponsePacket(Ok, list)
           \/ /\ cut' = cut \cup {s}
              /\ \E n \in 0..Len(list) :
                   done[2] = GetAllResponsePacket(Ok, SubSeq(list, 1, n))
  BY <1>2, <1>4, DoneGetAll, CutGetAll
<1>6. store' = store
  BY <1>1, <1>2, <1>3, <1>5
<1>7. PICK keys \in Visible(Stored(s), call.key) : list = Iterate(keys, call.key)
  BY <1>2, <1>5 DEF Stored, Listed
<1> QED BY <1>3, <1>4, <1>5, <1>6, <1>7

\* A shard handles a command.
LEMMA HandleKeeps ==
  ASSUME RequestInv, NEW s \in Shards, Handle(s)
  PROVE  RequestInv'
<1> USE DEF RequestInv
<1>1. /\ pc = "shards" /\ pc' = "shards" /\ call' = call /\ ops' = ops
      /\ to' = [to EXCEPT ![s] = NoPacket] /\ call \in Commands
      /\ to \in [Shards -> {NoPacket, Encoded(call)}] /\ DOMAIN from = Shards
  BY DEF Handle, Journey
<1>2. Encoded(call)' = Encoded(call) /\ HasShard(call.key)' = HasShard(call.key)
      /\ ShardOf(call.key)' = ShardOf(call.key)
  BY <1>1 DEF Encoded, HasShard, ShardOf
<1>3. to' \in [Shards -> {NoPacket, Encoded(call)}]
  BY <1>1
<1>4. CASE call.op = kGetAll
  <2>1. /\ UNCHANGED <<store, failed, latest>> /\ \E p : from' = [from EXCEPT ![s] = p]
        /\ cut' \in {cut, cut \cup {s}}
    BY <1>4, HandleAll
  <2>2. TypeOK' /\ Current'
    BY <1>1, <2>1 DEF TypeOK, Current
  <2>3. DOMAIN from' = Shards
    BY <1>1, <2>1
  <2>4. Journey'
    BY <1>1, <1>2, <1>3, <1>4, <2>1, <2>3 DEF Journey
  <2> QED BY <2>2, <2>4
<1>5. CASE call.op # kGetAll
  <2>1. /\ s = ShardOf(call.key) /\ from' = [from EXCEPT ![s] = Answer']
        /\ failed' \in ErrorMessages \cup {<<>>}
    BY <1>5, HandleOne
  <2>2. PICK v \in ValueSet \cup {Absent} :
          /\ store' = [store EXCEPT ![s] = [@ EXCEPT ![call.key] = v]]
          /\ latest' = [latest EXCEPT ![call.key] = v]
    BY <1>5, HandleOne
  <2>3. call.key \in KeySet /\ call.key \in DbKeys /\ cut' = cut
    BY <1>1, <1>5, CommandKinds, HandleCut DEF DbKeys
  <2>4. TypeOK'
    <3>1. store[s] \in [DbKeys -> ValueSet \cup {Absent, SavedId}]
      BY DEF TypeOK
    <3>2. [store[s] EXCEPT ![call.key] = v] \in [DbKeys -> ValueSet \cup {Absent, SavedId}]
      BY <3>1
    <3>3. store' \in [Shards -> [DbKeys -> ValueSet \cup {Absent, SavedId}]]
      BY <2>2, <3>2 DEF TypeOK
    <3>4. latest' \in [KeySet -> ValueSet \cup {Absent}]
      BY <2>2 DEF TypeOK
    <3> QED BY <1>1, <2>3, <3>3, <3>4 DEF TypeOK
  <2>5. Current'
    <3> SUFFICES ASSUME NEW k \in KeySet, HasShard(k)
                 PROVE  store'[ShardOf(k)][k] = latest'[k]
      BY DEF Current, HasShard, ShardOf
    <3>1. PICK t \in Shards : t = ShardOf(k)
      BY DEF HasShard
    <3>2. /\ store \in [Shards -> [DbKeys -> ValueSet \cup {Absent, SavedId}]]
          /\ latest \in [KeySet -> ValueSet \cup {Absent}]
          /\ store[t][k] = latest[k] /\ k \in DbKeys
      BY <3>1 DEF TypeOK, Current, DbKeys
    <3>3. CASE k = call.key
      <4>1. t = s
        BY <2>1, <3>1, <3>3
      <4> QED BY <2>2, <2>3, <3>1, <3>2, <3>3, <4>1
    <3>4. CASE k # call.key
      <4>1. latest'[k] = latest[k]
        BY <2>2, <3>2, <3>4
      <4>2. store'[t][k] = store[t][k]
        BY <2>2, <3>2, <3>4
      <4> QED BY <3>1, <3>2, <4>1, <4>2
    <3> QED BY <3>3, <3>4
  <2>6. DOMAIN from' = Shards
    BY <1>1, <2>1
  <2>7. AtShard'
    <3>1. AtShard
      BY <1>1, <1>5 DEF Journey
    <3>2. to'[s] = NoPacket /\ from'[s] = Answer'
      BY <1>1, <2>1
    <3>3. \A t \in Shards \ {s} : to'[t] = to[t] /\ from'[t] = from[t]
      BY <1>1, <2>1
    <3> QED BY <1>2, <2>1, <3>1, <3>2, <3>3 DEF AtShard
  <2>8. Journey'
    BY <1>1, <1>2, <1>3, <2>1, <2>6, <2>7 DEF Journey
  <2> QED BY <2>4, <2>5, <2>8
<1> QED BY <1>4, <1>5

\* No step leaves the invariant.
LEMMA RequestStep ==
  ASSUME RequestInv, [Next]_vars
  PROVE  RequestInv'
<1>1. CASE UNCHANGED vars
  BY <1>1 DEF vars, RequestInv, TypeOK, Current, Journey, AtShard, Answer, Encoded,
              HasShard, ShardOf
<1> QED BY <1>1, InvokeKeeps, DispatchKeeps, ForwardKeeps, ReturnKeeps, HandleKeeps
        DEF Next

\* The invariant holds throughout.
LEMMA RequestInvariant == Spec => []RequestInv
BY RequestInit, RequestStep, PTL DEF Spec

-----------------------------------------------------------------------------
(* How often lists of keys name a key. *)

\* The places of a list that name a key.
Places(k, keys) == {i \in DOMAIN keys : keys[i] = k}

\* They are finitely many.
LEMMA PlacesFinite ==
  ASSUME NEW A, NEW x \in Seq(A), NEW k
  PROVE  /\ IsFiniteSet(Places(k, x)) /\ Times(k, x) = Cardinality(Places(k, x))
         /\ Times(k, x) \in Nat
<1>1. PICK m \in Nat : m = Len(x) /\ DOMAIN x = 1..m
  OBVIOUS
<1>2. IsFiniteSet(1..m)
  BY FS_Interval
<1>3. Places(k, x) \in SUBSET (1..m)
  BY <1>1 DEF Places
<1>4. IsFiniteSet(Places(k, x))
  BY <1>2, <1>3, FS_Subset
<1>5. Times(k, x) = Cardinality(Places(k, x))
  BY DEF Times, Places
<1> QED BY <1>4, <1>5, FS_CardinalityType

\* A list without repetitions names a key once or not at all.
LEMMA TimesOnce ==
  ASSUME NEW A, NEW y \in Seq(A), IsInjective(y), NEW k
  PROVE  Times(k, y) = IF k \in ToSet(y) THEN 1 ELSE 0
<1>1. CASE k \in ToSet(y)
  <2>1. PICK j \in DOMAIN y : y[j] = k
    BY <1>1 DEF ToSet
  <2>2. Places(k, y) = {j}
    BY <2>1 DEF Places, IsInjective
  <2>3. Cardinality({j}) = 1
    BY FS_Singleton
  <2> QED BY <1>1, <2>2, <2>3, PlacesFinite
<1>2. CASE k \notin ToSet(y)
  <2>1. Places(k, y) = {}
    BY <1>2 DEF Places, ToSet
  <2> QED BY <1>2, <2>1, PlacesFinite, FS_EmptySet
<1> QED BY <1>1, <1>2

\* A list with a second one behind it that has no repetitions.
LEMMA TimesJoined ==
  ASSUME NEW A, NEW x \in Seq(A), NEW y \in Seq(A), IsInjective(y), NEW k
  PROVE  /\ Times(k, x \o y) = IF k \in ToSet(y) THEN Times(k, x) + 1 ELSE Times(k, x)
         /\ k \in ToSet(x \o y) <=> k \in ToSet(x) \/ k \in ToSet(y)
<1>1. PICK m, n \in Nat : m = Len(x) /\ n = Len(y)
  OBVIOUS
<1>2. PICK z \in Seq(A) : z = x \o y
  <2>1. x \o y \in Seq(A)
    OBVIOUS
  <2> QED BY <2>1
<1>3. DOMAIN x = 1..m /\ DOMAIN y = 1..n /\ DOMAIN z = 1..(m + n)
  BY <1>1, <1>2
<1>4. ASSUME NEW i \in 1..m PROVE z[i] = x[i] /\ i \in 1..(m + n)
  BY <1>1, <1>2
<1>5. ASSUME NEW i \in 1..n PROVE z[m + i] = y[i] /\ m + i \in 1..(m + n)
  <2>1. m + i \in 1..(Len(x) + Len(y)) /\ ~(m + i <= Len(x)) /\ (m + i) - Len(x) = i
    BY <1>1
  <2> QED BY <1>1, <1>2, <2>1
<1>6. ASSUME NEW i \in 1..(m + n)
      PROVE  i \in 1..m \/ \E j \in 1..n : i = m + j
  <2>1. i \in 1..m \/ (i - m \in 1..n /\ i = m + (i - m))
    OBVIOUS
  <2> QED BY <2>1
<1>7. Places(k, z) = Places(k, x) \cup {m + j : j \in Places(k, y)}
  <2>1. ASSUME NEW i \in Places(k, z)
        PROVE  i \in Places(k, x) \/ \E j \in Places(k, y) : i = m + j
    BY <1>3, <1>4, <1>5, <1>6 DEF Places
  <2>2. ASSUME NEW i \in Places(k, x) PROVE i \in Places(k, z)
    BY <1>3, <1>4 DEF Places
  <2>3. ASSUME NEW j \in Places(k, y) PROVE m + j \in Places(k, z)
    BY <1>3, <1>5 DEF Places
  <2> QED BY <2>1, <2>2, <2>3
<1>8. /\ k \in ToSet(z) <=> Places(k, z) # {}
      /\ k \in ToSet(x) <=> Places(k, x) # {}
      /\ k \in ToSet(y) <=> Places(k, y) # {}
  BY DEF ToSet, Places
<1>9. CASE k \in ToSet(y)
  <2>1. PICK j \in 1..n : y[j] = k
    BY <1>3, <1>9 DEF ToSet
  <2>2. Places(k, y) = {j}
    BY <1>3, <2>1 DEF Places, IsInjective
  <2>3. Places(k, z) = Places(k, x) \cup {m + j}
    BY <1>7, <2>2
  <2>4. m + j \notin Places(k, x)
    BY <1>3 DEF Places
  <2>5. Cardinality(Places(k, z)) = Cardinality(Places(k, x)) + 1
    BY <2>3, <2>4, PlacesFinite, FS_AddElement
  <2> QED BY <1>2, <1>8, <1>9, <2>3, <2>5, PlacesFinite
<1>10. CASE k \notin ToSet(y)
  <2>1. Places(k, z) = Places(k, x)
    BY <1>7, <1>8, <1>10
  <2> QED BY <1>2, <1>8, <1>10, <2>1, PlacesFinite
<1> QED BY <1>9, <1>10

\* Lists one behind the other, each without repetitions, name a key as often as
\* there are lists that name it.
LEMMA TimesTogether ==
  ASSUME NEW A, NEW lists \in Seq(Seq(A)), NEW k,
         \A i \in 1..Len(lists) : IsInjective(lists[i])
  PROVE  /\ FlattenSeq(lists) \in Seq(A)
         /\ Times(k, FlattenSeq(lists))
              = Cardinality({i \in 0..(Len(lists) - 1) : k \in ToSet(lists[i + 1])})
         /\ k \in ToSet(FlattenSeq(lists))
              => \E i \in 1..Len(lists) : k \in ToSet(lists[i])
<1>1. PICK flat \in [0..Len(lists) -> Seq(A)] :
        /\ flat[0] = <<>>
        /\ \A i \in 1..Len(lists) : flat[i] = flat[i - 1] \o lists[i]
        /\ FlattenSeq(lists) = flat[Len(lists)]
  BY FlattenSteps
<1>2. Len(lists) \in Nat /\ \A i \in 1..Len(lists) : lists[i] \in Seq(A)
  OBVIOUS
<1> DEFINE Naming(n) == {i \in 0..(n - 1) : k \in ToSet(lists[i + 1])}
           Good(n) == /\ Times(k, flat[n]) = Cardinality(Naming(n))
                      /\ k \in ToSet(flat[n]) => \E i \in 1..n : k \in ToSet(lists[i])
           P == {n \in Nat : Good(n)}
<1>3. 0 \in P
  <2>1. DOMAIN <<>> = {} /\ 0..(0 - 1) = {}
    OBVIOUS
  <2>2. Naming(0) = {}
    BY <2>1
  <2>3. Places(k, flat[0]) = {} /\ k \notin ToSet(flat[0])
    BY <1>1, <2>1 DEF Places, ToSet
  <2>4. Times(k, flat[0]) = Cardinality(Places(k, flat[0]))
    BY DEF Times, Places
  <2> QED BY <2>2, <2>3, <2>4
<1>4. ASSUME NEW n \in 1..Len(lists), n - 1 \in P
      PROVE  n \in P
  <2>1. /\ n - 1 \in 0..Len(lists) /\ n \in Nat /\ n - 1 \in Nat
        /\ 0..(n - 1) = 0..((n - 1) - 1) \cup {n - 1} /\ n - 1 \notin 0..((n - 1) - 1)
        /\ \A i \in 1..(n - 1) : i \in 1..n
    BY <1>2
  <2>2. PICK x, y \in Seq(A) : x = flat[n - 1] /\ y = lists[n]
    BY <1>2, <2>1
  <2>3. flat[n] = x \o y /\ IsInjective(y)
    BY <1>1, <2>2
  <2>4. /\ Times(k, x) = Cardinality(Naming(n - 1))
        /\ k \in ToSet(x) => \E i \in 1..(n - 1) : k \in ToSet(lists[i])
    BY <1>4, <2>2
  <2>5. /\ Times(k, flat[n]) = IF k \in ToSet(y) THEN Times(k, x) + 1 ELSE Times(k, x)
        /\ k \in ToSet(flat[n]) <=> k \in ToSet(x) \/ k \in ToSet(y)
    BY <2>3, TimesJoined
  <2>6. k \in ToSet(flat[n]) => \E i \in 1..n : k \in ToSet(lists[i])
    BY <2>1, <2>2, <2>4, <2>5
  <2>7. (n - 1) + 1 = n
    BY <2>1
  <2>8. Naming(n) = IF k \in ToSet(y) THEN Naming(n - 1) \cup {n - 1} ELSE Naming(n - 1)
    BY <2>1, <2>2, <2>7
  <2>9. n - 1 \notin Naming(n - 1)
    BY <2>1
  <2>10. IsFiniteSet(Naming(n - 1))
    <3>1. Naming(n - 1) \in SUBSET (0..((n - 1) - 1)) /\ (n - 1) - 1 \in Int
      BY <2>1
    <3>2. IsFiniteSet(0..((n - 1) - 1))
      BY <3>1, FS_Interval
    <3> HIDE DEF Naming
    <3> QED BY <3>1, <3>2, FS_Subset
  <2> HIDE DEF Naming
  <2>11. Times(k, flat[n]) = Cardinality(Naming(n))
    <3>1. CASE k \in ToSet(y)
      <4>1. Cardinality(Naming(n - 1) \cup {n - 1}) = Cardinality(Naming(n - 1)) + 1
        BY <2>9, <2>10, FS_AddElement
      <4> QED BY <2>4, <2>5, <2>8, <3>1, <4>1
    <3>2. CASE k \notin ToSet(y)
      BY <2>4, <2>5, <2>8, <3>2
    <3> QED BY <3>1, <3>2
  <2> QED BY <2>1, <2>6, <2>11
<1>5. Len(lists) \in P
  <2> HIDE DEF P
  <2>1. \A i \in 0..Len(lists) : i \in P
    BY <1>2, <1>3, <1>4, Upward
  <2> QED BY <1>2, <2>1
<1>6. flat[Len(lists)] \in Seq(A)
  BY <1>2
<1> QED BY <1>1, <1>5, <1>6

-----------------------------------------------------------------------------
(* The iteration of GetAll. *)

\* Keys in RocksDB's order: every key once, and in order.
LEMMA SortedKeys ==
  ASSUME NEW S \in SUBSET Seq(Int), IsFiniteSet(S)
  PROVE  /\ Cardinality(S) \in Nat
         /\ Sorted(S) \in [1..Cardinality(S) -> S]
         /\ \A k \in S : \E i \in 1..Cardinality(S) : Sorted(S)[i] = k
         /\ \A i, j \in 1..Cardinality(S) : i < j => Before(Sorted(S)[i], Sorted(S)[j])
<1> DEFINE Less(k) == {m \in S : Before(m, k)}
           N == Cardinality(S)
           rank == [k \in S |-> Cardinality(Less(k)) + 1]
<1>1. N \in Nat
  BY FS_CardinalityType
<1>2. ASSUME NEW k \in S
      PROVE  /\ IsFiniteSet(Less(k)) /\ Cardinality(Less(k)) \in Nat
             /\ Cardinality(Less(k)) < N
  <2>1. k \notin Less(k) /\ Less(k) \in SUBSET S
    BY BeforeIrreflexive
  <2>2. IsFiniteSet(Less(k)) /\ Cardinality(Less(k)) <= N /\ (N = Cardinality(Less(k)) => S = Less(k))
    <3> HIDE DEF Less
    <3> QED BY <2>1, FS_Subset
  <2>3. Cardinality(Less(k)) \in Nat
    <3> HIDE DEF Less
    <3> QED BY <2>2, FS_CardinalityType
  <2> HIDE DEF Less, N
  <2> QED BY <1>1, <2>1, <2>2, <2>3
<1>3. ASSUME NEW a \in S, NEW b \in S, Before(a, b)
      PROVE  Cardinality(Less(a)) < Cardinality(Less(b))
  <2>1. Less(a) \in SUBSET Less(b)
    BY <1>3, BeforeTransitive
  <2>2. a \in Less(b) /\ a \notin Less(a)
    BY <1>3, BeforeIrreflexive
  <2> HIDE DEF Less
  <2>3. Cardinality(Less(a)) <= Cardinality(Less(b)) /\ Cardinality(Less(a)) # Cardinality(Less(b))
    BY <1>2, <2>1, <2>2, FS_Subset
  <2> QED BY <1>2, <2>3
<1> HIDE DEF Less
<1>4. rank \in [S -> 1..N]
  <2> SUFFICES ASSUME NEW k \in S PROVE Cardinality(Less(k)) + 1 \in 1..N
    OBVIOUS
  <2> HIDE DEF N
  <2> QED BY <1>1, <1>2
<1>5. \A a, b \in S : a # b => rank[a] # rank[b]
  <2> SUFFICES ASSUME NEW a \in S, NEW b \in S, a # b
               PROVE  Cardinality(Less(a)) + 1 # Cardinality(Less(b)) + 1
    OBVIOUS
  <2>1. Before(a, b) \/ Before(b, a)
    BY BeforeTotal
  <2> QED BY <1>2, <1>3, <2>1
<1>6. rank \in Injection(S, 1..N)
  <2> HIDE DEF rank, N
  <2> QED BY <1>4, <1>5, Zenon DEF Injection, IsInjective
<1>7. IsFiniteSet(1..N) /\ Cardinality(1..N) = N
  <2>1. IsFiniteSet(1..N) /\ Cardinality(1..N) = IF 1 > N THEN 0 ELSE N - 1 + 1
    <3> HIDE DEF N
    <3> QED BY <1>1, FS_Interval
  <2> HIDE DEF N
  <2> QED BY <1>1, <2>1
<1>8. rank \in Surjection(S, 1..N)
  <2> HIDE DEF rank
  <2> QED BY <1>6, <1>7, FS_Injection
<1>9. \A i \in 1..N : \E k \in S : rank[k] = i
  <2> HIDE DEF rank, N
  <2> QED BY <1>8, Zenon DEF Surjection
<1>10. ASSUME NEW i \in 1..N
       PROVE  Sorted(S)[i] \in S /\ Cardinality(Less(Sorted(S)[i])) = i - 1
  <2>1. PICK k \in S : rank[k] = i
    BY <1>9
  <2>2. Cardinality(Less(k)) = i - 1
    BY <1>2, <2>1
  <2>3. Sorted(S)[i] = CHOOSE k1 \in S : Cardinality(Less(k1)) = i - 1
    BY DEF Sorted, Less
  <2> QED BY <2>2, <2>3
<1>11. Sorted(S) \in [1..N -> S]
  <2> DEFINE Nth(i) == CHOOSE k \in S : Cardinality(Less(k)) = i - 1
  <2>1. Sorted(S) = [i \in 1..N |-> Nth(i)]
    BY DEF Sorted, Less
  <2>2. \A i \in 1..N : Sorted(S)[i] = Nth(i)
    BY <2>1
  <2> HIDE DEF Nth, N
  <2> QED BY <1>10, <2>1, <2>2
<1>12. ASSUME NEW k \in S
       PROVE  \E i \in 1..N : Sorted(S)[i] = k
  <2>1. PICK i \in 1..N : i = rank[k]
    BY <1>4
  <2>2. Cardinality(Less(k)) = i - 1
    BY <1>2, <2>1
  <2>3. Sorted(S)[i] \in S /\ Cardinality(Less(Sorted(S)[i])) = Cardinality(Less(k))
    BY <1>10, <2>2
  <2>4. Sorted(S)[i] = k
    BY <1>5, <2>3
  <2> QED BY <2>4
<1>13. ASSUME NEW i \in 1..N, NEW j \in 1..N, i < j
       PROVE  Before(Sorted(S)[i], Sorted(S)[j])
  <2>1. PICK a \in S, b \in S : a = Sorted(S)[i] /\ b = Sorted(S)[j]
    BY <1>10
  <2>2. Cardinality(Less(a)) = i - 1 /\ Cardinality(Less(b)) = j - 1
    BY <1>10, <2>1
  <2>3. a # b /\ ~Before(b, a)
    BY <1>2, <1>3, <1>13, <2>2
  <2> QED BY <2>1, <2>3, BeforeTotal
<1> QED BY <1>1, <1>11, <1>12, <1>13

\* The loop of GetAll visits every key that starts with the prefix, once, and no
\* other, as long as RocksDB's iterator shows it at least these.
LEMMA IterateLists ==
  ASSUME NEW S \in SUBSET Seq(Int), IsFiniteSet(S), NEW prefix \in Seq(Int)
  PROVE  /\ Iterate(S, prefix) \in Seq(S)
         /\ IsInjective(Iterate(S, prefix))
         /\ ToSet(Iterate(S, prefix)) = {k \in S : StartsWith(k, prefix)}
<1> DEFINE from_ == {k \in S : ~Before(k, prefix)}
           q == Sorted(from_)
           N == Cardinality(from_)
<1>1. from_ \in SUBSET Seq(Int) /\ from_ \in SUBSET S /\ IsFiniteSet(from_)
  <2>1. from_ \in SUBSET S
    OBVIOUS
  <2> HIDE DEF from_
  <2> QED BY <2>1, FS_Subset
<1>2. /\ N \in Nat /\ q \in [1..N -> from_]
      /\ \A k \in from_ : \E i \in 1..N : q[i] = k
      /\ \A i, j \in 1..N : i < j => Before(q[i], q[j])
  <2> HIDE DEF from_
  <2> QED BY <1>1, SortedKeys
<1>3. \A k \in from_ : k \in S /\ k \in Seq(Int) /\ ~Before(k, prefix)
  BY <1>1
<1>4. q = Sought(S, prefix)
  BY DEF Sought
<1>5. \A k \in S : StartsWith(k, prefix) => k \in from_
  BY SeekReaches
<1> HIDE DEF from_, q, N
<1>6. q \in Seq(from_) /\ Len(q) = N /\ \A i \in 1..N : q[i] \in from_
  BY <1>2
<1> DEFINE Stop(i) == i = N \/ ~StartsWith(q[i + 1], prefix)
           T == {i \in 0..N : Stop(i)}
           End(n) == n \in 0..N /\ Stop(n) /\ \A m \in 0..(n - 1) : ~Stop(m)
<1>7. \E n : End(n)
  <2>1. N \in T /\ T \subseteq Nat
    BY <1>2
  <2>2. PICK n \in T : \A j \in T : <<j, n>> \notin OpToRel(<, Nat)
    <3> HIDE DEF T
    <3> QED BY <2>1, NatLessThanWellFounded, WFMin, Zenon
  <2>3. \A j \in T : ~(j < n)
    BY <2>1, <2>2 DEF OpToRel
  <2>4. n \in 0..N /\ Stop(n)
    BY <2>2
  <2>5. ASSUME NEW m \in 0..(n - 1) PROVE ~Stop(m)
    <3>1. m \in 0..N /\ m < n
      BY <1>2, <2>4
    <3> HIDE DEF Stop
    <3> QED BY <2>3, <3>1
  <2> QED BY <2>4, <2>5
<1>8. PICK n : n = CHOOSE i \in 0..N : Stop(i) /\ \A m \in 0..(i - 1) : ~Stop(m)
  OBVIOUS
<1>9. End(n)
  <2> HIDE DEF Stop
  <2> QED BY <1>7, <1>8, Zenon
<1>10. Iterate(S, prefix) = SubSeq(q, 1, n)
  BY <1>4, <1>6, <1>8 DEF Iterate
<1>11. n \in 0..N /\ n \in Nat
  BY <1>2, <1>9
<1>12. PICK w \in Seq(S) : /\ w = Iterate(S, prefix) /\ Len(w) = n /\ DOMAIN w = 1..n
                           /\ \A i \in 1..n : w[i] = q[i]
  <2>1. SubSeq(q, 1, n) = [i \in 1..n |-> q[i]]
    BY <1>2, <1>6, <1>11
  <2>2. \A i \in 1..n : q[i] \in S
    BY <1>2, <1>3, <1>6, <1>11
  <2>3. [i \in 1..n |-> q[i]] \in Seq(S)
    BY <1>11, <2>2
  <2>4. PICK f : f = [i \in 1..n |-> q[i]]
    OBVIOUS
  <2>5. f \in Seq(S) /\ Len(f) = n /\ DOMAIN f = 1..n /\ \A i \in 1..n : f[i] = q[i]
    BY <1>11, <2>3, <2>4
  <2> QED BY <1>10, <2>1, <2>4, <2>5
<1>13. IsInjective(w)
  <2> SUFFICES ASSUME NEW i \in 1..n, NEW j \in 1..n, w[i] = w[j], i # j
               PROVE  FALSE
    BY <1>12 DEF IsInjective
  <2>1. i \in 1..N /\ j \in 1..N /\ q[i] = q[j]
    BY <1>2, <1>11, <1>12
  <2>2. i < j \/ j < i
    BY <1>11
  <2>3. PICK k \in from_ : q[i] = k
    BY <1>6, <2>1
  <2>4. Before(k, k)
    BY <1>2, <2>1, <2>2, <2>3
  <2> QED BY <1>3, <2>4, BeforeIrreflexive
<1>14. ASSUME NEW i \in 1..n
       PROVE  w[i] \in S /\ StartsWith(w[i], prefix)
  <2>1. i - 1 \in 0..(n - 1) /\ (i - 1) + 1 = i
    BY <1>11
  <2>2. ~Stop(i - 1)
    BY <1>9, <2>1
  <2> QED BY <1>12, <2>1, <2>2
<1>15. ASSUME NEW k \in S, StartsWith(k, prefix)
       PROVE  \E i \in 1..n : w[i] = k
  <2>1. PICK i \in 1..N : q[i] = k
    BY <1>2, <1>5, <1>15
  <2>2. i <= n
    <3> SUFFICES ASSUME n < i PROVE FALSE
      BY <1>11
    <3>1. n + 1 \in 1..N /\ n # N /\ n + 1 <= i
      BY <1>2, <1>11
    <3>2. ~StartsWith(q[n + 1], prefix)
      BY <1>9, <3>1
    <3>3. PICK a \in from_ : a = q[n + 1]
      BY <1>6, <3>1
    <3>4. CASE n + 1 = i
      BY <1>15, <2>1, <3>2, <3>4
    <3>5. CASE n + 1 < i
      <4>1. Before(a, k)
        BY <1>2, <2>1, <3>1, <3>3, <3>5
      <4>2. StartsWith(a, prefix)
        BY <1>3, <1>15, <4>1, PrefixTogether
      <4> QED BY <3>2, <3>3, <4>2
    <3> QED BY <1>11, <3>1, <3>4, <3>5
  <2> QED BY <1>11, <1>12, <2>1, <2>2
<1>16. ToSet(w) = {k \in S : StartsWith(k, prefix)}
  <2>1. ToSet(w) = {w[i] : i \in 1..n}
    BY <1>12 DEF ToSet
  <2> QED BY <1>14, <1>15, <2>1
<1> QED BY <1>12, <1>13, <1>16

\* Whatever the iterator makes of the prefix extractor, a shard lists the keys it
\* stores that start with the prefix.
LEMMA ShardLists ==
  ASSUME NEW S \in SUBSET Seq(Int), IsFiniteSet(S), NEW prefix \in Seq(Int),
         NEW keys \in Visible(S, prefix)
  PROVE  /\ Iterate(keys, prefix) \in Seq(S)
         /\ IsInjective(Iterate(keys, prefix))
         /\ ToSet(Iterate(keys, prefix)) = {k \in S : StartsWith(k, prefix)}
<1>1. keys \in SUBSET S
  BY DEF Visible
<1>2. keys \in SUBSET Seq(Int) /\ IsFiniteSet(keys)
  BY <1>1, FS_Subset
<1>3. ASSUME NEW k \in S, StartsWith(k, prefix)
      PROVE  k \in keys
  <2>1. CASE ~InDomain(prefix)
    BY <2>1 DEF Visible
  <2>2. CASE InDomain(prefix)
    <3>1. InDomain(k) /\ Transform(k) = Transform(prefix)
      BY <1>3, <2>2, PrefixShared
    <3> QED BY <2>2, <3>1 DEF Visible
  <2> QED BY <2>1, <2>2
<1>4. {k \in keys : StartsWith(k, prefix)} = {k \in S : StartsWith(k, prefix)}
  BY <1>1, <1>3
<1>5. PICK w \in Seq(keys) :
        /\ w = Iterate(keys, prefix) /\ IsInjective(w)
        /\ ToSet(w) = {k \in keys : StartsWith(k, prefix)}
  BY <1>2, IterateLists
<1>6. w \in Seq(S)
  BY <1>1
<1> QED BY <1>4, <1>5, <1>6

-----------------------------------------------------------------------------
(* GetAll, from the shards to the client. *)

\* The first n entries of a list.
LEMMA StartOfList ==
  ASSUME NEW A, NEW list \in Seq(A), NEW n \in 0..Len(list)
  PROVE  \E part \in Seq(A) :
           /\ part = SubSeq(list, 1, n) /\ DOMAIN part = 1..n
           /\ \A i \in 1..n : part[i] = list[i] /\ i \in DOMAIN list
<1>1. Len(list) \in Nat /\ n \in Nat
  OBVIOUS
<1>2. SubSeq(list, 1, n) = [i \in 1..n |-> list[i]]
  BY <1>1
<1>3. PICK f : f = [i \in 1..n |-> list[i]]
  OBVIOUS
<1>4. \A i \in 1..n : list[i] \in A /\ i \in DOMAIN list
  BY <1>1
<1>5. f \in Seq(A) /\ DOMAIN f = 1..n /\ \A i \in 1..n : f[i] = list[i]
  BY <1>1, <1>3, <1>4
<1> QED BY <1>2, <1>3, <1>4, <1>5

\* Strings are sequences of integers.
LEMMA StringsAreSequences ==
  /\ DbKeys \in SUBSET Seq(Int) /\ PrefixSet \in SUBSET Seq(Int)
  /\ \A keys \in Seq(DbKeys) : keys \in Seq(Seq(Byte))
<1>1. \A q \in Seq(Byte) : q \in Seq(Int)
  <2> SUFFICES ASSUME NEW q \in Seq(Byte) PROVE q \in Seq(Int)
    OBVIOUS
  <2>1. Len(q) \in Nat /\ q = [i \in 1..Len(q) |-> q[i]]
        /\ \A i \in 1..Len(q) : q[i] \in Byte
    OBVIOUS
  <2>2. \A i \in 1..Len(q) : q[i] \in Int
    <3>1. \A x \in Byte : x \in Int
      BY DEF Byte
    <3> QED BY <2>1, <3>1
  <2>3. [i \in 1..Len(q) |-> q[i]] \in Seq(Int)
    BY <2>1, <2>2
  <2> QED BY <2>1, <2>3
<1>2. \A k \in DbKeys \cup PrefixSet : k \in Seq(Byte)
  <2>1. 115 \in Byte /\ 104 \in Byte /\ 97 \in Byte /\ 114 \in Byte /\ 100 \in Byte
        /\ 95 \in Byte /\ 105 \in Byte
    BY DEF Byte
  <2>2. kShardIdKey \in Seq(Byte)
    BY <2>1 DEF kShardIdKey
  <2> QED BY <2>2, Strings DEF DbKeys
<1>3. ASSUME NEW keys \in Seq(DbKeys)
      PROVE  keys \in Seq(Seq(Byte))
  <2>1. Len(keys) \in Nat /\ keys = [i \in 1..Len(keys) |-> keys[i]]
        /\ \A i \in 1..Len(keys) : keys[i] \in DbKeys
    OBVIOUS
  <2>2. \A i \in 1..Len(keys) : keys[i] \in Seq(Byte)
    BY <1>2, <2>1
  <2>3. [i \in 1..Len(keys) |-> keys[i]] \in Seq(Seq(Byte))
    BY <2>1, <2>2
  <2> QED BY <2>1, <2>3
<1> QED BY <1>1, <1>2, <1>3

\* A list of keys is read as what was written, within its size.
LEMMA ListRead ==
  ASSUME AllKeysFit, NEW keys \in Seq(DbKeys), AtMostAll(keys)
  PROVE  LET p == GetAllResponsePacket(Ok, keys)
             r == CreateResponsePacket(ToBinary(p))
         IN /\ r.status = Ok /\ r.keys = keys
            /\ Len(p.payload) <= p.size /\ r.end <= p.size + 4
<1>1. PICK p : p = GetAllResponsePacket(Ok, keys)
  OBVIOUS
<1>2. Fits(p.size) /\ keys \in Seq(Seq(Byte))
  BY <1>1, StringsAreSequences DEF AllKeysFit
<1>3. PICK message \in Seq(Byte) : message = <<79, 75>> /\ Len(message) = 2
  BY Statuses
<1>4. Ok = [code |-> kOk, message |-> message] /\ kOk \in Byte
  BY <1>3, Statuses DEF Ok
<1>5. /\ Len(p.payload) <= p.size
      /\ CreateResponsePacket(ToBinary(p))
           = [op |-> kGetAll, status |-> [code |-> kOk, message |-> message],
              keys |-> keys, end |-> p.size + Len(message)]
  <2>1. Len(message) <= 4 /\ p = GetAllResponsePacket([code |-> kOk, message |-> message], keys)
    BY <1>1, <1>3, <1>4
  <2> QED BY ONLY <1>2, <1>4, <2>1, GetAllResponseRead
<1>6. p.size \in Nat
  <2>1. PICK sum \in [0..Len(keys) -> Nat] : SumSizes(keys) = sum[Len(keys)]
    BY <1>2, SizesAdded
  <2>2. SumSizes(keys) \in Nat
    BY <2>1
  <2> QED BY <1>1, <2>2 DEF GetAllResponsePacket, Packet, ResponseHeaderSize
<1>7. p.size + Len(message) <= p.size + 4
  BY <1>3, <1>6
<1> QED BY <1>1, <1>4, <1>5, <1>7

\* A list without repetitions is one that fits.
LEMMA ListFits ==
  ASSUME NEW keys \in Seq(DbKeys), IsInjective(keys)
  PROVE  AtMostAll(keys)
<1>1. \A k : Times(k, keys) = IF k \in ToSet(keys) THEN 1 ELSE 0
  BY TimesOnce
<1>2. NumShards \in Nat /\ 1 <= NumShards
  BY NumShardsAssumption
<1> QED BY <1>1, <1>2 DEF AtMostAll

\* At first only shard_id is stored, at every shard.
LEMMA ListInit ==
  ASSUME Init
  PROVE  ListInv
<1>1. RequestInv
  BY RequestInit
<1>2. Sharded
  BY SavedIdAssumption DEF Init, Sharded, DbKeys
<1>3. Listing
  BY DEF Init, Listing
<1> QED BY <1>1, <1>2, <1>3 DEF ListInv

\* Where nothing is stored or deleted, keys stay where they are.
LEMMA ShardedKept ==
  ASSUME Sharded, UNCHANGED <<store, latest>>
  PROVE  Sharded'
BY DEF Sharded, HasShard, ShardOf

\* The proxy sends the GetAll to all shards, none of which has answered yet.
LEMMA DispatchLists ==
  ASSUME ListInv, Dispatch
  PROVE  Listing'
<1> USE DEF ListInv, RequestInv
<1>1. /\ pc = "proxy" /\ call \in Commands /\ wire = Encoded(call)
      /\ from = NoPackets
  BY DEF Dispatch, Journey
<1>2. /\ CreateCommandPacket(ToBinary(wire)).op = call.op /\ wire # NoPacket
  BY <1>1, CommandRead
<1>3. wire' = NoPacket /\ from' = from /\ call' = call /\ pc' # "client"
  BY DEF Dispatch
<1>4. ASSUME call.op = kGetAll, NEW s \in Shards
      PROVE  to'[s] # NoPacket /\ from'[s] = NoPacket
  <2>1. to' = [t \in Shards |-> IF t \in Shards THEN wire ELSE NoPacket]
    BY <1>2, <1>4 DEF Dispatch
  <2> QED BY <1>1, <1>2, <1>3, <2>1 DEF NoPackets
<1> QED BY <1>3, <1>4 DEF Listing

\* A shard that handles a GetAll answers with the list of its keys, or with the
\* first of them.
LEMMA ListMade ==
  ASSUME AllKeysFit, ListInv, NEW s \in Shards, Handle(s), call.op = kGetAll
  PROVE  /\ UNCHANGED <<store, latest>>
         /\ \E keys : /\ from' = [from EXCEPT ![s] = GetAllResponsePacket(Ok, keys)]
                      /\ ListOf(keys, s)'
         /\ \A t \in Shards \ {s} : t \in cut' <=> t \in cut
<1> USE DEF ListInv
<1> DEFINE Sent(list) ==
        \/ /\ cut' = cut
           /\ from' = [from EXCEPT ![s] = GetAllResponsePacket(Ok, list)]
        \/ /\ cut' = cut \cup {s}
           /\ \E n \in 0..Len(list) :
                from' = [from EXCEPT ![s] =
                           GetAllResponsePacket(Ok, SubSeq(list, 1, n))]
<1>0. PICK keys \in Visible(Stored(s), call.key) :
        Sent(Iterate(keys, call.key))
  BY HandleAll
<1>1. call \in Commands /\ call' = call
  BY DEF Handle, RequestInv, Journey
<1>2. PICK list : list = Iterate(keys, call.key) /\ Sent(list)
  BY <1>0
<1>3. UNCHANGED <<store, latest>>
  BY HandleAll
<1>4. Stored(s) \in SUBSET DbKeys /\ Stored(s) \in SUBSET Seq(Int)
  BY StringsAreSequences DEF Stored
<1>5. IsFiniteSet(Stored(s))
  <2>1. IsFiniteSet(DbKeys)
    BY FS_AddElement DEF AllKeysFit, DbKeys
  <2> QED BY <1>4, <2>1, FS_Subset
<1>6. call.key \in Seq(Int)
  BY <1>1, CommandKinds, StringsAreSequences DEF DbKeys
<1>7. /\ list \in Seq(DbKeys) /\ IsInjective(list)
      /\ ToSet(list) = {k \in Stored(s) : StartsWith(k, call.key)}
  <2>1. PICK w \in Seq(Stored(s)) :
          /\ w = Iterate(keys, call.key) /\ IsInjective(w)
          /\ ToSet(w) = {k \in Stored(s) : StartsWith(k, call.key)}
    BY <1>4, <1>5, <1>6, ShardLists
  <2>2. w \in Seq(DbKeys)
    BY <1>4
  <2> QED BY <1>2, <2>1, <2>2
<1>8. Stored(s)' = Stored(s)
  BY <1>3 DEF Stored
<1>9. CASE /\ cut' = cut
           /\ from' = [from EXCEPT ![s] = GetAllResponsePacket(Ok, list)]
  <2>1. ListOf(list, s)'
    BY <1>1, <1>7, <1>8 DEF ListOf
  <2> QED BY <1>3, <1>9, <2>1
<1>10. CASE /\ cut' = cut \cup {s}
            /\ \E n \in 0..Len(list) :
                 from' = [from EXCEPT ![s] =
                            GetAllResponsePacket(Ok, SubSeq(list, 1, n))]
  <2>1. PICK n \in 0..Len(list) :
          from' = [from EXCEPT ![s] = GetAllResponsePacket(Ok, SubSeq(list, 1, n))]
    BY <1>10
  <2>2. PICK part \in Seq(DbKeys) :
          /\ part = SubSeq(list, 1, n) /\ DOMAIN part = 1..n
          /\ \A i \in 1..n : part[i] = list[i] /\ i \in DOMAIN list
    BY <1>7, StartOfList
  <2>3. IsInjective(part) /\ \A k \in ToSet(part) : k \in ToSet(list)
    BY <1>7, <2>2 DEF IsInjective, ToSet
  <2>4. ListOf(part, s)'
    BY <1>1, <1>7, <1>8, <1>10, <2>3 DEF ListOf
  <2> QED BY <1>3, <1>10, <2>1, <2>2, <2>4
<1> QED BY <1>2, <1>9, <1>10

\* So every shard has the GetAll, or the list for it.
LEMMA HandleLists ==
  ASSUME AllKeysFit, ListInv, NEW s \in Shards, Handle(s)
  PROVE  Sharded' /\ Listing'
<1> USE DEF ListInv
<1>1. /\ pc = "shards" /\ pc' = "shards" /\ call' = call /\ wire' = wire
      /\ to' = [to EXCEPT ![s] = NoPacket] /\ call \in Commands
      /\ to \in [Shards -> {NoPacket, Encoded(call)}] /\ DOMAIN from = Shards
      /\ to[s] # NoPacket
  BY DEF Handle, RequestInv, Journey
<1>2. wire' = NoPacket
  BY <1>1 DEF Listing
<1>3. CASE call.op = kGetAll
  <2>1. PICK keys : /\ from' = [from EXCEPT ![s] = GetAllResponsePacket(Ok, keys)]
                    /\ ListOf(keys, s)'
    BY <1>3, ListMade
  <2>2. UNCHANGED <<store, latest>> /\ \A t \in Shards \ {s} : t \in cut' <=> t \in cut
    BY <1>3, ListMade
  <2>3. ASSUME NEW t \in Shards
        PROVE  IF to'[t] # NoPacket THEN from'[t] = NoPacket
               ELSE \E l : ListOf(l, t)' /\ from'[t] = GetAllResponsePacket(Ok, l)
    <3>1. CASE t = s
      <4>1. to'[t] = NoPacket /\ from'[t] = GetAllResponsePacket(Ok, keys)
        BY <1>1, <2>1, <3>1
      <4> QED BY <2>1, <3>1, <4>1
    <3>2. CASE t # s
      <4>1. to'[t] = to[t] /\ from'[t] = from[t]
        BY <1>1, <2>1, <3>2
      <4>2. \A l : ListOf(l, t) => ListOf(l, t)'
        BY <1>1, <2>2, <3>2 DEF ListOf, Stored
      <4> QED BY <1>1, <1>3, <4>1, <4>2 DEF Listing
    <3> QED BY <3>1, <3>2
  <2>4. Listing'
    BY <1>1, <1>2, <2>3 DEF Listing
  <2> QED BY <2>2, <2>4, ShardedKept
<1>4. CASE call.op # kGetAll
  <2>1. s = ShardOf(call.key) /\ HasShard(call.key) /\ call.key \in KeySet
    <3>1. AtShard
      BY <1>1, <1>4 DEF RequestInv, Journey
    <3> QED BY <1>1, <1>4, <3>1, HandleOne, CommandKinds DEF AtShard
  <2>2. PICK v \in ValueSet \cup {Absent} :
          /\ store' = [store EXCEPT ![s] = [@ EXCEPT ![call.key] = v]]
          /\ latest' = [latest EXCEPT ![call.key] = v]
    BY <1>4, HandleOne
  <2>3. /\ store \in [Shards -> [DbKeys -> ValueSet \cup {Absent, SavedId}]]
        /\ latest \in [KeySet -> ValueSet \cup {Absent}]
    BY DEF RequestInv, TypeOK
  <2>4. ASSUME NEW t \in Shards, NEW k \in DbKeys, store'[t][k] # Absent,
               k # kShardIdKey
        PROVE  HasShard(k) /\ t = ShardOf(k)
    <3>1. CASE t = s /\ k = call.key
      BY <2>1, <3>1
    <3>2. CASE ~(t = s /\ k = call.key)
      <4>1. store'[t][k] = store[t][k]
        BY <2>2, <2>3, <3>2
      <4> QED BY <2>4, <4>1 DEF Sharded
    <3> QED BY <3>1, <3>2
  <2>7. ASSUME NEW t \in Shards
        PROVE  store'[t][kShardIdKey] # Absent
    <3>1. call.key # kShardIdKey /\ kShardIdKey \in DbKeys
      BY <2>1, ShardIdThrows DEF HasShard, DbKeys
    <3>2. store'[t][kShardIdKey] = store[t][kShardIdKey]
      BY <2>2, <2>3, <3>1
    <3> QED BY <3>2 DEF Sharded
  <2>5. ASSUME NEW k \in KeySet, latest'[k] # Absent
        PROVE  HasShard(k)
    <3>1. CASE k = call.key
      BY <2>1, <3>1
    <3>2. CASE k # call.key
      BY <2>2, <2>3, <2>5, <3>2 DEF Sharded
    <3> QED BY <3>1, <3>2
  <2>6. Sharded'
    BY <2>4, <2>5, <2>7 DEF Sharded, HasShard, ShardOf
  <2> QED BY <1>1, <1>2, <1>4, <2>6 DEF Listing
<1> QED BY <1>3, <1>4

\* The lists of the shards, one behind the other, name a key that starts with the
\* prefix at most as often as it is stored, and less often only where an iterator
\* has failed.
LEMMA ListsCounted ==
  ASSUME ListInv, NEW lists \in [Shards -> Seq(DbKeys)],
         \A s \in Shards : ListOf(lists[s], s)
  PROVE  /\ InTurn(lists) \in Seq(DbKeys) /\ AtMostAll(InTurn(lists))
         /\ \A k \in ToSet(InTurn(lists)) : StartsWith(k, call.key)
         /\ \A k \in DbKeys : StartsWith(k, call.key) =>
              LET Copies == IF k = kShardIdKey THEN NumShards
                            ELSE IF latest[k] # Absent THEN 1 ELSE 0
                  Missing == Cardinality({s \in cut : store[s][k] # Absent})
              IN Times(k, InTurn(lists)) \in (Copies - Missing)..Copies
<1> USE DEF ListInv
<1>1. /\ NumShards \in Nat /\ 1 <= NumShards /\ Shards = 0..(NumShards - 1)
      /\ \A i \in 1..NumShards : i - 1 \in Shards
      /\ \A s \in Shards : s + 1 \in 1..NumShards /\ (s + 1) - 1 = s
  BY NumShardsAssumption DEF Shards
<1>2. PICK q : q = [i \in 1..NumShards |-> lists[i - 1]]
  OBVIOUS
<1>3. /\ q \in Seq(Seq(DbKeys)) /\ Len(q) = NumShards
      /\ \A i \in 1..NumShards : q[i] = lists[i - 1]
  BY <1>1, <1>2
<1>4. \A i \in 1..Len(q) : IsInjective(q[i])
  BY <1>1, <1>3 DEF ListOf
<1>5. \A s \in Shards : q[s + 1] = lists[s]
  BY <1>1, <1>3
<1>6. PICK all : all = InTurn(lists) /\ all = FlattenSeq(q)
  BY <1>2 DEF InTurn
<1> DEFINE Naming(k) == {s \in Shards : k \in ToSet(lists[s])}
           Holding(k) == {s \in Shards : store[s][k] # Absent}
           Lost(k) == {s \in cut : store[s][k] # Absent}
           Copies(k) == IF k = kShardIdKey THEN NumShards
                        ELSE IF latest[k] # Absent THEN 1 ELSE 0
<1>7. ASSUME NEW k
      PROVE  /\ all \in Seq(DbKeys) /\ Times(k, all) = Cardinality(Naming(k))
             /\ k \in ToSet(all) => \E s \in Shards : k \in ToSet(lists[s])
  <2>1. /\ FlattenSeq(q) \in Seq(DbKeys)
        /\ Times(k, FlattenSeq(q))
             = Cardinality({i \in 0..(Len(q) - 1) : k \in ToSet(q[i + 1])})
        /\ k \in ToSet(FlattenSeq(q)) => \E i \in 1..Len(q) : k \in ToSet(q[i])
    BY ONLY <1>3, <1>4, TimesTogether
  <2>2. {i \in 0..(Len(q) - 1) : k \in ToSet(q[i + 1])} = Naming(k)
    BY <1>1, <1>3, <1>5
  <2>3. k \in ToSet(all) => \E s \in Shards : k \in ToSet(lists[s])
    BY <1>1, <1>3, <1>6, <2>1
  <2> QED BY <1>6, <2>1, <2>2, <2>3
<1>8. IsFiniteSet(Shards) /\ Cardinality(Shards) = NumShards
  <2>1. /\ IsFiniteSet(0..(NumShards - 1))
        /\ Cardinality(0..(NumShards - 1))
             = IF 0 > NumShards - 1 THEN 0 ELSE NumShards - 1 - 0 + 1
    BY <1>1, FS_Interval
  <2> QED BY <1>1, <2>1
<1>9. ASSUME NEW k \in DbKeys
      PROVE  /\ IsFiniteSet(Holding(k)) /\ Cardinality(Holding(k)) = Copies(k)
             /\ Copies(k) \in Nat
             /\ Copies(k) <= IF k = kShardIdKey THEN NumShards ELSE 1
  <2>1. CASE k = kShardIdKey
    <3>1. Holding(k) = Shards
      BY <2>1 DEF Sharded
    <3>2. Copies(k) = NumShards
      BY <2>1
    <3> HIDE DEF Holding, Copies
    <3> QED BY <1>1, <1>8, <2>1, <3>1, <3>2
  <2>2. CASE k # kShardIdKey
    <3>1. k \in KeySet
      BY <2>2 DEF DbKeys
    <3>2. /\ HasShard(k) => ShardOf(k) \in Shards /\ store[ShardOf(k)][k] = latest[k]
          /\ latest[k] # Absent => HasShard(k)
          /\ \A s \in Shards : store[s][k] # Absent => HasShard(k) /\ s = ShardOf(k)
      BY <2>2, <3>1 DEF RequestInv, Current, HasShard, Sharded
    <3>3. CASE latest[k] # Absent
      <4>1. Holding(k) = {ShardOf(k)}
        BY <3>2, <3>3
      <4>2. IsFiniteSet({ShardOf(k)}) /\ Cardinality({ShardOf(k)}) = 1
        BY FS_Singleton
      <4>3. Copies(k) = 1
        BY <2>2, <3>3
      <4> HIDE DEF Holding, Copies
      <4> QED BY <2>2, <4>1, <4>2, <4>3
    <3>4. CASE latest[k] = Absent
      <4>1. Holding(k) = {}
        BY <3>2, <3>4
      <4>2. Copies(k) = 0
        BY <2>2, <3>4
      <4> HIDE DEF Holding, Copies
      <4> QED BY <2>2, <4>1, <4>2, FS_EmptySet
    <3> QED BY <3>3, <3>4
  <2> QED BY <2>1, <2>2
<1>10. ASSUME NEW k \in DbKeys
       PROVE  /\ Naming(k) \in SUBSET Holding(k) /\ Lost(k) \in SUBSET Holding(k)
              /\ StartsWith(k, call.key) => Holding(k) \ Lost(k) \in SUBSET Naming(k)
  <2>1. cut \subseteq Shards
    BY DEF RequestInv, TypeOK
  <2>2. \A s \in Shards : k \in ToSet(lists[s]) => store[s][k] # Absent
    BY DEF ListOf, Stored
  <2>3. StartsWith(k, call.key) =>
          \A s \in Shards \ cut : store[s][k] # Absent => k \in ToSet(lists[s])
    BY DEF ListOf, Stored
  <2> QED BY <2>1, <2>2, <2>3
<1> HIDE DEF Naming, Holding, Lost, Copies
<1>11. ASSUME NEW k \in DbKeys
       PROVE  /\ Times(k, all) \in Nat /\ Times(k, all) <= Copies(k)
              /\ StartsWith(k, call.key) =>
                   Copies(k) - Cardinality(Lost(k)) <= Times(k, all)
  <2>1. /\ IsFiniteSet(Naming(k)) /\ Cardinality(Naming(k)) \in Nat
        /\ Cardinality(Naming(k)) <= Copies(k)
    BY <1>9, <1>10, FS_Subset, FS_CardinalityType
  <2>2. IsFiniteSet(Lost(k)) /\ Cardinality(Lost(k)) \in Nat
    BY <1>9, <1>10, FS_Subset, FS_CardinalityType
  <2>3. ASSUME StartsWith(k, call.key)
        PROVE  Copies(k) - Cardinality(Lost(k)) <= Cardinality(Naming(k))
    <3>1. Holding(k) \cap Lost(k) = Lost(k)
      BY <1>10
    <3>2. /\ IsFiniteSet(Holding(k) \ Lost(k))
          /\ Cardinality(Holding(k) \ Lost(k))
               = Cardinality(Holding(k)) - Cardinality(Holding(k) \cap Lost(k))
      BY <1>9, FS_Difference
    <3>3. Cardinality(Holding(k) \ Lost(k)) <= Cardinality(Naming(k))
      BY <1>10, <2>1, <2>3, FS_Subset
    <3> QED BY <1>9, <3>1, <3>2, <3>3
  <2> QED BY <1>7, <2>1, <2>3
<1>12. AtMostAll(all)
  BY <1>1, <1>9, <1>11 DEF AtMostAll
<1>13. ASSUME NEW k \in ToSet(all)
       PROVE  StartsWith(k, call.key)
  BY <1>7 DEF ListOf
<1>14. ASSUME NEW k \in DbKeys, StartsWith(k, call.key)
       PROVE  Times(k, all) \in (Copies(k) - Cardinality(Lost(k)))..Copies(k)
  <2>1. Cardinality(Lost(k)) \in Nat
    BY <1>9, <1>10, FS_Subset, FS_CardinalityType
  <2> QED BY <1>9, <1>11, <1>14, <2>1
<1> QED BY <1>6, <1>7, <1>12, <1>13, <1>14 DEF Copies, Lost

\* The proxy reads the lists of the shards and sends them on in one.
LEMMA ForwardLists ==
  ASSUME AllKeysFit, ListInv, Forward, call.op = kGetAll
  PROVE  \E lists \in [Shards -> Seq(DbKeys)] :
           /\ \A s \in Shards : ListOf(lists[s], s)
           /\ wire' = GetAllResponsePacket(Ok, InTurn(lists))
<1> USE DEF ListInv
<1>1. pc = "shards" /\ \A s \in Shards : to[s] = NoPacket
  BY DEF Forward, NoPackets
<1> DEFINE Keys(s) == CreateResponsePacket(ToBinary(from[s])).keys
           lists == [s \in Shards |-> Keys(s)]
<1>2. wire' = GetAllResponsePacket(Ok, FlattenSeq([i \in 1..NumShards |-> Keys(i - 1)]))
  BY DEF Forward
<1>3. ASSUME NEW s \in Shards
      PROVE  ListOf(Keys(s), s)
  <2>1. PICK keys : ListOf(keys, s) /\ from[s] = GetAllResponsePacket(Ok, keys)
    BY <1>1 DEF Listing
  <2>2. keys \in Seq(DbKeys) /\ IsInjective(keys)
    BY <2>1 DEF ListOf
  <2>3. CreateResponsePacket(ToBinary(GetAllResponsePacket(Ok, keys))).keys = keys
    BY <2>2, ListRead, ListFits
  <2> QED BY <2>1, <2>3
<1> HIDE DEF Keys
<1>4. lists \in [Shards -> Seq(DbKeys)] /\ \A s \in Shards : ListOf(lists[s], s)
  BY <1>3 DEF ListOf
<1>5. \A i \in 1..NumShards : i - 1 \in Shards
  BY NumShardsAssumption DEF Shards
<1>6. [i \in 1..NumShards |-> lists[i - 1]] = [i \in 1..NumShards |-> Keys(i - 1)]
  BY <1>5
<1> HIDE DEF lists
<1>7. wire' = GetAllResponsePacket(Ok, InTurn(lists))
  BY <1>2, <1>6 DEF InTurn
<1> QED BY <1>4, <1>7

\* No step leaves the invariant.
LEMMA ListStep ==
  ASSUME AllKeysFit, ListInv, [Next]_vars
  PROVE  ListInv'
<1>1. RequestInv'
  BY RequestStep DEF ListInv
<1>2. CASE UNCHANGED vars
  <2>1. Sharded'
    BY <1>2, ShardedKept DEF vars, ListInv
  <2>2. Listing'
    BY <1>2 DEF vars, ListInv, Listing, ListOf, Stored
  <2> QED BY <1>1, <2>1, <2>2 DEF ListInv
<1>3. CASE Invoke
  <2>1. Sharded'
    BY <1>3, ShardedKept DEF Invoke, ListInv
  <2>2. Listing'
    BY <1>3 DEF Invoke, Listing
  <2> QED BY <1>1, <2>1, <2>2 DEF ListInv
<1>4. CASE Dispatch
  <2>1. Sharded'
    BY <1>4, ShardedKept DEF Dispatch, ListInv
  <2> QED BY <1>1, <1>4, <2>1, DispatchLists DEF ListInv
<1>5. CASE Forward
  <2>1. pc' = "client" /\ call' = call /\ UNCHANGED <<store, latest, cut>>
    BY <1>5 DEF Forward
  <2>2. Sharded'
    BY <2>1, ShardedKept DEF ListInv
  <2>3. call.op = kGetAll =>
          \E lists \in [Shards -> Seq(DbKeys)] :
            /\ \A s \in Shards : ListOf(lists[s], s)
            /\ wire' = GetAllResponsePacket(Ok, InTurn(lists))
    BY <1>5, ForwardLists
  <2>4. \A keys, s : ListOf(keys, s)' = ListOf(keys, s)
    BY <2>1 DEF ListOf, Stored
  <2>5. Listing'
    BY <2>1, <2>3, <2>4 DEF Listing
  <2> QED BY <1>1, <2>2, <2>5 DEF ListInv
<1>6. CASE Return
  <2>1. Sharded'
    BY <1>6, ShardedKept DEF Return, ListInv
  <2>2. Listing'
    BY <1>6 DEF Return, Listing
  <2> QED BY <1>1, <2>1, <2>2 DEF ListInv
<1>7. CASE \E s \in Shards : Handle(s)
  BY <1>1, <1>7, HandleLists DEF ListInv
<1> QED BY <1>2, <1>3, <1>4, <1>5, <1>6, <1>7 DEF Next

-----------------------------------------------------------------------------
(* Results. *)

\* A shard stores only values that a client has sent.
THEOREM RequestTypes == Spec => []TypeOK
BY RequestInvariant, PTL DEF RequestInv

\* Whatever the strings, the shard reads out of the bytes it gets the command
\* that the client meant (packet.cc, on both ends of the connection).
THEOREM CommandsUnderstood == Spec => []Understood
<1>1. RequestInv => Understood
  <2> SUFFICES ASSUME RequestInv, NEW s \in Shards, to[s] # NoPacket
               PROVE  LET c == CreateCommandPacket(ToBinary(to[s]))
                      IN /\ c.op = call.op /\ c.key = call.key
                         /\ call.op = kPut => c.value = call.value
    BY DEF Understood
  <2>1. pc = "shards"
    BY DEF RequestInv, Journey, NoPackets
  <2>2. to[s] = Encoded(call) /\ call \in Commands
    BY <2>1 DEF RequestInv, Journey
  <2> QED BY <2>2, CommandRead
<1> QED BY <1>1, RequestInvariant, PTL

\* Whatever the strings, keys and failures of RocksDB, the client reads the
\* error that was reported or else the last value written to its key, although
\* the shard is computed anew for each command.
THEOREM AnswersTruthful == Spec => []Truthful
<1>1. RequestInv => Truthful
  <2> SUFFICES ASSUME RequestInv, pc = "client", call.op # kGetAll
               PROVE  Truthful
    BY DEF Truthful
  <2>1. /\ TypeOK /\ failed \in ErrorMessages \cup {<<>>} /\ call \in Commands
        /\ wire = Answer
    BY DEF RequestInv, Journey
  <2> QED BY <2>1, AnswerRead DEF Truthful
<1> QED BY <1>1, RequestInvariant, PTL

\* Whatever its table and its number, a key of the form <table>_<number> finds a
\* shard: ExtractKey throws nothing and GetShardId stays within shard_servers_.
THEOREM PlainKeysFindShards == Spec => []PlainKeysServed
<1>1. RequestInv => PlainKeysServed
  <2> SUFFICES ASSUME RequestInv, pc \in {"dead", "lost"}, Plain(call.key)
               PROVE  FALSE
    BY DEF PlainKeysServed
  <2>1. call \in Commands /\ ~HasShard(call.key)
    BY DEF RequestInv, Journey
  <2>2. PICK key \in Seq(Int) : key = call.key
    BY <2>1, CommandKinds, StringsAreSequences DEF DbKeys
  <2>3. FirstUnderscore(key) \in 1..Len(key) /\ InDomain(key)
    BY <2>2, FirstExists DEF Plain
  <2>4. PICK d : d = SubSeq(key, FirstUnderscore(key) + 1, Len(key))
    OBVIOUS
  <2>5. /\ d # <<>> /\ \A i \in DOMAIN d : d[i] \in DigitChars
        /\ ValueOf(d) <= IntMax
    BY <2>2, <2>4 DEF Plain
  <2>6. d \in Seq(DigitChars)
    <3>1. d \in Seq(Int)
      BY <2>3, <2>4
    <3> QED BY <2>5, <3>1
  <2>7. ExtractKey(key) \in Nat
    BY <2>3, <2>4, <2>5, <2>6, NumberExtracted
  <2>8. ExtractKey(key) # Throws
    BY <2>7, ThrowsAssumption
  <2>9. GetShardId(ExtractKey(key), NumShards) \in Shards
    BY <2>7, NumShardsAssumption, RemainderInRange DEF Shards
  <2> QED BY <2>1, <2>2, <2>8, <2>9 DEF HasShard, ShardOf
<1> QED BY <1>1, RequestInvariant, PTL

\* As long as the keys of the deployment fit one response, no constructor of a
\* packet writes behind the size it has declared, although that of GetAll leaves
\* the message out, and no reader looks behind it (packet.cc).
THEOREM PacketsWithin == AllKeysFit => (Spec => []WithinPackets)
<1> SUFFICES ASSUME AllKeysFit
             PROVE  Spec => []WithinPackets
  OBVIOUS
<1>1. ListInv /\ [Next]_vars => ListInv'
  BY ListStep
<1>2. ListInv => WithinPackets
  <2> SUFFICES ASSUME ListInv PROVE WithinPackets
    OBVIOUS
  <2> USE DEF ListInv, RequestInv
  <2> DEFINE Within(p) == Len(p.payload) <= p.size
  <2>1. Within(NoPacket)
    BY DEF NoPacket, Packet
  <2>2. call \in Commands =>
          /\ Within(Encoded(call))
          /\ CreateCommandPacket(ToBinary(Encoded(call))).end <= Encoded(call).size + 4
    BY CommandRead
  <2>3. call \in Commands /\ call.op # kGetAll =>
          /\ Within(Answer)
          /\ CreateResponsePacket(ToBinary(Answer)).end <= Answer.size + 4
    BY AnswerRead DEF Journey
  <2>4. \A keys \in Seq(DbKeys) : AtMostAll(keys) =>
          LET p == GetAllResponsePacket(Ok, keys)
          IN Within(p) /\ CreateResponsePacket(ToBinary(p)).end <= p.size + 4
    BY ListRead
  <2> HIDE DEF Within
  <2>5. pc \in {"idle", "proxy", "shards", "client", "dead", "lost"}
    BY DEF TypeOK
  <2>6. /\ Within(wire)
        /\ pc = "proxy" => CreateCommandPacket(ToBinary(wire)).end <= wire.size + 4
        /\ pc = "client" => CreateResponsePacket(ToBinary(wire)).end <= wire.size + 4
    <3>1. pc = "client" /\ call.op = kGetAll =>
            Within(wire) /\ CreateResponsePacket(ToBinary(wire)).end <= wire.size + 4
      BY <2>4, ListsCounted DEF Listing
    <3> QED BY <2>1, <2>2, <2>3, <2>5, <3>1 DEF Journey, Listing
  <2>7. ASSUME NEW s \in Shards
        PROVE  /\ Within(to[s]) /\ Within(from[s])
               /\ call.op = kGetAll /\ from[s] # NoPacket =>
                    CreateResponsePacket(ToBinary(from[s])).end <= from[s].size + 4
    <3>1. CASE pc # "shards"
      BY <2>1, <3>1 DEF Journey, NoPackets
    <3>2. CASE pc = "shards"
      <4>1. call \in Commands /\ to[s] \in {NoPacket, Encoded(call)}
        BY <3>2 DEF Journey
      <4>2. CASE call.op = kGetAll
        <5>1. from[s] = NoPacket \/ \E keys : /\ ListOf(keys, s)
                                              /\ from[s] = GetAllResponsePacket(Ok, keys)
          BY <3>2, <4>2 DEF Listing
        <5>2. CASE from[s] = NoPacket
          BY <2>1, <2>2, <4>1, <5>2
        <5>3. CASE \E keys : /\ ListOf(keys, s)
                             /\ from[s] = GetAllResponsePacket(Ok, keys)
          <6>1. PICK keys \in Seq(DbKeys) :
                  AtMostAll(keys) /\ from[s] = GetAllResponsePacket(Ok, keys)
            BY <5>3, ListFits DEF ListOf
          <6> QED BY <2>1, <2>2, <2>4, <4>1, <6>1
        <5> QED BY <5>1, <5>2, <5>3
      <4>3. CASE call.op # kGetAll
        <5>1. AtShard
          BY <3>2, <4>3 DEF Journey
        <5>2. from[s] \in {NoPacket, Answer}
          BY <5>1 DEF AtShard
        <5> QED BY <2>1, <2>2, <2>3, <4>1, <4>3, <5>2
      <4> QED BY <4>2, <4>3
    <3> QED BY <3>1, <3>2
  <2> QED BY <2>6, <2>7 DEF WithinPackets, Within
<1> QED BY <1>1, <1>2, ListInit, PTL DEF Spec

\* As long as the keys of the deployment fit one response, GetAll gives the client
\* every key of a client that starts with its prefix once, the launcher's shard_id
\* once per shard, and no other: whatever the keys, the prefix, the number of shards
\* and the freedom that the prefix extractor leaves to RocksDB's iterators.  Keys are
\* missing only of shards whose iterator has failed, which the code does not notice
\* (KvWorker::HandleClient, ShardingProxyWorker::HandleClient).
THEOREM GetAllComplete == AllKeysFit => (Spec => []GetAllExact)
<1> SUFFICES ASSUME AllKeysFit
             PROVE  Spec => []GetAllExact
  OBVIOUS
<1>1. ListInv /\ [Next]_vars => ListInv'
  BY ListStep
<1>2. ListInv => GetAllExact
  <2> SUFFICES ASSUME ListInv, pc = "client", call.op = kGetAll
               PROVE  GetAllExact
    BY DEF GetAllExact
  <2>1. PICK lists \in [Shards -> Seq(DbKeys)] :
          /\ \A s \in Shards : ListOf(lists[s], s)
          /\ wire = GetAllResponsePacket(Ok, InTurn(lists))
    BY DEF ListInv, Listing
  <2>2. PICK all \in Seq(DbKeys) :
          /\ all = InTurn(lists) /\ AtMostAll(all)
          /\ \A k \in ToSet(all) : StartsWith(k, call.key)
          /\ \A k \in DbKeys : StartsWith(k, call.key) =>
               LET Copies == IF k = kShardIdKey THEN NumShards
                             ELSE IF latest[k] # Absent THEN 1 ELSE 0
                   Missing == Cardinality({s \in cut : store[s][k] # Absent})
               IN Times(k, all) \in (Copies - Missing)..Copies
    BY <2>1, ListsCounted
  <2>3. /\ CreateResponsePacket(ToBinary(wire)).status = Ok
        /\ CreateResponsePacket(ToBinary(wire)).keys = all
    BY <2>1, <2>2, ListRead
  <2>4. \A k \in ToSet(all) : k \in DbKeys
    BY DEF ToSet
  <2> QED BY <2>2, <2>3, <2>4 DEF GetAllExact
<1> QED BY <1>1, <1>2, ListInit, PTL DEF Spec
=============================================================================
