------------------------------- MODULE Request ------------------------------
(***************************************************************************)
(* One request at a time through a deployment, in the bytes of Packet and  *)
(* the keys of Keys: Connection encodes it, ShardingProxyWorker finds the  *)
(* shard and passes the bytes on, KvWorker (or KvRequestHandler) decodes   *)
(* it and answers, and the answer is passed on, or for GetAll decoded and  *)
(* encoded once more.  Concurrency and losses are the subject of ShardedKV.*)
(*                                                                         *)
(* Of the defects that ShardedKV names, null_buf and shard_index are taken *)
(* as corrected: a packet has a buffer of its declared size, and the shard *)
(* is shard_servers_[shard_id].                                            *)
(***************************************************************************)
EXTENDS Packet, Keys

CONSTANTS
  KeySet, ValueSet, PrefixSet,   \* the strings of the requests
  NumShards,
  ErrorMessages,   \* what ToString gives for RocksDB's failures
  NotFound,        \* what it gives for a key that is not there
  SavedId,         \* what the launcher stored under shard_id
  MaxOps,          \* bound: number of requests
  Absent           \* no value

ASSUME NumShardsAssumption == NumShards \in Nat \ {0}
ASSUME MaxOpsAssumption == MaxOps \in Nat

\* Strings hold bytes; uint32_t sizes go up to 4 GiB, these strings to 1 GiB.
MaxLength == 1073741824

ASSUME StringsAssumption ==
  \A s \in KeySet \cup ValueSet \cup PrefixSet \cup ErrorMessages \cup {NotFound} :
    s \in Seq(0..255) /\ Len(s) <= MaxLength

\* ToString begins with the kind of the failure.
ASSUME MessagesAssumption == <<>> \notin ErrorMessages

ASSUME SavedIdAssumption == SavedId # Absent

Shards == 0..(NumShards - 1)

\* "shard_id": ServerLauncher::ShakeHands has put it into every shard's RocksDB.
kShardIdKey == <<115, 104, 97, 114, 100, 95, 105, 100>>

\* The keys a shard's RocksDB may hold.
DbKeys == KeySet \cup {kShardIdKey}

Commands ==
  [op : {kGet, kDelete}, key : KeySet]
    \cup [op : {kPut}, key : KeySet, value : ValueSet]
    \cup [op : {kGetAll}, key : PrefixSet]

VARIABLES
  pc,        \* "idle", "proxy", "shards", "client": who acts next; or "dead", the
             \* proxy has ended, or "lost", its worker waits on a wrong descriptor
  call,      \* the request
  wire,      \* the packet between client and proxy
  to, from,  \* per shard: command to it, response from it
  store,     \* per shard: RocksDB
  failed,    \* history: the message of the failure RocksDB reported, or <<>>
  cut,       \* history: the shards whose iterator failed during this GetAll
  latest,    \* history: per key, the last value written
  ops

vars == <<pc, call, wire, to, from, store, failed, cut, latest, ops>>

NoPacket == Packet(0, <<>>)
NoPackets == [s \in Shards |-> NoPacket]

Init ==
  /\ pc = "idle" /\ call = [op |-> kGet, key |-> <<>>] /\ wire = NoPacket
  /\ to = NoPackets /\ from = NoPackets
  /\ store = [s \in Shards |->
                [k \in DbKeys |-> IF k = kShardIdKey THEN SavedId ELSE Absent]]
  /\ failed = <<>> /\ cut = {} /\ latest = [k \in KeySet |-> Absent] /\ ops = 0

\* Connection::Get, Put, Delete and GetAll, up to SendPacket.
Encoded(c) ==
  IF c.op = kPut THEN PutPacket(c.key, c.value) ELSE KeyPacket(c.op, c.key)

Invoke ==
  /\ pc = "idle" /\ ops < MaxOps
  /\ \E c \in Commands : call' = c /\ wire' = Encoded(c)
  /\ pc' = "proxy" /\ ops' = ops + 1 /\ failed' = <<>> /\ cut' = {}
  /\ UNCHANGED <<to, from, store, latest>>

\* ShardingProxyWorker::HandleClient, up to the first read from a shard.  An
\* exception in the worker's thread ends the proxy.
Dispatch ==
  LET c == CreateCommandPacket(ToBinary(wire))
      id == ExtractKey(c.key)
      shard == GetShardId(id, NumShards)
      Relay(S) == [s \in Shards |-> IF s \in S THEN wire ELSE NoPacket]
  IN /\ pc = "proxy"
     /\ \/ c.op = kGetAll /\ pc' = "shards" /\ to' = Relay(Shards)
        \/ c.op # kGetAll /\ id = Throws /\ pc' = "dead" /\ UNCHANGED to
        \/ /\ c.op # kGetAll /\ id # Throws /\ shard \in Shards
           /\ pc' = "shards" /\ to' = Relay({shard})
        \/ /\ c.op # kGetAll /\ id # Throws /\ shard \notin Shards
           /\ pc' = "lost" /\ UNCHANGED to
     /\ wire' = NoPacket
     /\ UNCHANGED <<call, from, store, failed, cut, latest, ops>>

-----------------------------------------------------------------------------
(* KvWorker::HandleClient. *)

\* Status(rocksdb::Status)
Ok == [code |-> kOk, message |-> <<79, 75>>]
Err(message) == [code |-> kErr, message |-> message]

\* The keys an iterator may visit from Seek(prefix) on.  With a prefix extractor
\* RocksDB guarantees those that agree with the prefix on Transform.
Visible(keys, prefix) ==
  IF ~InDomain(prefix) THEN {keys}
  ELSE LET same == {k \in keys : InDomain(k) /\ Transform(k) = Transform(prefix)}
       IN {same \cup more : more \in SUBSET (keys \ same)}

\* Keys in RocksDB's order: the i-th has i - 1 before it.
Sorted(keys) ==
  [i \in 1..Cardinality(keys) |->
     CHOOSE k \in keys : Cardinality({m \in keys : Before(m, k)}) = i - 1]

\* What lies from Seek(prefix) on.
Sought(keys, prefix) == Sorted({k \in keys : ~Before(k, prefix)})

\* Mutant: the loop does not look at the prefix.
IterateToEnd(keys, prefix) == Sought(keys, prefix)

\* for (iter->Seek(prefix); iter->Valid() && starts_with(prefix); iter->Next())
Iterate(keys, prefix) ==
  LET visited == Sought(keys, prefix)
      Stop(n) == n = Len(visited) \/ ~StartsWith(visited[n + 1], prefix)
      n == CHOOSE n \in 0..Len(visited) :
             Stop(n) /\ \A m \in 0..(n - 1) : ~Stop(m)
  IN SubSeq(visited, 1, n)

\* The lists the loop may come to.
Listed(c, db) ==
  {Iterate(keys, c.key) : keys \in Visible({k \in DbKeys : db[k] # Absent}, c.key)}

\* The store afterwards and the response, for a RocksDB that works.
Done(c, db) ==
  CASE c.op = kGet -> {<<db, IF db[c.key] = Absent
                             THEN GetResponsePacket(Err(NotFound), <<>>)
                             ELSE GetResponsePacket(Ok, db[c.key])>>}
    [] c.op = kPut ->
         {<<[db EXCEPT ![c.key] = c.value], PutResponsePacket(Ok)>>}
    [] c.op = kDelete ->
         {<<[db EXCEPT ![c.key] = Absent], PutResponsePacket(Ok)>>}
    [] c.op = kGetAll ->
         {<<db, GetAllResponsePacket(Ok, list)>> : list \in Listed(c, db)}

\* For one that fails.
NotDone(c, db, message) ==
  <<db, IF c.op = kGet THEN GetResponsePacket(Err(message), <<>>)
        ELSE PutResponsePacket(Err(message))>>

\* An iterator that fails is no longer Valid() and ends the loop; nobody looks at
\* its status(), and the response is that of a list which ends there.
CutShort(c, db) ==
  UNION {{<<db, GetAllResponsePacket(Ok, SubSeq(list, 1, n))>> : n \in 0..Len(list)} :
           list \in Listed(c, db)}

Handle(s) ==
  LET c == CreateCommandPacket(ToBinary(to[s]))
      Apply(done) ==
        /\ store' = [store EXCEPT ![s] = done[1]]
        /\ from' = [from EXCEPT ![s] = done[2]]
  IN /\ pc = "shards" /\ to[s] # NoPacket
     /\ to' = [to EXCEPT ![s] = NoPacket]
     /\ \/ /\ \E done \in Done(c, store[s]) : Apply(done)
           /\ latest' =
                CASE call.op = kPut -> [latest EXCEPT ![call.key] = call.value]
                  [] call.op = kDelete -> [latest EXCEPT ![call.key] = Absent]
                  [] OTHER -> latest
           /\ UNCHANGED <<failed, cut>>
        \/ /\ c.op # kGetAll
           /\ \E message \in ErrorMessages :
                Apply(NotDone(c, store[s], message)) /\ failed' = message
           /\ UNCHANGED <<latest, cut>>
        \/ /\ c.op = kGetAll
           /\ \E done \in CutShort(c, store[s]) : Apply(done)
           /\ cut' = cut \cup {s}
           /\ UNCHANGED <<latest, failed>>
     /\ UNCHANGED <<pc, call, wire, ops>>

-----------------------------------------------------------------------------
(* The way back. *)

\* Protocol::ForwardPacket, or the second loop of kGetAll and its response.
Forward ==
  LET Keys(s) == CreateResponsePacket(ToBinary(from[s])).keys
  IN /\ pc = "shards" /\ to = NoPackets
     /\ \/ /\ call.op # kGetAll
           /\ \E s \in Shards : from[s] # NoPacket /\ wire' = from[s]
        \/ /\ call.op = kGetAll
           /\ wire' = GetAllResponsePacket(Ok,
                        FlattenSeq([i \in 1..NumShards |-> Keys(i - 1)]))
     /\ pc' = "client" /\ from' = NoPackets
     /\ UNCHANGED <<call, to, store, failed, cut, latest, ops>>

\* Connection returns what it reads from the response.
Return ==
  /\ pc = "client"
  /\ pc' = "idle" /\ wire' = NoPacket
  /\ UNCHANGED <<call, to, from, store, failed, cut, latest, ops>>

Next ==
  \/ Invoke \/ Dispatch \/ Forward \/ Return
  \/ \E s \in Shards : Handle(s)

Spec == Init /\ [][Next]_vars

-----------------------------------------------------------------------------
(* Properties. *)

\* Every variable has the values the code can give it: what is stored is a value
\* some client sent, or the launcher's.
TypeOK ==
  /\ pc \in {"idle", "proxy", "shards", "client", "dead", "lost"}
  /\ store \in [Shards -> [DbKeys -> ValueSet \cup {Absent, SavedId}]]
  /\ latest \in [KeySet -> ValueSet \cup {Absent}] /\ cut \subseteq Shards
  /\ ops \in 0..MaxOps

\* A shard reads the command its client meant, out of the bytes that were sent.
Understood ==
  \A s \in Shards : to[s] # NoPacket =>
    LET c == CreateCommandPacket(ToBinary(to[s]))
    IN /\ c.op = call.op /\ c.key = call.key
       /\ call.op = kPut => c.value = call.value

\* No constructor writes more than the size it declared, which is the size of
\* its buffer, and no reader of a packet looks behind that size: neither the
\* client nor the proxy, which reads the command and a shard's list of keys.
WithinPackets ==
  /\ \A p \in {wire} \cup {to[s] : s \in Shards} \cup {from[s] : s \in Shards} :
       Len(p.payload) <= p.size
  /\ pc = "proxy" => CreateCommandPacket(ToBinary(wire)).end <= wire.size + 4
  /\ pc = "client" => CreateResponsePacket(ToBinary(wire)).end <= wire.size + 4
  /\ call.op = kGetAll => \A s \in Shards : from[s] # NoPacket =>
       CreateResponsePacket(ToBinary(from[s])).end <= from[s].size + 4

\* The client reads the truth: the error RocksDB reported, if it did, and else
\* the last value written to the key, at whichever shard it is.
Truthful ==
  LET r == CreateResponsePacket(ToBinary(wire))
  IN pc = "client" /\ call.op # kGetAll =>
       /\ r.op = kGet <=> call.op = kGet
       /\ r.status = IF failed # <<>> THEN Err(failed)
                     ELSE IF call.op = kGet /\ latest[call.key] = Absent
                     THEN Err(NotFound) ELSE Ok
       /\ call.op = kGet /\ r.status = Ok => r.value = latest[call.key]

\* How often a list names a key.
Times(k, keys) == Cardinality({i \in DOMAIN keys : keys[i] = k})

\* GetAll says OK and returns every client's key that starts with the prefix once,
\* the launcher's shard_id once per shard, and no other, also where RocksDB's
\* iterator promises less than all keys.  Missing are at most keys of the shards
\* whose iterator has failed: of a key, no more copies than these shards hold.
GetAllExact ==
  LET r == CreateResponsePacket(ToBinary(wire))
      Copies(k) == IF k = kShardIdKey THEN NumShards
                   ELSE IF latest[k] # Absent THEN 1 ELSE 0
      Missing(k) == Cardinality({s \in cut : store[s][k] # Absent})
  IN pc = "client" /\ call.op = kGetAll =>
       /\ r.status = Ok
       /\ \A k \in ToSet(r.keys) : k \in DbKeys /\ StartsWith(k, call.key)
       /\ \A k \in DbKeys : StartsWith(k, call.key) =>
            Times(k, r.keys) \in (Copies(k) - Missing(k))..Copies(k)

\* <table>_<number> with a number that an int can hold.
Plain(key) ==
  LET number == SubSeq(key, FirstUnderscore(key) + 1, Len(key))
  IN /\ InDomain(key) /\ number # <<>>
     /\ \A i \in DOMAIN number : number[i] \in DigitChars
     /\ ValueOf(number) <= IntMax

\* A key of the intended form always finds a shard: it neither ends the proxy
\* nor leads to a descriptor outside shard_servers_.
PlainKeysServed == pc \in {"dead", "lost"} => ~Plain(call.key)
=============================================================================
