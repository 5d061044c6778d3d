-------------------------- MODULE ShardedKVProofs ---------------------------
(***************************************************************************)
(* Proofs about ShardedKV, for every number of clients, shards, keys and   *)
(* requests, with and without the repairs: commands and their answers stay *)
(* paired, and every step of the deployment is a step of KVStore.          *)
(***************************************************************************)
EXTENDS ShardedKV, TLAPS

\* The groups of variables in the UNCHANGED conjuncts are always expanded.
USE DEF clients, proxy, wires, shards

-----------------------------------------------------------------------------
(* The inductive invariant. *)

Busy(c) == worker[c] \in {"forward", "collect"}
Waiting(c) == worker[c] \in {"none", "backlog", "read"}

\* Nothing is left of an earlier round on the connections of c's worker.
Clear(c, s) == to_shard[c][s] = None /\ reply[c][s] = None /\ from_shard[c][s] = None
Clean(c) == \A s \in Shards : Clear(c, s)

\* A worker between two rounds.
Fresh(c) ==
  /\ Waiting(c) /\ Clean(c)
  /\ packet[c] = None /\ target[c] = 0 /\ keys[c] = {} /\ cut[c] = {}

\* A client without a command under way has left nothing behind, and a worker
\* starts with nothing.
Rest(c) ==
  /\ client[c] = "none" => worker[c] = "none"
  /\ client[c] \in {"none", "ready"} \/ response[c] # None =>
       request[c] = None /\ Fresh(c)
  /\ request[c] # None => Fresh(c)
  /\ up /\ Waiting(c) => Fresh(c)

\* The command a client waits for is the one under way.
Paired(c) ==
  /\ client[c] = "wait" =>
       /\ pending[c] \in Commands
       /\ request[c] # None => request[c] = pending[c]
       /\ Busy(c) => packet[c] = pending[c]
  /\ response[c] # None => client[c] = "wait" /\ response[c].n = pending[c].n
  /\ up /\ Busy(c) => packet[c] # None

\* What a worker has sent, and what it can expect, in a round.
Forwarding(c) ==
  /\ packet[c].op # "getall"
  /\ target[c] \in Shards /\ target[c] = Position(packet[c].key)
  /\ \A s \in Shards : s # target[c] => Clear(c, s)

Collecting(c) ==
  /\ packet[c].op = "getall"
  /\ \A s \in Shards : s < target[c] => Clear(c, s)
  /\ \A k \in keys[c] : Position(k) \in Shards /\ Position(k) < target[c]
  /\ \A s \in cut[c] : s < target[c]

\* r, unless it is None, is a response to p.
Answering(r, p) ==
  r # None => r.n = p.n /\ (r.op = "getall" <=> p.op = "getall")

Answered(c, s) ==
  /\ to_shard[c][s] # None => to_shard[c][s] = packet[c]
  /\ Answering(reply[c][s], packet[c]) /\ Answering(from_shard[c][s], packet[c])

Round(c) ==
  packet[c] # None =>
    /\ worker[c] = "forward" => Forwarding(c)
    /\ worker[c] = "collect" => Collecting(c)
    /\ Busy(c) => \A s \in Shards : Answered(c, s)

\* r, unless it is None, lists only keys of shard s.
OfShard(r, s) == r # None /\ r.op = "getall" => \A k \in r.keys : Position(k) = s

\* Commands go where their key belongs, one at a time on every connection.
Routed(c, s) ==
  /\ to_shard[c][s] # None =>
       to_shard[c][s].op = "getall" \/ Position(to_shard[c][s].key) = s
  /\ reply[c][s] # None => to_shard[c][s] = None
  /\ from_shard[c][s] # None => to_shard[c][s] = None /\ reply[c][s] = None
  /\ OfShard(reply[c][s], s) /\ OfShard(from_shard[c][s], s)

\* Without a buffer nobody gets as far as to send a command.
NothingSent(c) ==
  "null_buf" \notin Repairs =>
    request[c] = None /\ ~Busy(c) /\ client[c] # "wait" /\ Clean(c)

\* What holds of a client, its worker and their connections.
OwnInv(c) ==
  /\ Rest(c) /\ Paired(c) /\ Round(c) /\ NothingSent(c)
  /\ \A s \in Shards : Routed(c, s)

\* Every shard stores only keys of its own.
Placed == \A s \in Shards, k \in Keys : db[s][k] # None => Position(k) = s

PairInv == TypeOK /\ Placed /\ \A c \in Clients : OwnInv(c)

\* Every command has a shard.
AllPlaced == "shard_index" \in Repairs /\ \A k \in Keys : IdOf[k] >= 0

\* A worker that has given up has no client that waits, or a shard is gone.
GivenUp ==
  \A c \in Clients : worker[c] \in {"stuck", "ended"} =>
    client[c] \in {"quit", "crashed", "eof"} \/ \E s \in Shards : ~alive[s]

-----------------------------------------------------------------------------
(* Shards, commands and responses. *)

\* Positions in shard_servers_.
LEMMA ShardFacts ==
  /\ \A s : s \in Shards <=> s \in Int /\ 0 <= s /\ s < NumShards
  /\ NumShards \in Nat /\ NumShards > 0 /\ 0 \in Shards
  /\ Shards \subseteq 0..NumShards
BY NumShardsAssumption DEF Shards

\* The fields of a command.
LEMMA CommandFacts ==
  ASSUME NEW p \in Commands
  PROVE  /\ p # None /\ p.n \in Nat /\ p.n \in 1..MaxOps
         /\ p.op \in {"get", "put", "delete", "getall"}
         /\ p.op # "getall" => p.key \in Keys
         /\ p.op = "put" => p.val \in Values
         /\ p.op = "getall" => p.prefix \in SUBSET Keys
<1>1. p # None
  BY NoneAssumption
<1>2. CASE p \in [n : 1..MaxOps, op : {"get", "delete"}, key : Keys]
  BY <1>1, <1>2, BoundsAssumption
<1>3. CASE p \in [n : 1..MaxOps, op : {"put"}, key : Keys, val : Values]
  BY <1>1, <1>3, BoundsAssumption
<1>4. CASE p \in [n : 1..MaxOps, op : {"getall"}, prefix : Prefixes]
  BY <1>1, <1>4, BoundsAssumption, PrefixesAssumption
<1> QED BY <1>2, <1>3, <1>4 DEF Commands

\* The fields of a response.
LEMMA ResponseFacts ==
  /\ \A r \in Responses : /\ r # None /\ r.n \in Nat
                          /\ r.op = "getall" =>
                               r.keys \in SUBSET Keys /\ r.cut \in BOOLEAN
  /\ \A n \in Nat, ks \in SUBSET Keys, b \in BOOLEAN :
       [n |-> n, op |-> "getall", keys |-> ks, cut |-> b] \in Responses
<1>1. ASSUME NEW r \in Responses
      PROVE  /\ r # None /\ r.n \in Nat
             /\ r.op = "getall" => r.keys \in SUBSET Keys /\ r.cut \in BOOLEAN
  <2>1. r # None
    BY NoneAssumption
  <2>2. CASE r \in [n : Nat, op : {"get", "put"}, status : {"ok", "err"},
                    val : Values \cup {None}]
    BY <2>1, <2>2
  <2>3. CASE r \in [n : Nat, op : {"getall"}, keys : SUBSET Keys, cut : BOOLEAN]
    BY <2>1, <2>3
  <2> QED BY <2>2, <2>3 DEF Responses
<1>2. \A n \in Nat, ks \in SUBSET Keys, b \in BOOLEAN :
        [n |-> n, op |-> "getall", keys |-> ks, cut |-> b] \in Responses
  BY DEF Responses
<1> QED BY <1>1, <1>2

Stores == [Keys -> Values \cup {None}]

\* What RocksDB does to a command: the store keeps its type, changes at the key
\* of the command at most, and the response is one to that command.
LEMMA DoneFacts ==
  ASSUME NEW p \in Commands, NEW store \in Stores, NEW done \in Done(p, store)
  PROVE  /\ done[1] \in Stores /\ done[2] \in Responses
         /\ done[2].n = p.n /\ (done[2].op = "getall" <=> p.op = "getall")
         /\ \A k \in Keys : done[1][k] # store[k] => p.op # "getall" /\ k = p.key
         /\ p.op = "getall" =>
              /\ done[1] = store
              /\ done[2].keys \subseteq {k \in p.prefix : store[k] # None}
<1> USE CommandFacts
<1>1. CASE p.op = "get"
  <2>1. done \in
         {<<store, [n |-> p.n, op |-> "get", val |-> store[p.key],
                    status |-> IF store[p.key] = None THEN "err" ELSE "ok"]>>,
          <<store, [n |-> p.n, op |-> "get", val |-> None, status |-> "err"]>>}
    BY <1>1 DEF Done
  <2>2. store[p.key] \in Values \cup {None}
    BY <1>1 DEF Stores
  <2> QED BY <1>1, <2>1, <2>2 DEF Responses
<1>2. CASE p.op = "put"
  <2>1. done \in
         {<<[store EXCEPT ![p.key] = p.val],
            [n |-> p.n, op |-> "put", val |-> None, status |-> "ok"]>>,
          <<store, [n |-> p.n, op |-> "put", val |-> None, status |-> "err"]>>}
    BY <1>2 DEF Done
  <2>2. [store EXCEPT ![p.key] = p.val] \in Stores
    BY <1>2 DEF Stores
  <2> QED BY <1>2, <2>1, <2>2 DEF Responses, Stores
<1>3. CASE p.op = "delete"
  <2>1. done \in
         {<<[store EXCEPT ![p.key] = None],
            [n |-> p.n, op |-> "put", val |-> None, status |-> "ok"]>>,
          <<store, [n |-> p.n, op |-> "put", val |-> None, status |-> "err"]>>}
    BY <1>3 DEF Done
  <2>2. [store EXCEPT ![p.key] = None] \in Stores
    BY <1>3 DEF Stores
  <2> QED BY <1>3, <2>1, <2>2 DEF Responses, Stores
<1>4. CASE p.op = "getall"
  <2>1. PICK all : all = {k \in p.prefix : store[k] # None}
    OBVIOUS
  <2>2. done \in {<<store, [n |-> p.n, op |-> "getall", keys |-> some,
                            cut |-> some # all]>> : some \in SUBSET all}
    BY <1>4, <2>1 DEF Done
  <2>3. PICK some \in SUBSET all :
          done = <<store, [n |-> p.n, op |-> "getall", keys |-> some,
                           cut |-> some # all]>>
    BY <2>2
  <2>4. some \in SUBSET Keys /\ (some # all) \in BOOLEAN
    BY <1>4, <2>1
  <2>5. done[2] \in Responses
    BY <2>3, <2>4, ResponseFacts
  <2> QED BY <1>4, <2>1, <2>3, <2>5
<1> QED BY <1>1, <1>2, <1>3, <1>4

-----------------------------------------------------------------------------
(* Type correctness. *)

\* Position gives an integer.
LEMMA PositionInt ==
  ASSUME NEW k \in Keys
  PROVE  /\ Position(k) \in Int
         /\ AllPlaced => Position(k) \in Shards
<1>1. IdOf[k] \in Int /\ NumShards \in Nat /\ NumShards > 0
  BY IdOfAssumption, ShardFacts
<1>2. \A a \in Int : a % NumShards \in 0..(NumShards - 1)
  BY <1>1
<1>3. CRem(IdOf[k], NumShards) \in Int
  <2>1. (-IdOf[k]) \in Int
    BY <1>1
  <2>2. (-IdOf[k]) % NumShards \in Int /\ IdOf[k] % NumShards \in Int
    BY <1>1, <1>2, <2>1
  <2> QED BY <2>2 DEF CRem
<1>4. IdOf[k] >= 0 => CRem(IdOf[k], NumShards) \in Shards
  BY <1>1, <1>2 DEF CRem, Shards
<1>5. Position(k) \in Int
  BY <1>3 DEF Position, GetShardId
<1>6. AllPlaced => Position(k) = CRem(IdOf[k], NumShards) /\ IdOf[k] >= 0
  BY DEF AllPlaced, Position, GetShardId
<1> QED BY <1>4, <1>5, <1>6

WorkerStates ==
  {"none", "backlog", "read", "forward", "collect", "stuck", "ended"}

\* What the threads do to a worker and to the connections to the shards keeps
\* them within their types.
LEMMA BecomeType ==
  ASSUME TypeOK, NEW c \in Clients, NEW state \in WorkerStates
  PROVE  Become(c, state) =>
           /\ worker' \in [Clients -> WorkerStates] /\ worker'[c] = state
           /\ \A d \in Clients : d # c => worker'[d] = worker[d]
BY DEF Become, TypeOK, WorkerStates

\* A write that fails ends the worker, or with SIGPIPE the proxy.
LEMMA WriteFailsType ==
  ASSUME TypeOK, NEW c \in Clients, WriteFails(c)
  PROVE  /\ worker' \in [Clients -> WorkerStates] /\ up' \in BOOLEAN
         /\ \A d \in Clients : d # c => worker'[d] = worker[d]
         /\ \/ worker'[c] = "ended" /\ up' = up
            \/ worker'[c] = worker[c] /\ up' = FALSE
<1>1. CASE Become(c, Failure) /\ UNCHANGED up
  <2>1. Failure \in WorkerStates /\ Failure = "ended"
    BY DEF Failure, WorkerStates
  <2> QED BY <1>1, <2>1, BecomeType DEF TypeOK
<1>2. CASE up' = FALSE /\ UNCHANGED worker
  BY <1>2 DEF TypeOK, WorkerStates
<1> QED BY <1>1, <1>2 DEF WriteFails

\* A command is written to the shards that live.
LEMMA RelayFacts ==
  ASSUME TypeOK, NEW c \in Clients, NEW S, Relay(c, S)
  PROVE  /\ to_shard' \in [Clients -> [Shards -> Commands \cup {None}]]
         /\ \A d \in Clients : d # c => to_shard'[d] = to_shard[d]
         /\ \A s \in Shards :
              to_shard'[c][s] = IF s \in S /\ alive[s] THEN request[c]
                                ELSE to_shard[c][s]
BY DEF Relay, TypeOK

\* A round that is over.
LEMMA RoundEndsFacts ==
  ASSUME TypeOK, NEW c \in Clients, RoundEnds(c)
  PROVE  /\ packet' \in [Clients -> Commands \cup {None}]
         /\ target' \in [Clients -> 0..NumShards]
         /\ keys' \in [Clients -> SUBSET Keys] /\ cut' \in [Clients -> SUBSET Shards]
         /\ packet'[c] = None /\ target'[c] = 0 /\ keys'[c] = {} /\ cut'[c] = {}
         /\ \A d \in Clients : d # c =>
              /\ packet'[d] = packet[d] /\ target'[d] = target[d]
              /\ keys'[d] = keys[d] /\ cut'[d] = cut[d]
BY ShardFacts DEF RoundEnds, TypeOK

\* A response is read from a shard.
LEMMA TakeFacts ==
  ASSUME TypeOK, NEW c \in Clients, NEW s \in Shards, Take(c, s)
  PROVE  /\ from_shard' \in [Clients -> [Shards -> Responses \cup {None}]]
         /\ \A d \in Clients : d # c => from_shard'[d] = from_shard[d]
         /\ from_shard'[c][s] = None
         /\ \A t \in Shards : t # s => from_shard'[c][t] = from_shard[c][t]
BY DEF Take, TypeOK

\* A response that is written to a client, or not.
LEMMA ReplyFacts ==
  ASSUME TypeOK, NEW c \in Clients, NEW resp \in Responses, Reply(c, resp)
  PROVE  /\ response' \in [Clients -> Responses \cup {None}]
         /\ worker' \in [Clients -> WorkerStates] /\ up' \in BOOLEAN
         /\ \A d \in Clients : d # c => worker'[d] = worker[d] /\ response'[d] = response[d]
         /\ \/ client[c] = "wait" /\ response'[c] = resp
            \/ client[c] # "wait" /\ response'[c] = response[c]
         /\ \/ worker'[c] = "read" /\ up' = up
            \/ client[c] # "wait" /\ worker'[c] = "ended" /\ up' = up
            \/ client[c] # "wait" /\ worker'[c] = worker[c] /\ up' = FALSE
<1>1. CASE /\ response' = IF client[c] = "wait" THEN [response EXCEPT ![c] = resp]
                          ELSE response
           /\ Become(c, "read") /\ UNCHANGED up
  <2>1. "read" \in WorkerStates
    BY DEF WorkerStates
  <2>2. /\ worker' \in [Clients -> WorkerStates] /\ worker'[c] = "read"
        /\ \A d \in Clients : d # c => worker'[d] = worker[d]
    BY <1>1, <2>1, BecomeType
  <2> QED BY <1>1, <2>2 DEF TypeOK
<1>2. CASE /\ client[c] # "wait" /\ WriteFails(c)
           /\ UNCHANGED response
  BY <1>2, WriteFailsType DEF TypeOK
<1> QED BY <1>1, <1>2 DEF Reply

-----------------------------------------------------------------------------
(* One step at a time. *)

\* A client and its worker that a step leaves alone; what a shard has not read or
\* not sent may be lost, and the proxy may end.
Untouched(d) ==
  /\ client'[d] = client[d] /\ pending'[d] = pending[d]
  /\ request'[d] = request[d] /\ response'[d] = response[d]
  /\ worker'[d] = worker[d] /\ packet'[d] = packet[d]
  /\ target'[d] = target[d] /\ keys'[d] = keys[d] /\ cut'[d] = cut[d]
  /\ \A s \in Shards : /\ to_shard'[d][s] \in {to_shard[d][s], None}
                       /\ reply'[d][s] \in {reply[d][s], None}
                       /\ from_shard'[d][s] = from_shard[d][s]
  /\ up' => up

\* A client that a step does not touch keeps its part of the invariant.
LEMMA UntouchedKeeps ==
  ASSUME NEW d \in Clients, OwnInv(d), Untouched(d)
  PROVE  OwnInv(d)'
<1> USE DEF OwnInv, Untouched
<1>0. /\ (Busy(d)' <=> Busy(d)) /\ (Waiting(d)' <=> Waiting(d))
      /\ (Clean(d) => Clean(d)') /\ \A s \in Shards : Clear(d, s) => Clear(d, s)'
  BY DEF Busy, Waiting, Clean, Clear
<1>1. Fresh(d) => Fresh(d)'
  BY <1>0 DEF Fresh
<1>2. Rest(d)'
  BY <1>0, <1>1 DEF Rest
<1>3. Paired(d)'
  BY <1>0 DEF Paired
<1>4. Round(d)'
  <2> SUFFICES ASSUME packet[d] # None
               PROVE  /\ worker[d] = "forward" => Forwarding(d)'
                      /\ worker[d] = "collect" => Collecting(d)'
                      /\ Busy(d) => \A s \in Shards : Answered(d, s)'
    BY <1>0 DEF Round
  <2>1. worker[d] = "forward" => Forwarding(d)'
    BY <1>0 DEF Round, Forwarding
  <2>2. worker[d] = "collect" => Collecting(d)'
    BY <1>0 DEF Round, Collecting
  <2>3. Busy(d) => \A s \in Shards : Answered(d, s)'
    BY DEF Round, Answered, Answering
  <2> QED BY <2>1, <2>2, <2>3
<1>5. NothingSent(d)'
  BY <1>0 DEF NothingSent
<1>6. \A s \in Shards : Routed(d, s)'
  BY DEF Routed, OfShard
<1> QED BY <1>2, <1>3, <1>4, <1>5, <1>6

\* A client connects.
LEMMA ConnectToKeeps ==
  ASSUME PairInv, NEW c \in Clients, ConnectTo(c)
  PROVE  PairInv'
<1> USE DEF PairInv
<1>1. /\ UNCHANGED <<pending, ops, up, accepting, max_fds, fds, packet, target, keys,
                     cut, wires, shards, crashes>>
      /\ client' \in [Clients -> {"none", "ready", "wait", "quit", "crashed", "eof"}]
      /\ client'[c] = "ready" /\ client[c] = "none"
      /\ \A d \in Clients : d # c => client'[d] = client[d]
  BY DEF ConnectTo, TypeOK
<1>2. /\ worker' \in [Clients -> WorkerStates] /\ worker'[c] = "backlog"
      /\ \A d \in Clients : d # c => worker'[d] = worker[d]
  BY BecomeType DEF ConnectTo, WorkerStates
<1>3. TypeOK'
  BY <1>1, <1>2 DEF TypeOK, WorkerStates
<1>4. Placed'
  BY <1>1 DEF Placed
<1>5. OwnInv(c)'
  <2>1. OwnInv(c)
    OBVIOUS
  <2>2. request[c] = None /\ Fresh(c) /\ response[c] = None
    BY <1>1, <2>1 DEF OwnInv, Rest, Paired
  <2>3. Fresh(c)' /\ ~Busy(c)' /\ Clean(c)'
    BY <1>1, <1>2, <2>2 DEF Fresh, Waiting, Clean, Busy, Clear
  <2>4. Rest(c)'
    BY <1>1, <1>2, <2>2, <2>3 DEF Rest
  <2>5. Paired(c)' /\ Round(c)' /\ NothingSent(c)'
    BY <1>1, <1>2, <2>1, <2>2, <2>3 DEF OwnInv, Paired, Round, NothingSent, Busy
  <2>6. \A s \in Shards : Routed(c, s)'
    BY <1>1, <2>1 DEF OwnInv, Routed, OfShard
  <2> QED BY <2>4, <2>5, <2>6 DEF OwnInv
<1>6. \A d \in Clients : d # c => Untouched(d)
  BY <1>1, <1>2 DEF Untouched
<1> QED BY <1>3, <1>4, <1>5, <1>6, UntouchedKeeps

\* A client sends a command, or dies of the missing buffer.
LEMMA InvokeKeeps ==
  ASSUME PairInv, NEW c \in Clients, Invoke(c)
  PROVE  PairInv'
<1> USE DEF PairInv
<1>1. /\ UNCHANGED <<proxy, response, to_shard, from_shard, shards, crashes>>
      /\ client[c] = "ready" /\ ops' \in 0..MaxOps
  BY BoundsAssumption DEF Invoke, TypeOK
<1>2. /\ client' \in [Clients -> {"none", "ready", "wait", "quit", "crashed", "eof"}]
      /\ pending' \in [Clients -> Commands \cup {None}]
      /\ request' \in [Clients -> Commands \cup {None}]
      /\ \A d \in Clients : d # c => /\ client'[d] = client[d]
                                     /\ pending'[d] = pending[d]
                                     /\ request'[d] = request[d]
      /\ \/ /\ client'[c] = "wait" /\ pending'[c] \in Commands
            /\ request'[c] = pending'[c] /\ "null_buf" \in Repairs
         \/ client'[c] = "crashed" /\ request'[c] = request[c]
  <2>1. CASE "null_buf" \in Repairs
    <3>1. PICK p \in Commands :
            /\ pending' = [pending EXCEPT ![c] = p]
            /\ request' = [request EXCEPT ![c] = p]
            /\ client' = [client EXCEPT ![c] = "wait"]
      BY <2>1 DEF Invoke
    <3> QED BY <2>1, <3>1 DEF TypeOK
  <2>2. CASE "null_buf" \notin Repairs
    BY <2>2 DEF Invoke, TypeOK
  <2> QED BY <2>1, <2>2
<1>3. TypeOK'
  BY <1>1, <1>2 DEF TypeOK
<1>4. Placed'
  BY <1>1 DEF Placed
<1>5. OwnInv(c)'
  <2>1. OwnInv(c)
    OBVIOUS
  <2>2. request[c] = None /\ Fresh(c) /\ response[c] = None
    BY <1>1, <2>1 DEF OwnInv, Rest, Paired
  <2>3. Fresh(c)' /\ ~Busy(c)' /\ Clean(c)'
    BY <1>1, <2>2 DEF Fresh, Waiting, Clean, Busy, Clear
  <2>4. Rest(c)'
    BY <1>1, <1>2, <2>2, <2>3 DEF Rest
  <2>5. Paired(c)' /\ Round(c)' /\ NothingSent(c)'
    BY <1>1, <1>2, <2>1, <2>2, <2>3 DEF OwnInv, Paired, Round, NothingSent, Busy
  <2>6. \A s \in Shards : Routed(c, s)'
    BY <1>1, <2>1 DEF OwnInv, Routed, OfShard
  <2> QED BY <2>4, <2>5, <2>6 DEF OwnInv
<1>6. \A d \in Clients : d # c => Untouched(d)
  BY <1>1, <1>2 DEF Untouched
<1> QED BY <1>3, <1>4, <1>5, <1>6, UntouchedKeeps

\* A client gets its answer, or the end of the connection, or leaves.
LEMMA ClientKeeps ==
  ASSUME PairInv, NEW c \in Clients, Return(c) \/ Eof(c) \/ Quit(c)
  PROVE  PairInv'
<1> USE DEF PairInv
<1>1. /\ UNCHANGED <<ops, proxy, request, to_shard, from_shard, shards, crashes>>
      /\ client' \in [Clients -> {"none", "ready", "wait", "quit", "crashed", "eof"}]
      /\ pending' \in [Clients -> Commands \cup {None}]
      /\ response' \in [Clients -> Responses \cup {None}]
      /\ \A d \in Clients : d # c => /\ client'[d] = client[d]
                                     /\ pending'[d] = pending[d]
                                     /\ response'[d] = response[d]
      /\ response'[c] = None
      /\ \/ client'[c] = "ready" /\ response[c] # None
         \/ client'[c] \in {"quit", "eof"}
  BY DEF Return, Eof, Quit, TypeOK
<1>2. TypeOK'
  BY <1>1 DEF TypeOK
<1>3. Placed'
  BY <1>1 DEF Placed
<1>4. OwnInv(c)'
  <2>1. OwnInv(c)
    OBVIOUS
  <2>2. /\ Fresh(c)' <=> Fresh(c)
        /\ Busy(c)' <=> Busy(c)
        /\ Waiting(c)' <=> Waiting(c)
        /\ Clean(c)' <=> Clean(c)
    BY <1>1 DEF Fresh, Waiting, Clean, Busy, Clear
  <2>3. Rest(c)'
    BY <1>1, <2>1, <2>2 DEF OwnInv, Rest
  <2>4. Paired(c)' /\ NothingSent(c)'
    BY <1>1, <2>1, <2>2 DEF OwnInv, Paired, NothingSent
  <2>5. Round(c)'
    BY <1>1, <2>1, <2>2 DEF OwnInv, Round, Forwarding, Collecting, Clear, Answered,
                            Answering
  <2>6. \A s \in Shards : Routed(c, s)'
    BY <1>1, <2>1 DEF OwnInv, Routed, OfShard
  <2> QED BY <2>3, <2>4, <2>5, <2>6 DEF OwnInv
<1>5. \A d \in Clients : d # c => Untouched(d)
  BY <1>1 DEF Untouched
<1> QED BY <1>2, <1>3, <1>4, <1>5, UntouchedKeeps

\* The proxy accepts a client, within its descriptors, or stops to accept.
LEMMA AcceptKeeps ==
  ASSUME PairInv, NEW c \in Clients, Accept(c)
  PROVE  PairInv'
<1> USE DEF PairInv
<1>1. /\ UNCHANGED <<clients, up, max_fds, packet, target, keys, cut, wires, shards,
                     crashes>>
      /\ worker[c] = "backlog" /\ up
  BY DEF Accept
<1>2. /\ fds \in Nat /\ max_fds \in Nat /\ fds <= max_fds
      /\ NumShards \in Nat /\ NumShards > 0
  BY ShardFacts, BoundsAssumption DEF TypeOK
<1>3. /\ fds' \in 0..max_fds /\ accepting' \in BOOLEAN
      /\ worker' \in [Clients -> WorkerStates]
      /\ \A d \in Clients : d # c => worker'[d] = worker[d]
      /\ worker'[c] \in {"none", "backlog", "read"}
  <2>1. CASE AcceptError
    BY <1>1, <2>1 DEF AcceptError, TypeOK, WorkerStates
  <2>2. CASE Created(c)
    <3>1. NumShards - 1 \in Shards
      BY <1>2, ShardFacts
    <3>2. ~(fds + (NumShards - 1) + 2 > max_fds)
      BY <2>2, <3>1 DEF Created, ConnectFailed
    <3>3. fds' \in 0..max_fds
      BY <1>2, <2>2, <3>2 DEF Created
    <3>4. Become(c, "read") /\ "read" \in WorkerStates /\ accepting' \in BOOLEAN
      BY <2>2 DEF Created, WorkerStates, TypeOK
    <3> QED BY <3>3, <3>4, BecomeType
  <2>3. CASE ~NoFd /\ NotCreated(c)
    <3>1. PICK s \in Shards :
            /\ accepting' = FALSE /\ Become(c, "none")
            /\ fds' = IF fds + s + 2 <= max_fds THEN fds + 2 ELSE fds + 1
      BY <2>3 DEF NotCreated
    <3>2. s \in Int /\ 0 <= s
      BY ShardFacts
    <3>3. fds < max_fds
      BY <1>2, <2>3 DEF NoFd
    <3>4. fds' \in 0..max_fds
      BY <1>2, <3>1, <3>2, <3>3
    <3>5. "none" \in WorkerStates
      BY DEF WorkerStates
    <3> QED BY <3>1, <3>4, <3>5, BecomeType
  <2> QED BY <2>1, <2>2, <2>3 DEF Accept
<1>4. TypeOK'
  BY <1>1, <1>3 DEF TypeOK, WorkerStates
<1>5. Placed'
  BY <1>1 DEF Placed
<1>6. OwnInv(c)'
  <2>1. OwnInv(c)
    OBVIOUS
  <2>2. Fresh(c) /\ Waiting(c) /\ client[c] # "none"
    BY <1>1, <2>1 DEF OwnInv, Rest, Waiting
  <2>3. Fresh(c)' /\ ~Busy(c)' /\ Clean(c)' /\ ~Busy(c)
    BY <1>1, <1>3, <2>2 DEF Fresh, Waiting, Clean, Busy, Clear
  <2>4. Rest(c)'
    BY <1>1, <2>1, <2>2, <2>3 DEF OwnInv, Rest
  <2>5. Paired(c)' /\ NothingSent(c)'
    BY <1>1, <2>1, <2>3 DEF OwnInv, Paired, NothingSent
  <2>6. Round(c)'
    BY <2>3 DEF Round, Busy
  <2>7. \A s \in Shards : Routed(c, s)'
    BY <1>1, <2>1 DEF OwnInv, Routed, OfShard
  <2> QED BY <2>4, <2>5, <2>6, <2>7 DEF OwnInv
<1>7. \A d \in Clients : d # c => Untouched(d)
  BY <1>1, <1>3 DEF Untouched
<1> QED BY <1>4, <1>5, <1>6, <1>7, UntouchedKeeps

\* What a worker has done with the command it has read: sent it to the shards in
\* S that live and begun a round, or given up.
Reads(c, S) ==
  /\ to_shard' \in [Clients -> [Shards -> Commands \cup {None}]]
  /\ \A d \in Clients : d # c => to_shard'[d] = to_shard[d]
  /\ \A s \in Shards : to_shard'[c][s] = IF s \in S /\ alive[s] THEN request[c] ELSE None
  /\ worker' \in [Clients -> WorkerStates] /\ up' \in BOOLEAN
  /\ \A d \in Clients : d # c => worker'[d] = worker[d] /\ target'[d] = target[d]
  /\ target' \in [Clients -> 0..NumShards]
  /\ \/ /\ worker'[c] = "forward" /\ up' = up /\ request[c].op # "getall"
        /\ target'[c] \in Shards /\ target'[c] = Position(request[c].key)
        /\ S = {target'[c]}
     \/ /\ worker'[c] = "collect" /\ up' = up /\ request[c].op = "getall"
        /\ target'[c] = 0 /\ S = Shards
     \/ /\ worker'[c] \in {"stuck", "ended"} /\ up' = up
        /\ S = {} \/ request[c].op = "getall"
        /\ \/ \E s \in Shards : ~alive[s]
           \/ request[c].op # "getall" /\ Position(request[c].key) \notin Shards
     \/ /\ worker'[c] = "read" /\ up' = FALSE
        /\ S = {} \/ request[c].op = "getall"

\* What the worker knows once it has read a command.
LEMMA ReadFacts ==
  ASSUME PairInv, NEW c \in Clients, ReadFromClient(c)
  PROVE  /\ UNCHANGED <<clients, accepting, max_fds, fds, keys, cut, response,
                        from_shard, shards, crashes>>
         /\ request[c] \in Commands /\ Fresh(c) /\ up /\ worker[c] = "read"
         /\ request' \in [Clients -> Commands \cup {None}]
         /\ packet' \in [Clients -> Commands \cup {None}]
         /\ request'[c] = None /\ packet'[c] = request[c]
         /\ \A d \in Clients : d # c => /\ request'[d] = request[d]
                                        /\ packet'[d] = packet[d]
         /\ \E S : Reads(c, S)
<1> USE DEF PairInv
<1>1. /\ UNCHANGED <<clients, accepting, max_fds, fds, keys, cut, response,
                     from_shard, shards, crashes>>
      /\ request[c] \in Commands /\ up /\ worker[c] = "read"
      /\ request' = [request EXCEPT ![c] = None]
      /\ packet' = [packet EXCEPT ![c] = request[c]]
  BY DEF ReadFromClient, TypeOK
<1>2. /\ request' \in [Clients -> Commands \cup {None}]
      /\ packet' \in [Clients -> Commands \cup {None}]
      /\ request'[c] = None /\ packet'[c] = request[c]
      /\ \A d \in Clients : d # c => /\ request'[d] = request[d]
                                     /\ packet'[d] = packet[d]
  BY <1>1 DEF TypeOK
<1>3. Fresh(c) /\ target[c] = 0 /\ \A s \in Shards : to_shard[c][s] = None
  <2>1. OwnInv(c) /\ request[c] # None
    BY DEF ReadFromClient
  <2> QED BY <2>1 DEF OwnInv, Rest, Fresh, Clean, Clear
<1>4. /\ to_shard \in [Clients -> [Shards -> Commands \cup {None}]]
      /\ target \in [Clients -> 0..NumShards] /\ up \in BOOLEAN
  BY DEF TypeOK
<1>w. {"forward", "collect", "stuck", "ended", "read"} \subseteq WorkerStates
  BY DEF WorkerStates
<1>5. CASE request[c].op # "getall"
  <2>1. PICK s : s = Position(request[c].key)
    OBVIOUS
  <2>2. CASE /\ s \in Shards /\ Relay(c, {s}) /\ Become(c, "forward")
             /\ target' = [target EXCEPT ![c] = s] /\ UNCHANGED up
    <3>1. /\ worker' \in [Clients -> WorkerStates] /\ worker'[c] = "forward"
          /\ \A d \in Clients : d # c => worker'[d] = worker[d]
      BY <1>w, <2>2, BecomeType
    <3>2. /\ target' \in [Clients -> 0..NumShards] /\ target'[c] = s
          /\ \A d \in Clients : d # c => target'[d] = target[d]
      BY <1>4, <2>2, ShardFacts
    <3>3. Reads(c, {s})
      BY <1>3, <1>4, <1>5, <2>1, <2>2, <3>1, <3>2, RelayFacts DEF Reads
    <3> QED BY <1>1, <1>2, <1>3, <3>3
  <2>3. CASE /\ s \in Shards /\ ~alive[s] /\ WriteFails(c)
             /\ UNCHANGED <<to_shard, target>>
    <3>1. Reads(c, {})
      BY <1>1, <1>3, <1>4, <2>3, WriteFailsType DEF Reads
    <3> QED BY <1>1, <1>2, <1>3, <3>1
  <2>4. CASE /\ s \notin Shards /\ (Become(c, "stuck") \/ Become(c, Failure))
             /\ UNCHANGED <<up, to_shard, target>>
    <3>1. /\ worker' \in [Clients -> WorkerStates] /\ worker'[c] \in {"stuck", "ended"}
          /\ \A d \in Clients : d # c => worker'[d] = worker[d]
      BY <1>w, <2>4, BecomeType DEF Failure
    <3>2. Reads(c, {})
      BY <1>3, <1>4, <1>5, <2>1, <2>4, <3>1 DEF Reads
    <3> QED BY <1>1, <1>2, <1>3, <3>2
  <2> QED BY <1>5, <2>1, <2>2, <2>3, <2>4 DEF ReadFromClient, DispatchPacket
<1>6. CASE request[c].op = "getall"
  <2>1. CASE Relay(c, Shards) /\ Become(c, "collect") /\ UNCHANGED <<up, target>>
    <3>1. /\ worker' \in [Clients -> WorkerStates] /\ worker'[c] = "collect"
          /\ \A d \in Clients : d # c => worker'[d] = worker[d]
      BY <1>w, <2>1, BecomeType
    <3>2. Reads(c, Shards)
      BY <1>3, <1>4, <1>6, <2>1, <3>1, RelayFacts DEF Reads
    <3> QED BY <1>1, <1>2, <1>3, <3>2
  <2>2. CASE \E s \in Shards :
               /\ ~alive[s] /\ Relay(c, 0..(s - 1)) /\ WriteFails(c)
               /\ UNCHANGED target
    <3>1. PICK s \in Shards :
            /\ ~alive[s] /\ Relay(c, 0..(s - 1)) /\ WriteFails(c)
            /\ UNCHANGED target
      BY <2>2
    <3>2. PICK S : S = 0..(s - 1)
      OBVIOUS
    <3>3. Relay(c, S)
      BY <3>1, <3>2
    <3>4. Reads(c, S)
      BY <1>1, <1>3, <1>4, <1>6, <3>1, <3>3, RelayFacts, WriteFailsType DEF Reads
    <3> QED BY <1>1, <1>2, <1>3, <3>4
  <2> QED BY <1>6, <2>1, <2>2 DEF ReadFromClient, DispatchGetAll
<1> QED BY <1>5, <1>6

\* The worker reads a command and sends it on.
LEMMA ReadKeeps ==
  ASSUME PairInv, NEW c \in Clients, ReadFromClient(c)
  PROVE  PairInv'
<1> USE DEF PairInv
<1>1. /\ UNCHANGED <<clients, accepting, max_fds, fds, keys, cut, response,
                     from_shard, shards, crashes>>
      /\ request[c] \in Commands /\ Fresh(c) /\ up /\ worker[c] = "read"
      /\ request' \in [Clients -> Commands \cup {None}]
      /\ packet' \in [Clients -> Commands \cup {None}]
      /\ request'[c] = None /\ packet'[c] = request[c]
      /\ \A d \in Clients : d # c => /\ request'[d] = request[d]
                                     /\ packet'[d] = packet[d]
      /\ \E S : Reads(c, S)
  BY ReadFacts
<1>2. PICK S : Reads(c, S)
  BY <1>1
<1>3. TypeOK'
  BY <1>1, <1>2 DEF TypeOK, Reads, WorkerStates
<1>4. Placed'
  BY <1>1 DEF Placed
<1>5. OwnInv(c)'
  <2>1. OwnInv(c) /\ request[c] # None
    BY <1>1, CommandFacts
  <2>2. /\ client[c] \notin {"none", "ready"} /\ response[c] = None
        /\ client'[c] = client[c] /\ response'[c] = None
    BY <1>1, <2>1 DEF OwnInv, Rest
  <2>3. \/ worker'[c] \in {"forward", "collect", "stuck", "ended"}
        \/ worker'[c] = "read" /\ ~up'
    BY <1>2 DEF Reads
  <2>4. Rest(c)'
    BY <1>1, <2>2, <2>3 DEF Rest, Waiting
  <2>5. Paired(c)'
    BY <1>1, <2>1, <2>2 DEF OwnInv, Paired
  <2>6. NothingSent(c)'
    BY <2>1 DEF OwnInv, NothingSent
  <2>7. \A s \in Shards :
          /\ from_shard'[c][s] = None /\ reply'[c][s] = None
          /\ to_shard'[c][s] = None \/ (s \in S /\ to_shard'[c][s] = request[c])
    BY <1>1, <1>2 DEF Reads, Fresh, Clean, Clear
  <2>8. \A s \in Shards : Answered(c, s)'
    BY <1>1, <2>7 DEF Answered, Answering
  <2>9. worker'[c] = "forward" => Forwarding(c)'
    BY <1>1, <1>2, <2>7 DEF Forwarding, Reads, Clear
  <2>10. worker'[c] = "collect" => Collecting(c)'
    <3>1. keys'[c] = {} /\ cut'[c] = {}
      BY <1>1, <1>2 DEF Reads, Fresh
    <3>2. worker'[c] = "collect" => packet'[c].op = "getall" /\ target'[c] = 0
      BY <1>1, <1>2 DEF Reads
    <3> QED BY <3>1, <3>2, ShardFacts DEF Collecting, Clear
  <2>11. Round(c)'
    BY <2>8, <2>9, <2>10 DEF Round
  <2>12. \A s \in Shards : Routed(c, s)'
    <3> SUFFICES ASSUME NEW s \in Shards, to_shard'[c][s] # None
                 PROVE  to_shard'[c][s].op = "getall" \/ Position(to_shard'[c][s].key) = s
      BY <2>7 DEF Routed, OfShard
    <3> QED BY <1>2, <2>7 DEF Reads
  <2> QED BY <2>4, <2>5, <2>6, <2>11, <2>12 DEF OwnInv
<1>6. \A d \in Clients : d # c => Untouched(d)
  BY <1>1, <1>2 DEF Untouched, Reads
<1> QED BY <1>3, <1>4, <1>5, <1>6, UntouchedKeeps

\* The worker has nobody to read from any more, or its shard is gone.
LEMMA GiveUpKeeps ==
  ASSUME PairInv, NEW c \in Clients, ReadEof(c) \/ ShardLost(c)
  PROVE  PairInv'
<1> USE DEF PairInv
<1>1. /\ UNCHANGED <<clients, up, accepting, max_fds, fds, wires, shards, crashes>>
      /\ worker' \in [Clients -> WorkerStates] /\ worker'[c] = "ended"
      /\ \A d \in Clients : d # c => worker'[d] = worker[d]
      /\ packet' \in [Clients -> Commands \cup {None}]
      /\ target' \in [Clients -> 0..NumShards]
      /\ keys' \in [Clients -> SUBSET Keys] /\ cut' \in [Clients -> SUBSET Shards]
      /\ \A d \in Clients : d # c =>
           /\ packet'[d] = packet[d] /\ target'[d] = target[d]
           /\ keys'[d] = keys[d] /\ cut'[d] = cut[d]
      /\ \/ Busy(c)
         \/ request[c] = None /\ response[c] = None /\ client[c] \in {"quit", "crashed"}
  <2>0. "ended" \in WorkerStates
    BY DEF WorkerStates
  <2>1. CASE ReadEof(c)
    <3>1. OwnInv(c)
      OBVIOUS
    <3>2. Become(c, "ended") /\ response[c] = None
      BY <2>1, <3>1 DEF ReadEof, OwnInv, Paired
    <3> QED BY <2>0, <2>1, <3>2, BecomeType DEF ReadEof, TypeOK
  <2>2. CASE ShardLost(c)
    <3>1. Become(c, "ended") /\ RoundEnds(c) /\ Busy(c)
      BY <2>2 DEF ShardLost, Failure, Busy
    <3> QED BY <2>0, <2>2, <3>1, BecomeType, RoundEndsFacts DEF ShardLost
  <2> QED BY <2>1, <2>2
<1>2. TypeOK'
  BY <1>1 DEF TypeOK, WorkerStates
<1>3. Placed'
  BY <1>1 DEF Placed
<1>4. OwnInv(c)'
  <2>1. OwnInv(c)
    OBVIOUS
  <2>2. /\ request[c] = None /\ response[c] = None
        /\ client[c] \notin {"none", "ready"}
    BY <1>1, <2>1 DEF OwnInv, Rest, Fresh, Busy, Waiting
  <2>3. ~Busy(c)' /\ ~Waiting(c)'
    BY <1>1 DEF Busy, Waiting
  <2>4. Rest(c)'
    BY <1>1, <2>2, <2>3 DEF Rest
  <2>5. Paired(c)' /\ Round(c)'
    BY <1>1, <2>1, <2>2, <2>3 DEF OwnInv, Paired, Round, Busy
  <2>6. NothingSent(c)'
    BY <1>1, <2>1, <2>3 DEF OwnInv, NothingSent, Clean, Clear
  <2>7. \A s \in Shards : Routed(c, s)'
    BY <1>1, <2>1 DEF OwnInv, Routed, OfShard
  <2> QED BY <2>4, <2>5, <2>6, <2>7 DEF OwnInv
<1>5. \A d \in Clients : d # c => Untouched(d)
  BY <1>1 DEF Untouched
<1> QED BY <1>2, <1>3, <1>4, <1>5, UntouchedKeeps

\* A round that ends with the response resp: nothing is left of it, and a client
\* that waits gets resp.
Replied(c, resp) ==
  /\ UNCHANGED <<clients, accepting, max_fds, fds, request, to_shard, shards, crashes>>
  /\ response' \in [Clients -> Responses \cup {None}]
  /\ worker' \in [Clients -> WorkerStates] /\ up' \in BOOLEAN
  /\ packet' \in [Clients -> Commands \cup {None}]
  /\ target' \in [Clients -> 0..NumShards]
  /\ keys' \in [Clients -> SUBSET Keys] /\ cut' \in [Clients -> SUBSET Shards]
  /\ from_shard' \in [Clients -> [Shards -> Responses \cup {None}]]
  /\ \A d \in Clients : d # c =>
       /\ worker'[d] = worker[d] /\ response'[d] = response[d]
       /\ packet'[d] = packet[d] /\ target'[d] = target[d]
       /\ keys'[d] = keys[d] /\ cut'[d] = cut[d]
       /\ from_shard'[d] = from_shard[d]
  /\ packet'[c] = None /\ target'[c] = 0 /\ keys'[c] = {} /\ cut'[c] = {}
  /\ \A s \in Shards : /\ to_shard[c][s] = None /\ reply[c][s] = None
                       /\ from_shard'[c][s] = None
  /\ \/ client[c] = "wait" /\ response'[c] = resp /\ worker'[c] = "read" /\ up' = up
     \/ /\ client[c] # "wait" /\ response'[c] = response[c]
        /\ \/ worker'[c] \in {"read", "ended"} /\ up' = up
           \/ worker'[c] = worker[c] /\ up' = FALSE

\* A worker that writes the response to its own command keeps the invariant.
LEMMA RepliedKeeps ==
  ASSUME PairInv, NEW c \in Clients, NEW resp \in Responses,
         Busy(c), up, resp.n = packet[c].n, Replied(c, resp)
  PROVE  PairInv'
<1> USE DEF PairInv
<1>1. TypeOK'
  BY DEF TypeOK, WorkerStates, Replied
<1>2. Placed'
  BY DEF Placed, Replied
<1>3. OwnInv(c)'
  <2>1. OwnInv(c)
    OBVIOUS
  <2>2. /\ request[c] = None /\ response[c] = None
        /\ client[c] \notin {"none", "ready"}
    BY <2>1 DEF OwnInv, Rest, Fresh, Busy, Waiting
  <2>3. /\ request'[c] = None /\ client'[c] = client[c] /\ pending'[c] = pending[c]
        /\ packet'[c] = None /\ target'[c] = 0 /\ keys'[c] = {} /\ cut'[c] = {}
        /\ \A s \in Shards : /\ to_shard'[c][s] = None /\ reply'[c][s] = None
                             /\ from_shard'[c][s] = None
    BY <2>2 DEF Replied
  <2>4. \/ /\ client[c] = "wait" /\ response'[c] = resp /\ worker'[c] = "read" /\ up'
           /\ pending[c] \in Commands /\ resp.n = pending[c].n
        \/ /\ client[c] # "wait" /\ response'[c] = None
           /\ worker'[c] \in {"read", "ended"} \/ (worker'[c] = worker[c] /\ up' = FALSE)
    BY <2>1, <2>2 DEF Replied, OwnInv, Paired
  <2>5. Clean(c)' /\ (Waiting(c)' => Fresh(c)')
    BY <2>3 DEF Clean, Fresh, Clear
  <2>6. worker'[c] = "read" => Waiting(c)' /\ ~Busy(c)'
    BY DEF Waiting, Busy
  <2>7. Rest(c)'
    BY <2>2, <2>3, <2>4, <2>5, <2>6 DEF Rest
  <2>8. worker'[c] = "ended" => ~Busy(c)'
    BY DEF Busy
  <2>9. Paired(c)'
    BY <2>3, <2>4, <2>6, <2>8 DEF Paired
  <2>10. Round(c)'
    BY <2>3 DEF Round
  <2>11. NothingSent(c)'
    BY <2>1 DEF OwnInv, NothingSent
  <2>12. \A s \in Shards : Routed(c, s)'
    BY <2>3 DEF Routed, OfShard
  <2> QED BY <2>7, <2>9, <2>10, <2>11, <2>12 DEF OwnInv
<1>4. \A d \in Clients : d # c => Untouched(d)
  BY DEF Untouched, Replied
<1> QED BY <1>1, <1>2, <1>3, <1>4, UntouchedKeeps

\* A worker in a round has a command.
LEMMA BusyFacts ==
  ASSUME PairInv, NEW c \in Clients, Busy(c), up
  PROVE  /\ packet[c] \in Commands /\ "null_buf" \in Repairs
         /\ worker[c] = "forward" => Forwarding(c)
         /\ worker[c] = "collect" => Collecting(c)
         /\ \A s \in Shards : Answered(c, s) /\ Routed(c, s)
         /\ request[c] = None /\ response[c] = None
         /\ client[c] \notin {"none", "ready"}
<1>1. OwnInv(c) /\ TypeOK
  BY DEF PairInv
<1>2. packet[c] # None
  BY <1>1 DEF OwnInv, Paired
<1>3. packet[c] \in Commands
  BY <1>1, <1>2 DEF TypeOK
<1>4. "null_buf" \in Repairs
  BY <1>1 DEF OwnInv, NothingSent
<1>5. /\ request[c] = None /\ response[c] = None
      /\ client[c] \notin {"none", "ready"}
  BY <1>1 DEF OwnInv, Rest, Fresh, Busy, Waiting
<1> QED BY <1>1, <1>2, <1>3, <1>4, <1>5 DEF OwnInv, Round

\* The worker forwards the response of its shard to the client.
LEMMA ForwardFacts ==
  ASSUME PairInv, NEW c \in Clients, Forward(c)
  PROVE  \E resp \in Responses :
           /\ Busy(c) /\ up /\ worker[c] = "forward"
           /\ target[c] \in Shards /\ resp = from_shard[c][target[c]]
           /\ resp.n = packet[c].n /\ Replied(c, resp)
<1>1. Busy(c) /\ up /\ worker[c] = "forward" /\ from_shard[c][target[c]] # None
  BY DEF Forward, Busy
<1>2. Forwarding(c) /\ TypeOK /\ \A s \in Shards : Answered(c, s) /\ Routed(c, s)
  BY <1>1, BusyFacts DEF PairInv
<1>3. PICK t \in Shards : t = target[c]
  BY <1>2 DEF Forwarding, Clear
<1>4. PICK resp \in Responses : resp = from_shard[c][t]
  BY <1>1, <1>2, <1>3 DEF TypeOK
<1>5. /\ UNCHANGED <<clients, accepting, max_fds, fds, request, to_shard, shards,
                     crashes>>
      /\ Reply(c, resp) /\ Take(c, t) /\ RoundEnds(c)
  BY <1>3, <1>4 DEF Forward
<1>6. resp.n = packet[c].n
  BY <1>1, <1>2, <1>3, <1>4 DEF Answered, Answering
<1>7. \A s \in Shards : /\ to_shard[c][s] = None /\ reply[c][s] = None
                        /\ s # t => from_shard[c][s] = None
  BY <1>1, <1>2, <1>3 DEF Forwarding, Routed, Clear, OfShard
<1>8. /\ from_shard' \in [Clients -> [Shards -> Responses \cup {None}]]
      /\ \A d \in Clients : d # c => from_shard'[d] = from_shard[d]
      /\ \A s \in Shards : from_shard'[c][s] = None
  BY <1>2, <1>5, <1>7, TakeFacts
<1>9. /\ response' \in [Clients -> Responses \cup {None}]
      /\ worker' \in [Clients -> WorkerStates] /\ up' \in BOOLEAN
      /\ \A d \in Clients : d # c => worker'[d] = worker[d] /\ response'[d] = response[d]
      /\ \/ client[c] = "wait" /\ response'[c] = resp
         \/ client[c] # "wait" /\ response'[c] = response[c]
      /\ \/ worker'[c] = "read" /\ up' = up
         \/ client[c] # "wait" /\ worker'[c] = "ended" /\ up' = up
         \/ client[c] # "wait" /\ worker'[c] = worker[c] /\ up' = FALSE
  BY <1>2, <1>5, ReplyFacts
<1>10. Replied(c, resp)
  BY <1>2, <1>5, <1>7, <1>8, <1>9, RoundEndsFacts DEF Replied
<1> QED BY <1>1, <1>3, <1>4, <1>6, <1>10

\* The worker sends the keys it has collected to the client.
LEMMA ReplyAllFacts ==
  ASSUME PairInv, NEW c \in Clients, ReplyAll(c)
  PROVE  \E resp \in Responses :
           /\ Busy(c) /\ up /\ worker[c] = "collect" /\ target[c] = NumShards
           /\ resp = [n |-> packet[c].n, op |-> "getall", keys |-> keys[c],
                      cut |-> cut[c] # {}]
           /\ resp.n = packet[c].n /\ Replied(c, resp)
<1>1. Busy(c) /\ up /\ worker[c] = "collect" /\ target[c] = NumShards
  BY DEF ReplyAll, Busy
<1>2. /\ Collecting(c) /\ TypeOK /\ packet[c] \in Commands /\ "null_buf" \in Repairs
  BY <1>1, BusyFacts DEF PairInv
<1>3. PICK resp : resp = [n |-> packet[c].n, op |-> "getall", keys |-> keys[c],
                          cut |-> cut[c] # {}]
  OBVIOUS
<1>4. resp \in Responses /\ resp.n = packet[c].n
  <2>1. packet[c].n \in Nat /\ keys[c] \in SUBSET Keys /\ (cut[c] # {}) \in BOOLEAN
    BY <1>2, CommandFacts DEF TypeOK
  <2> QED BY <1>3, <2>1, ResponseFacts
<1>5. /\ UNCHANGED <<clients, accepting, max_fds, fds, request, to_shard, from_shard,
                     shards, crashes>>
      /\ Reply(c, resp) /\ RoundEnds(c)
  BY <1>2, <1>3 DEF ReplyAll
<1>6. \A s \in Shards : s < NumShards
  BY ShardFacts
<1>7. \A s \in Shards : /\ to_shard[c][s] = None /\ reply[c][s] = None
                        /\ from_shard[c][s] = None
  BY <1>1, <1>2, <1>6 DEF Collecting, Clear
<1>8. /\ response' \in [Clients -> Responses \cup {None}]
      /\ worker' \in [Clients -> WorkerStates] /\ up' \in BOOLEAN
      /\ \A d \in Clients : d # c => worker'[d] = worker[d] /\ response'[d] = response[d]
      /\ \/ client[c] = "wait" /\ response'[c] = resp
         \/ client[c] # "wait" /\ response'[c] = response[c]
      /\ \/ worker'[c] = "read" /\ up' = up
         \/ client[c] # "wait" /\ worker'[c] = "ended" /\ up' = up
         \/ client[c] # "wait" /\ worker'[c] = worker[c] /\ up' = FALSE
  BY <1>2, <1>4, <1>5, ReplyFacts
<1>9. from_shard' \in [Clients -> [Shards -> Responses \cup {None}]]
  BY <1>2, <1>5 DEF TypeOK
<1>10. Replied(c, resp)
  BY <1>2, <1>5, <1>7, <1>8, <1>9, RoundEndsFacts DEF Replied
<1> QED BY <1>1, <1>3, <1>4, <1>10

\* So it does whether it passes a response on or makes one from the keys.
LEMMA ReplyKeeps ==
  ASSUME PairInv, NEW c \in Clients, Forward(c) \/ ReplyAll(c)
  PROVE  PairInv'
<1>1. PICK resp \in Responses :
        Busy(c) /\ up /\ resp.n = packet[c].n /\ Replied(c, resp)
  BY ForwardFacts, ReplyAllFacts
<1> QED BY <1>1, RepliedKeeps

\* The worker takes the keys of the next shard, more; those of the shards in less
\* are cut short.
Collects(c, t, more, less) ==
  /\ UNCHANGED <<clients, up, accepting, max_fds, fds, worker, packet, request,
                 response, to_shard, shards, crashes>>
  /\ keys' \in [Clients -> SUBSET Keys] /\ cut' \in [Clients -> SUBSET Shards]
  /\ target' \in [Clients -> 0..NumShards]
  /\ from_shard' \in [Clients -> [Shards -> Responses \cup {None}]]
  /\ \A d \in Clients : d # c =>
       /\ target'[d] = target[d] /\ keys'[d] = keys[d] /\ cut'[d] = cut[d]
       /\ from_shard'[d] = from_shard[d]
  /\ target[c] = t /\ target'[c] = t + 1
  /\ keys'[c] = keys[c] \cup more /\ cut'[c] = less
  /\ from_shard'[c][t] = None
  /\ \A s \in Shards : s # t => from_shard'[c][s] = from_shard[c][s]

\* What the worker finds at the next shard.
LEMMA CollectFacts ==
  ASSUME PairInv, NEW c \in Clients, Collect(c)
  PROVE  \E t \in Shards, resp \in Responses :
           /\ Busy(c) /\ up /\ worker[c] = "collect"
           /\ from_shard[c][t] = resp /\ resp.op = "getall" /\ resp.n = packet[c].n
           /\ resp.keys \in SUBSET Keys /\ \A k \in resp.keys : Position(k) = t
           /\ resp.cut \in BOOLEAN
           /\ Collects(c, t, resp.keys, IF resp.cut THEN cut[c] \cup {t} ELSE cut[c])
<1>1. /\ Busy(c) /\ up /\ worker[c] = "collect"
      /\ target[c] < NumShards /\ from_shard[c][target[c]] # None
  BY DEF Collect, Busy
<1>2. Collecting(c) /\ TypeOK /\ \A s \in Shards : Answered(c, s) /\ Routed(c, s)
  BY <1>1, BusyFacts DEF PairInv
<1>3. PICK t \in Shards : t = target[c]
  <2>1. target[c] \in 0..NumShards
    BY <1>2 DEF TypeOK
  <2> QED BY <1>1, <2>1, ShardFacts
<1>4. PICK resp \in Responses : resp = from_shard[c][t]
  BY <1>1, <1>2, <1>3 DEF TypeOK
<1>5. resp.op = "getall" /\ resp.n = packet[c].n
  BY <1>1, <1>2, <1>3, <1>4 DEF Answered, Collecting, Clear, Answering
<1>6. resp.keys \in SUBSET Keys /\ resp.cut \in BOOLEAN
  BY <1>5, ResponseFacts
<1>7. \A k \in resp.keys : Position(k) = t
  BY <1>1, <1>2, <1>3, <1>4, <1>5 DEF Routed, OfShard
<1>8. /\ UNCHANGED <<clients, up, accepting, max_fds, fds, worker, packet, request,
                     response, to_shard, shards, crashes>>
      /\ keys' = [keys EXCEPT ![c] = @ \cup resp.keys]
      /\ cut' = [cut EXCEPT ![c] = IF resp.cut THEN @ \cup {t} ELSE @]
      /\ Take(c, t) /\ target' = [target EXCEPT ![c] = @ + 1]
  BY <1>3, <1>4 DEF Collect, AddKeys
<1>9. /\ keys' \in [Clients -> SUBSET Keys] /\ keys'[c] = keys[c] \cup resp.keys
      /\ \A d \in Clients : d # c => keys'[d] = keys[d]
  BY <1>2, <1>6, <1>8 DEF TypeOK
<1>10. t + 1 \in 0..NumShards
  BY ShardFacts
<1>11. /\ target' \in [Clients -> 0..NumShards] /\ target'[c] = t + 1
       /\ \A d \in Clients : d # c => target'[d] = target[d]
  BY <1>2, <1>3, <1>8, <1>10 DEF TypeOK
<1>12. PICK less : less = IF resp.cut THEN cut[c] \cup {t} ELSE cut[c]
  OBVIOUS
<1>13. /\ cut' \in [Clients -> SUBSET Shards] /\ cut'[c] = less
       /\ \A d \in Clients : d # c => cut'[d] = cut[d]
  BY <1>2, <1>8, <1>12 DEF TypeOK
<1>14. Collects(c, t, resp.keys, less)
  BY <1>2, <1>3, <1>8, <1>9, <1>11, <1>13, TakeFacts DEF Collects
<1> QED BY <1>1, <1>4, <1>5, <1>6, <1>7, <1>12, <1>14

\* Taking it keeps the invariant.
LEMMA CollectKeeps ==
  ASSUME PairInv, NEW c \in Clients, Collect(c)
  PROVE  PairInv'
<1> USE DEF PairInv
<1>1. PICK t \in Shards, resp \in Responses :
           /\ Busy(c) /\ up /\ worker[c] = "collect"
           /\ from_shard[c][t] = resp /\ resp.op = "getall" /\ resp.n = packet[c].n
           /\ resp.keys \in SUBSET Keys /\ \A k \in resp.keys : Position(k) = t
           /\ resp.cut \in BOOLEAN
           /\ Collects(c, t, resp.keys, IF resp.cut THEN cut[c] \cup {t} ELSE cut[c])
  BY CollectFacts
<1>2. TypeOK'
  BY <1>1 DEF TypeOK, Collects
<1>3. Placed'
  BY <1>1 DEF Placed, Collects
<1>4. OwnInv(c)'
  <2>1. /\ OwnInv(c) /\ packet[c] \in Commands /\ Collecting(c)
        /\ \A s \in Shards : Answered(c, s) /\ Routed(c, s)
        /\ request[c] = None /\ response[c] = None
        /\ client[c] \notin {"none", "ready"} /\ "null_buf" \in Repairs
    BY <1>1, BusyFacts
  <2>2. /\ UNCHANGED <<clients, up, worker, packet, request, response, to_shard, reply>>
        /\ target[c] = t /\ target'[c] = t + 1 /\ keys'[c] = keys[c] \cup resp.keys
        /\ cut'[c] \subseteq cut[c] \cup {t}
        /\ \A s \in Shards :
             from_shard'[c][s] = IF s = t THEN None ELSE from_shard[c][s]
    BY <1>1 DEF Collects
  <2>3. Busy(c)' /\ ~Waiting(c)'
    BY <1>1, <2>2 DEF Busy, Waiting
  <2>4. Rest(c)'
    BY <2>1, <2>2, <2>3 DEF Rest
  <2>5. Paired(c)'
    BY <1>1, <2>1, <2>2 DEF OwnInv, Paired
  <2>6. NothingSent(c)'
    BY <2>1 DEF NothingSent
  <2>7. \A s \in Shards : Answered(c, s)'
    BY <2>1, <2>2 DEF Answered, Answering
  <2>8. \A s \in Shards : Routed(c, s)'
    BY <2>1, <2>2 DEF Routed, OfShard
  <2>9. Collecting(c)'
    <3>1. t \in Int /\ (\A s \in Shards : s \in Int /\ (s < t + 1 <=> s < t \/ s = t))
      BY ShardFacts
    <3>2. \A s \in Shards : s < t + 1 => to_shard[c][s] = None /\ reply[c][s] = None
      <4>1. to_shard[c][t] = None /\ reply[c][t] = None
        BY <1>1, <2>1, ResponseFacts DEF Routed, OfShard
      <4> QED BY <2>1, <2>2, <3>1, <4>1 DEF Collecting, Clear
    <3>3. \A s \in Shards : s < t + 1 => from_shard'[c][s] = None
      BY <2>1, <2>2, <3>1 DEF Collecting, Clear
    <3>4. \A k \in keys'[c] : Position(k) \in Shards /\ Position(k) < t + 1
      <4> TAKE k \in keys'[c]
      <4>1. CASE k \in keys[c]
        BY <2>1, <2>2, <3>1, <4>1 DEF Collecting, Clear
      <4>2. CASE k \in resp.keys
        BY <1>1, <3>1, <4>2
      <4> QED BY <2>2, <4>1, <4>2
    <3>5. \A s \in cut'[c] : s < t + 1
      BY <1>1, <2>1, <2>2, <3>1 DEF Collecting, Collects
    <3> QED BY <2>1, <2>2, <3>2, <3>3, <3>4, <3>5 DEF Collecting, Clear
  <2>10. Round(c)'
    BY <1>1, <2>2, <2>7, <2>9 DEF Round
  <2> QED BY <2>4, <2>5, <2>6, <2>8, <2>10 DEF OwnInv
<1>5. \A d \in Clients : d # c => Untouched(d)
  BY <1>1 DEF Untouched, Collects
<1> QED BY <1>2, <1>3, <1>4, <1>5, UntouchedKeeps

\* A shard carries out a command: done is the store and the response.
Handled(c, s, p, done) ==
  /\ UNCHANGED <<clients, proxy, request, response, from_shard, alive, crashes>>
  /\ p = to_shard[c][s] /\ from_shard[c][s] = None
  /\ db' \in [Shards -> Stores] /\ db'[s] = done[1]
  /\ \A t \in Shards : t # s => db'[t] = db[t]
  /\ reply' \in [Clients -> [Shards -> Responses \cup {None}]]
  /\ to_shard' \in [Clients -> [Shards -> Commands \cup {None}]]
  /\ \A d \in Clients : d # c => reply'[d] = reply[d] /\ to_shard'[d] = to_shard[d]
  /\ reply'[c][s] = done[2] /\ to_shard'[c][s] = None
  /\ \A t \in Shards : t # s => /\ reply'[c][t] = reply[c][t]
                                /\ to_shard'[c][t] = to_shard[c][t]

\* What a shard finds when it handles a command.
LEMMA HandleFacts ==
  ASSUME PairInv, NEW c \in Clients, NEW s \in Shards, HandleClient(c, s)
  PROVE  \E p \in Commands : \E done \in Done(p, db[s]) :
           /\ db[s] \in Stores /\ Handled(c, s, p, done)
           /\ p.op = "getall" \/ Position(p.key) = s
           /\ request[c] = None /\ response[c] = None
           /\ client[c] \notin {"none", "ready"} /\ ~(up /\ Waiting(c))
           /\ "null_buf" \in Repairs
<1>1. TypeOK /\ OwnInv(c) /\ to_shard[c][s] # None
  BY DEF PairInv, HandleClient
<1>2. PICK p \in Commands : p = to_shard[c][s]
  BY <1>1 DEF TypeOK
<1>3. "null_buf" \in Repairs
  BY <1>1 DEF OwnInv, NothingSent, Clean, Clear
<1>4. db[s] \in Stores /\ db \in [Shards -> Stores]
  BY <1>1 DEF TypeOK, Stores
<1>5. PICK done \in Done(p, db[s]) :
        /\ db' = [db EXCEPT ![s] = done[1]]
        /\ reply' = [reply EXCEPT ![c][s] = done[2]]
        /\ to_shard' = [to_shard EXCEPT ![c][s] = None]
  BY <1>2 DEF HandleClient
<1>6. done[1] \in Stores /\ done[2] \in Responses
  BY <1>4, DoneFacts
<1>7. UNCHANGED <<clients, proxy, request, response, from_shard, alive, crashes>>
  BY DEF HandleClient
<1>8. /\ db' \in [Shards -> Stores] /\ db'[s] = done[1]
      /\ \A t \in Shards : t # s => db'[t] = db[t]
  BY <1>4, <1>5, <1>6
<1>9. /\ reply' \in [Clients -> [Shards -> Responses \cup {None}]]
      /\ \A d \in Clients : d # c => reply'[d] = reply[d]
      /\ reply'[c][s] = done[2]
      /\ \A t \in Shards : t # s => reply'[c][t] = reply[c][t]
  BY <1>1, <1>5, <1>6 DEF TypeOK
<1>10. /\ to_shard' \in [Clients -> [Shards -> Commands \cup {None}]]
       /\ \A d \in Clients : d # c => to_shard'[d] = to_shard[d]
       /\ to_shard'[c][s] = None
       /\ \A t \in Shards : t # s => to_shard'[c][t] = to_shard[c][t]
  BY <1>1, <1>5 DEF TypeOK
<1>11. Handled(c, s, p, done)
  <2>1. from_shard[c][s] = None
    BY <1>1 DEF OwnInv, Routed
  <2> QED BY <1>2, <1>7, <1>8, <1>9, <1>10, <2>1 DEF Handled
<1>12. ~Fresh(c)
  BY <1>1 DEF Fresh, Clean, Clear
<1>13. /\ request[c] = None /\ response[c] = None
       /\ client[c] \notin {"none", "ready"} /\ ~(up /\ Waiting(c))
  BY <1>1, <1>12 DEF OwnInv, Rest
<1>14. p.op = "getall" \/ Position(p.key) = s
  BY <1>1, <1>2 DEF OwnInv, Routed, OfShard
<1> QED BY <1>3, <1>4, <1>11, <1>13, <1>14

\* Handling it keeps the invariant.
LEMMA HandleKeeps ==
  ASSUME PairInv, NEW c \in Clients, NEW s \in Shards, HandleClient(c, s)
  PROVE  PairInv'
<1> USE DEF PairInv
<1>1. PICK p \in Commands : \E done \in Done(p, db[s]) :
           /\ db[s] \in Stores /\ Handled(c, s, p, done)
           /\ p.op = "getall" \/ Position(p.key) = s
           /\ request[c] = None /\ response[c] = None
           /\ client[c] \notin {"none", "ready"} /\ ~(up /\ Waiting(c))
           /\ "null_buf" \in Repairs
  BY HandleFacts
<1>2. PICK done \in Done(p, db[s]) :
           /\ db[s] \in Stores /\ Handled(c, s, p, done)
           /\ p.op = "getall" \/ Position(p.key) = s
           /\ request[c] = None /\ response[c] = None
           /\ client[c] \notin {"none", "ready"} /\ ~(up /\ Waiting(c))
           /\ "null_buf" \in Repairs
  BY <1>1
<1>3. /\ done[1] \in Stores /\ done[2] \in Responses
      /\ done[2].n = p.n /\ (done[2].op = "getall" <=> p.op = "getall")
      /\ \A k \in Keys : done[1][k] # db[s][k] => p.op # "getall" /\ k = p.key
      /\ p.op = "getall" =>
           /\ done[1] = db[s]
           /\ done[2].keys \subseteq {k \in p.prefix : db[s][k] # None}
  BY <1>2, DoneFacts
<1>4. TypeOK'
  BY <1>2 DEF TypeOK, Handled, Stores
<1>5. Placed'
  BY <1>2, <1>3 DEF Placed, Handled
<1>6. OwnInv(c)'
  <2>1. OwnInv(c) /\ p # None
    BY CommandFacts
  <2>2. /\ UNCHANGED <<clients, proxy, request, response>>
        /\ to_shard[c][s] = p /\ from_shard' = from_shard /\ from_shard[c][s] = None
        /\ \A t \in Shards : /\ to_shard'[c][t] = IF t = s THEN None ELSE to_shard[c][t]
                             /\ reply'[c][t] = IF t = s THEN done[2] ELSE reply[c][t]
    BY <1>2 DEF Handled
  <2>3. (Busy(c)' <=> Busy(c)) /\ (Waiting(c)' <=> Waiting(c))
    BY <2>2 DEF Busy, Waiting
  <2>4. Rest(c)'
    BY <1>2, <2>2, <2>3 DEF Rest
  <2>5. Paired(c)'
    BY <2>1, <2>2, <2>3 DEF OwnInv, Paired
  <2>6. NothingSent(c)'
    BY <1>2 DEF NothingSent
  <2>7. \A t \in Shards : Routed(c, t)'
    <3>1. done[2].op = "getall" => \A k \in done[2].keys : Position(k) = s
      <4> SUFFICES ASSUME done[2].op = "getall", NEW k \in done[2].keys
                   PROVE  Position(k) = s
        OBVIOUS
      <4>1. /\ done[2].keys \subseteq {j \in p.prefix : db[s][j] # None}
            /\ p.prefix \in SUBSET Keys
        BY <1>3, CommandFacts
      <4> QED BY <4>1 DEF Placed
    <3> QED BY <2>1, <2>2, <3>1 DEF OwnInv, Routed, OfShard
  <2>8. Round(c)'
    <3> SUFFICES ASSUME packet[c] # None
                 PROVE  /\ worker[c] = "forward" => Forwarding(c)'
                        /\ worker[c] = "collect" => Collecting(c)'
                        /\ Busy(c) => \A t \in Shards : Answered(c, t)'
      BY <2>2, <2>3 DEF Round
    <3>1. worker[c] = "forward" => Forwarding(c)'
      BY <2>1, <2>2 DEF OwnInv, Round, Forwarding, Clear
    <3>2. worker[c] = "collect" => Collecting(c)'
      BY <2>1, <2>2 DEF OwnInv, Round, Collecting, Clear
    <3>3. Busy(c) => \A t \in Shards : Answered(c, t)'
      <4> SUFFICES ASSUME Busy(c), NEW t \in Shards
                   PROVE  Answered(c, t)'
        OBVIOUS
      <4>1. Answered(c, t) /\ Answered(c, s)
        BY <2>1 DEF OwnInv, Round
      <4>2. p = packet[c] /\ packet'[c] = packet[c]
        BY <2>1, <2>2, <4>1 DEF Answered, Answering
      <4> QED BY <1>3, <2>2, <4>1, <4>2 DEF Answered, Answering
    <3> QED BY <3>1, <3>2, <3>3
  <2> QED BY <2>4, <2>5, <2>6, <2>7, <2>8 DEF OwnInv
<1>7. \A d \in Clients : d # c => Untouched(d)
  BY <1>2 DEF Untouched, Handled
<1> QED BY <1>4, <1>5, <1>6, <1>7, UntouchedKeeps

\* A shard sends the response it has for client c.
Sends(c, s) ==
  /\ UNCHANGED <<clients, proxy, request, response, to_shard, alive, db, crashes>>
  /\ reply[c][s] \in Responses /\ reply'[c][s] = None
  /\ from_shard'[c][s] = reply[c][s]
  /\ reply' \in [Clients -> [Shards -> Responses \cup {None}]]
  /\ from_shard' \in [Clients -> [Shards -> Responses \cup {None}]]
  /\ \A d \in Clients : d # c => reply'[d] = reply[d] /\ from_shard'[d] = from_shard[d]
  /\ \A t \in Shards : t # s => /\ reply'[c][t] = reply[c][t]
                                /\ from_shard'[c][t] = from_shard[c][t]

\* A process ends: its part of what is under way is lost.
Ends ==
  /\ UNCHANGED <<clients, accepting, max_fds, fds, worker, packet, target, keys, cut,
                 request, response, from_shard, db>>
  /\ up' \in BOOLEAN /\ (up' => up) /\ crashes' \in 0..MaxCrashes
  /\ alive' \in [Shards -> BOOLEAN] /\ \A s \in Shards : ~alive[s] => ~alive'[s]
  /\ to_shard' \in [Clients -> [Shards -> Commands \cup {None}]]
  /\ reply' \in [Clients -> [Shards -> Responses \cup {None}]]
  /\ \A d \in Clients, t \in Shards : /\ to_shard'[d][t] \in {to_shard[d][t], None}
                                      /\ reply'[d][t] \in {reply[d][t], None}

\* A shard's process takes with it what it has not read and not sent.
LEMMA ShardEndsFacts ==
  ASSUME TypeOK, NEW s \in Shards, ShardEnds(s)
  PROVE  /\ alive' \in [Shards -> BOOLEAN] /\ \A t \in Shards : ~alive[t] => ~alive'[t]
         /\ to_shard' \in [Clients -> [Shards -> Commands \cup {None}]]
         /\ reply' \in [Clients -> [Shards -> Responses \cup {None}]]
         /\ \A d \in Clients, t \in Shards :
              /\ to_shard'[d][t] \in {to_shard[d][t], None}
              /\ reply'[d][t] \in {reply[d][t], None}
<1>1. alive' \in [Shards -> BOOLEAN] /\ \A t \in Shards : ~alive[t] => ~alive'[t]
  BY DEF ShardEnds, TypeOK
<1>2. /\ to_shard' \in [Clients -> [Shards -> Commands \cup {None}]]
      /\ \A d \in Clients, t \in Shards : to_shard'[d][t] \in {to_shard[d][t], None}
  BY DEF ShardEnds, TypeOK
<1>3. /\ reply' \in [Clients -> [Shards -> Responses \cup {None}]]
      /\ \A d \in Clients, t \in Shards : reply'[d][t] \in {reply[d][t], None}
  BY DEF ShardEnds, TypeOK
<1> QED BY <1>1, <1>2, <1>3

\* The response is sent, or SIGPIPE ends the shard.
LEMMA SendFacts ==
  ASSUME PairInv, NEW c \in Clients, NEW s \in Shards, SendResponse(c, s)
  PROVE  \/ /\ Sends(c, s)
            /\ request[c] = None /\ response[c] = None
            /\ client[c] \notin {"none", "ready"} /\ ~(up /\ Waiting(c))
            /\ "null_buf" \in Repairs
         \/ Ends
<1>1. TypeOK /\ OwnInv(c) /\ reply[c][s] # None
  BY DEF PairInv, SendResponse
<1>2. UNCHANGED <<clients, proxy, request, response, db, crashes>>
  BY DEF SendResponse
<1>3. ~Clean(c) /\ ~Fresh(c) /\ "null_buf" \in Repairs
  BY <1>1 DEF OwnInv, NothingSent, Fresh, Clean, Clear
<1>4. /\ request[c] = None /\ response[c] = None
      /\ client[c] \notin {"none", "ready"} /\ ~(up /\ Waiting(c))
  BY <1>1, <1>3 DEF OwnInv, Rest
<1>5. CASE /\ from_shard' = [from_shard EXCEPT ![c][s] = reply[c][s]]
           /\ reply' = [reply EXCEPT ![c][s] = None]
           /\ UNCHANGED <<to_shard, alive>>
  <2>1. reply[c][s] \in Responses
    BY <1>1 DEF TypeOK
  <2>2. /\ reply' \in [Clients -> [Shards -> Responses \cup {None}]]
        /\ reply'[c][s] = None /\ \A t \in Shards : t # s => reply'[c][t] = reply[c][t]
        /\ \A d \in Clients : d # c => reply'[d] = reply[d]
    BY <1>1, <1>5 DEF TypeOK
  <2>3. /\ from_shard' \in [Clients -> [Shards -> Responses \cup {None}]]
        /\ from_shard'[c][s] = reply[c][s]
        /\ \A t \in Shards : t # s => from_shard'[c][t] = from_shard[c][t]
        /\ \A d \in Clients : d # c => from_shard'[d] = from_shard[d]
    BY <1>1, <1>5, <2>1 DEF TypeOK
  <2>4. Sends(c, s)
    BY <1>2, <1>5, <2>1, <2>2, <2>3 DEF Sends
  <2> QED BY <1>3, <1>4, <2>4
<1>6. CASE ShardEnds(s) /\ UNCHANGED from_shard
  BY <1>1, <1>2, <1>6, ShardEndsFacts DEF Ends, TypeOK
<1> QED BY <1>5, <1>6 DEF SendResponse

\* Sending it keeps the invariant.
LEMMA SendsKeeps ==
  ASSUME PairInv, NEW c \in Clients, NEW s \in Shards, Sends(c, s),
         request[c] = None, response[c] = None,
         client[c] \notin {"none", "ready"}, ~(up /\ Waiting(c)),
         "null_buf" \in Repairs
  PROVE  PairInv'
<1> USE DEF PairInv
<1>1. TypeOK'
  BY DEF TypeOK, Sends
<1>2. Placed'
  BY DEF Placed, Sends
<1>3. OwnInv(c)'
  <2>1. OwnInv(c) /\ reply[c][s] # None
    BY ResponseFacts DEF Sends
  <2>2. /\ UNCHANGED <<clients, proxy, request, response, to_shard>>
        /\ \A t \in Shards :
             /\ reply'[c][t] = IF t = s THEN None ELSE reply[c][t]
             /\ from_shard'[c][t] = IF t = s THEN reply[c][t] ELSE from_shard[c][t]
    BY DEF Sends
  <2>3. (Busy(c)' <=> Busy(c)) /\ (Waiting(c)' <=> Waiting(c))
    BY <2>2 DEF Busy, Waiting
  <2>4. Rest(c)'
    BY <2>2, <2>3 DEF Rest
  <2>5. Paired(c)'
    BY <2>1, <2>2, <2>3 DEF OwnInv, Paired
  <2>6. NothingSent(c)'
    BY DEF NothingSent
  <2>7. \A t \in Shards : Routed(c, t)'
    BY <2>1, <2>2 DEF OwnInv, Routed, OfShard
  <2>8. Round(c)'
    <3> SUFFICES ASSUME packet[c] # None
                 PROVE  /\ worker[c] = "forward" => Forwarding(c)'
                        /\ worker[c] = "collect" => Collecting(c)'
                        /\ Busy(c) => \A t \in Shards : Answered(c, t)'
      BY <2>2, <2>3 DEF Round
    <3>0. \A t \in Shards : Clear(c, t) => Clear(c, t)'
      BY <2>1, <2>2 DEF Clear
    <3>1. worker[c] = "forward" => Forwarding(c)'
      BY <2>1, <2>2, <3>0 DEF OwnInv, Round, Forwarding
    <3>2. worker[c] = "collect" => Collecting(c)'
      BY <2>1, <2>2, <3>0 DEF OwnInv, Round, Collecting
    <3>3. Busy(c) => \A t \in Shards : Answered(c, t)'
      BY <2>1, <2>2 DEF OwnInv, Round, Answered, Answering
    <3> QED BY <3>1, <3>2, <3>3
  <2> QED BY <2>4, <2>5, <2>6, <2>7, <2>8 DEF OwnInv
<1>4. \A d \in Clients : d # c => Untouched(d)
  BY DEF Untouched, Sends
<1> QED BY <1>1, <1>2, <1>3, <1>4, UntouchedKeeps

\* So does a process that ends.
LEMMA EndsKeeps ==
  ASSUME PairInv, Ends
  PROVE  PairInv'
<1> USE DEF PairInv
<1>1. TypeOK'
  BY DEF TypeOK, Ends
<1>2. Placed'
  BY DEF Placed, Ends
<1>3. \A d \in Clients : Untouched(d)
  BY DEF Untouched, Ends
<1> QED BY <1>1, <1>2, <1>3, UntouchedKeeps

\* A process may end of itself, too.
LEMMA DeathFacts ==
  ASSUME TypeOK, (\E s \in Shards : ShardDies(s)) \/ ProxyDies \/ Leave
  PROVE  Ends
<1>1. CASE \E s \in Shards : ShardDies(s)
  <2>1. PICK s \in Shards : ShardDies(s)
    BY <1>1
  <2>2. crashes' \in 0..MaxCrashes
    BY <2>1, BoundsAssumption DEF ShardDies, TypeOK
  <2> QED BY <2>1, <2>2, ShardEndsFacts DEF ShardDies, TypeOK, Ends
<1>2. CASE ProxyDies
  <2>1. crashes \in 0..MaxCrashes /\ crashes < MaxCrashes /\ crashes' = crashes + 1
    BY <1>2 DEF ProxyDies, TypeOK
  <2>2. crashes' \in 0..MaxCrashes
    BY <2>1, BoundsAssumption
  <2> QED BY <1>2, <2>2 DEF ProxyDies, TypeOK, Ends
<1>3. CASE Leave
  BY <1>3 DEF Leave, TypeOK, Ends
<1> QED BY <1>1, <1>2, <1>3

\* Every step keeps commands and answers paired.
LEMMA PairStep == PairInv /\ [Next]_vars => PairInv'
<1> SUFFICES ASSUME PairInv, [Next]_vars
             PROVE  PairInv'
  OBVIOUS
<1>1. CASE UNCHANGED vars
  <2>1. \A d \in Clients : Untouched(d)
    BY <1>1 DEF vars, Untouched
  <2>2. TypeOK' /\ Placed'
    BY <1>1 DEF vars, PairInv, TypeOK, Placed
  <2> QED BY <2>1, <2>2, UntouchedKeeps DEF PairInv
<1>2. CASE \E c \in Clients :
             \/ ConnectTo(c) \/ Invoke(c) \/ Return(c) \/ Eof(c) \/ Quit(c) \/ Accept(c)
             \/ WorkerStep(c)
             \/ \E s \in Shards : HandleClient(c, s) \/ SendResponse(c, s)
  <2>1. PICK c \in Clients :
             \/ ConnectTo(c) \/ Invoke(c) \/ Return(c) \/ Eof(c) \/ Quit(c) \/ Accept(c)
             \/ WorkerStep(c)
             \/ \E s \in Shards : HandleClient(c, s) \/ SendResponse(c, s)
    BY <1>2
  <2>2. CASE WorkerStep(c)
    BY <2>2, ReadKeeps, GiveUpKeeps, ReplyKeeps, CollectKeeps DEF WorkerStep
  <2>3. CASE \E s \in Shards : HandleClient(c, s) \/ SendResponse(c, s)
    BY <2>3, HandleKeeps, SendFacts, SendsKeeps, EndsKeeps
  <2> QED BY <2>1, <2>2, <2>3, ConnectToKeeps, InvokeKeeps, ClientKeeps, AcceptKeeps
<1>3. CASE (\E s \in Shards : ShardDies(s)) \/ ProxyDies \/ Leave
  BY <1>3, DeathFacts, EndsKeeps DEF PairInv
<1> QED BY <1>1, <1>2, <1>3 DEF Next

\* The invariant holds throughout.
LEMMA PairCorrect == Spec => []PairInv
<1>1. Init => PairInv
  <2> SUFFICES ASSUME Init
               PROVE  PairInv
    OBVIOUS
  <2>1. TypeOK
    <3>1. max_fds \in FdLimits /\ max_fds \in Nat /\ fds \in 0..max_fds
      BY BoundsAssumption DEF Init
    <3>2. 0 \in 0..MaxOps /\ 0 \in 0..MaxCrashes /\ 0 \in 0..NumShards
      BY BoundsAssumption, ShardFacts
    <3>3. ops \in 0..MaxOps /\ crashes \in 0..MaxCrashes
      BY <3>2 DEF Init
    <3>4. /\ target \in [Clients -> 0..NumShards]
          /\ keys \in [Clients -> SUBSET Keys] /\ cut \in [Clients -> SUBSET Shards]
      BY <3>2 DEF Init
    <3> QED BY <3>1, <3>3, <3>4 DEF Init, TypeOK
  <2>2. Placed
    BY DEF Init, Placed
  <2>3. ASSUME NEW c \in Clients
        PROVE  OwnInv(c)
    <3>1. /\ client[c] = "none" /\ request[c] = None /\ response[c] = None
          /\ worker[c] = "none" /\ packet[c] = None /\ target[c] = 0
          /\ keys[c] = {} /\ cut[c] = {}
          /\ \A s \in Shards : Clear(c, s)
      BY DEF Init, Clear
    <3>2. Fresh(c) /\ ~Busy(c) /\ Clean(c)
      BY <3>1 DEF Fresh, Busy, Clean, Waiting, Clear
    <3> QED BY <3>1, <3>2 DEF OwnInv, Rest, Paired, Round, NothingSent, Routed, Clear,
                              OfShard
  <2> QED BY <2>1, <2>2, <2>3 DEF PairInv
<1> QED BY <1>1, PairStep, PTL DEF Spec

-----------------------------------------------------------------------------
(* What follows. *)

\* Clients, proxy workers and shards keep all their state within the values the
\* code can give it, however many there are, with and without the repairs.
THEOREM ServiceTypes == Spec => []TypeOK
<1>1. PairInv => TypeOK
  BY DEF PairInv
<1> QED BY <1>1, PairCorrect, PTL

\* No response is left for a later command: what a client reads is the answer to
\* the command it waits for, whatever the other clients, the proxy's process and
\* the shards do.
THEOREM AnswersPaired == Spec => []OwnAnswer
<1>1. PairInv => OwnAnswer
  BY DEF PairInv, OwnInv, Paired, OwnAnswer
<1> QED BY <1>1, PairCorrect, PTL

\* A worker of the proxy that goes on to read the next command has left neither
\* a command nor a response on its connections to the shards, and no shard has
\* one of its commands still in hand.
THEOREM RoundsLeaveNothing == Spec => []CleanConnections
<1>1. PairInv => CleanConnections
  <2> SUFFICES ASSUME PairInv, up, NEW c \in Clients, worker[c] = "read"
               PROVE  \A s \in Shards : Clear(c, s)
    BY DEF CleanConnections, Clear
  <2>1. OwnInv(c) /\ Waiting(c)
    BY DEF PairInv, Waiting
  <2> QED BY <2>1 DEF OwnInv, Rest, Fresh, Clean, Clear
<1> QED BY <1>1, PairCorrect, PTL

\* A step of client c, its worker or a shard of its own, after which no other
\* worker has given up and no shard has come back.
LEMMA GivenUpKeeps ==
  ASSUME GivenUp, NEW c \in Clients,
         \A d \in Clients : d # c => worker'[d] = worker[d] /\ client'[d] = client[d],
         \A s \in Shards : ~alive[s] => ~alive'[s],
         worker'[c] \in {"stuck", "ended"} =>
           \/ worker[c] \in {"stuck", "ended"} /\ client'[c] = client[c]
           \/ client'[c] \in {"quit", "crashed", "eof"}
           \/ \E s \in Shards : ~alive[s]
  PROVE  GivenUp'
BY DEF GivenUp

\* Where every key has a shard, a worker gives up only because its client has
\* left or because a shard is gone.
LEMMA GivenUpStep ==
  ASSUME AllPlaced, PairInv, GivenUp, [Next]_vars
  PROVE  GivenUp'
<1>0. TypeOK
  BY DEF PairInv
<1>1. CASE UNCHANGED vars
  BY <1>1 DEF vars, GivenUp
<1>2. ASSUME NEW c \in Clients, ConnectTo(c)
      PROVE  GivenUp'
  <2>1. /\ UNCHANGED alive /\ worker'[c] = "backlog"
        /\ \A d \in Clients : d # c => worker'[d] = worker[d] /\ client'[d] = client[d]
    BY <1>0, <1>2 DEF ConnectTo, Become, TypeOK
  <2> QED BY <2>1, GivenUpKeeps
<1>3. ASSUME NEW c \in Clients, Invoke(c) \/ Return(c) \/ Eof(c) \/ Quit(c)
      PROVE  GivenUp'
  <2>1. /\ UNCHANGED <<alive, worker>> /\ client[c] \in {"ready", "wait"}
        /\ \A d \in Clients : d # c => client'[d] = client[d]
    BY <1>0, <1>3 DEF Invoke, Return, Eof, Quit, TypeOK
  <2>2. worker'[c] \in {"stuck", "ended"} => \E s \in Shards : ~alive[s]
    BY <2>1 DEF GivenUp
  <2> QED BY <2>1, <2>2, GivenUpKeeps
<1>4. ASSUME NEW c \in Clients, Accept(c)
      PROVE  GivenUp'
  <2>1. UNCHANGED <<alive, client>> /\ worker[c] = "backlog"
    BY <1>4 DEF Accept
  <2>2. /\ worker'[c] \in {"none", "backlog", "read"}
        /\ \A d \in Clients : d # c => worker'[d] = worker[d]
    BY <1>0, <1>4, <2>1 DEF Accept, AcceptError, Created, NotCreated, Become, TypeOK
  <2> QED BY <2>1, <2>2, GivenUpKeeps
<1>5. ASSUME NEW c \in Clients, ReadFromClient(c)
      PROVE  GivenUp'
  <2>1. /\ UNCHANGED <<client, alive>> /\ request[c] \in Commands /\ \E S : Reads(c, S)
    BY <1>5, ReadFacts
  <2>2. PICK S : Reads(c, S)
    BY <2>1
  <2>3. request[c].op # "getall" => Position(request[c].key) \in Shards
    BY <2>1, CommandFacts, PositionInt
  <2>4. worker'[c] \in {"stuck", "ended"} => \E s \in Shards : ~alive[s]
    BY <2>2, <2>3 DEF Reads
  <2>5. \A d \in Clients : d # c => worker'[d] = worker[d]
    BY <2>2 DEF Reads
  <2> QED BY <2>1, <2>4, <2>5, GivenUpKeeps
<1>6. ASSUME NEW c \in Clients, ReadEof(c)
      PROVE  GivenUp'
  <2>1. /\ UNCHANGED <<alive, client>> /\ client[c] \in {"quit", "crashed"}
        /\ \A d \in Clients : d # c => worker'[d] = worker[d]
    BY <1>0, <1>6 DEF ReadEof, Become, TypeOK
  <2> QED BY <2>1, GivenUpKeeps
<1>7. ASSUME NEW c \in Clients, Forward(c) \/ ReplyAll(c)
      PROVE  GivenUp'
  <2>1. PICK resp \in Responses : Busy(c) /\ up /\ Replied(c, resp)
    BY <1>7, ForwardFacts, ReplyAllFacts
  <2>2. client[c] \notin {"none", "ready"} /\ client[c] \in
          {"none", "ready", "wait", "quit", "crashed", "eof"}
    BY <1>0, <2>1, BusyFacts DEF TypeOK
  <2>3. /\ UNCHANGED <<alive, client>>
        /\ \A d \in Clients : d # c => worker'[d] = worker[d]
        /\ client[c] = "wait" => worker'[c] = "read"
    BY <2>1 DEF Replied
  <2>4. worker'[c] \in {"stuck", "ended"} => client'[c] \in {"quit", "crashed", "eof"}
    BY <2>2, <2>3
  <2> QED BY <2>3, <2>4, GivenUpKeeps
<1>8. ASSUME NEW c \in Clients, Collect(c)
      PROVE  GivenUp'
  BY <1>8 DEF Collect, GivenUp
<1>9. ASSUME NEW c \in Clients, ShardLost(c)
      PROVE  GivenUp'
  <2>1. /\ UNCHANGED <<alive, client>> /\ ~alive[target[c]] /\ target[c] < NumShards
        /\ \A d \in Clients : d # c => worker'[d] = worker[d]
    BY <1>0, <1>9 DEF ShardLost, Become, TypeOK
  <2>2. target[c] \in 0..NumShards
    BY <1>0 DEF TypeOK
  <2>3. target[c] \in Shards
    BY <2>1, <2>2, ShardFacts
  <2>4. \E s \in Shards : ~alive[s]
    BY <2>1, <2>3
  <2> QED BY <2>1, <2>4, GivenUpKeeps
<1>10. ASSUME NEW c \in Clients, NEW s \in Shards, HandleClient(c, s)
       PROVE  GivenUp'
  <2>1. PICK p \in Commands : \E done \in Done(p, db[s]) : Handled(c, s, p, done)
    BY <1>10, HandleFacts
  <2>2. UNCHANGED <<alive, client, worker>>
    BY <2>1 DEF Handled
  <2> QED BY <2>2 DEF GivenUp
<1>11. ASSUME NEW c \in Clients, NEW s \in Shards, SendResponse(c, s)
       PROVE  GivenUp'
  <2>1. UNCHANGED <<client, worker>> /\ \A t \in Shards : ~alive[t] => ~alive'[t]
    BY <1>11, SendFacts DEF Sends, Ends
  <2> QED BY <2>1 DEF GivenUp
<1>12. CASE (\E s \in Shards : ShardDies(s)) \/ ProxyDies \/ Leave
  <2>1. UNCHANGED <<client, worker>> /\ \A t \in Shards : ~alive[t] => ~alive'[t]
    BY <1>0, <1>12, DeathFacts DEF Ends
  <2> QED BY <2>1 DEF GivenUp
<1> QED BY <1>1, <1>2, <1>3, <1>4, <1>5, <1>6, <1>7, <1>8, <1>9, <1>10, <1>11, <1>12
        DEF Next, WorkerStep

\* With the index of DispatchPacket corrected and no negative number in a key,
\* a worker of the proxy leaves a client without an answer only when a shard is
\* gone: no command is sent past the end of shard_servers_.
THEOREM EveryCommandDispatched == AllPlaced => (Spec => []Dispatched)
<1> SUFFICES ASSUME AllPlaced
             PROVE  Spec => []Dispatched
  OBVIOUS
<1>1. Init => GivenUp
  BY DEF Init, GivenUp
<1>2. PairInv /\ GivenUp /\ [Next]_vars => GivenUp'
  BY GivenUpStep
<1>3. GivenUp => Dispatched
  BY DEF GivenUp, Dispatched
<1> QED BY <1>1, <1>2, <1>3, PairCorrect, PTL DEF Spec

-----------------------------------------------------------------------------
(* The refinement: every step is a step of KVStore or leaves its state alone. *)

\* The state of KVStore, one client and one shard at a time.
CallOf(c) == IF client[c] = "wait" THEN pending[c] ELSE None

WorkOf(c, s) ==
  IF request[c] = None THEN to_shard[c][s]
  ELSE IF request[c].op = "getall" \/ s = Position(request[c].key)
  THEN request[c] ELSE None

AnswerOf(c, s) ==
  IF client[c] # "wait" \/ worker[c] \notin {"forward", "collect"} THEN None
  ELSE IF worker[c] = "collect" /\ s < target[c] THEN Collected(c, s)
  ELSE IF reply[c][s] # None THEN reply[c][s] ELSE from_shard[c][s]

\* A client whose part of KVStore's state a step leaves alone.
Same(d) ==
  /\ CallOf(d)' = CallOf(d) /\ response'[d] = response[d]
  /\ \A s \in Shards : WorkOf(d, s)' = WorkOf(d, s) /\ AnswerOf(d, s)' = AnswerOf(d, s)

\* A client that loses commands and answers at most.
Loses(d) ==
  /\ CallOf(d)' = CallOf(d) /\ response'[d] = response[d]
  /\ \A s \in Shards : /\ WorkOf(d, s)' \in {WorkOf(d, s), None}
                       /\ AnswerOf(d, s)' \in {AnswerOf(d, s), None}

\* The refinement mapping, client by client,
LEMMA MapFacts ==
  /\ Call = [c \in Clients |-> CallOf(c)]
  /\ Work = [c \in Clients |-> [s \in Shards |-> WorkOf(c, s)]]
  /\ Answers = [c \in Clients |-> [s \in Shards |-> AnswerOf(c, s)]]
BY DEF Call, Work, Answers, CallOf, WorkOf, AnswerOf

\* and after a step.
LEMMA MapNext ==
  /\ Call' = [c \in Clients |-> CallOf(c)']
  /\ Work' = [c \in Clients |-> [s \in Shards |-> WorkOf(c, s)']]
  /\ Answers' = [c \in Clients |-> [s \in Shards |-> AnswerOf(c, s)']]
BY DEF Call, Work, Answers, CallOf, WorkOf, AnswerOf, Collected

\* For a client that a step does not touch, the store does nothing, or loses work.
LEMMA UntouchedLoses ==
  ASSUME NEW d \in Clients, OwnInv(d), Untouched(d)
  PROVE  /\ Loses(d)
         /\ to_shard'[d] = to_shard[d] /\ reply'[d] = reply[d] => Same(d)
<1>1. CallOf(d)' = CallOf(d) /\ response'[d] = response[d]
  BY DEF Untouched, CallOf
<1>2. \A s \in Shards : WorkOf(d, s)' \in {WorkOf(d, s), None}
  BY DEF Untouched, WorkOf
<1>3. to_shard'[d] = to_shard[d] => \A s \in Shards : WorkOf(d, s)' = WorkOf(d, s)
  BY DEF Untouched, WorkOf
<1>4. ASSUME NEW s \in Shards
      PROVE  /\ AnswerOf(d, s)' \in {AnswerOf(d, s), None}
             /\ reply'[d] = reply[d] => AnswerOf(d, s)' = AnswerOf(d, s)
  <2>1. Collected(d, s)' = Collected(d, s)
    BY DEF Untouched, Collected
  <2>2. reply[d][s] # None => from_shard[d][s] = None
    BY DEF OwnInv, Routed
  <2> QED BY <2>1, <2>2 DEF Untouched, AnswerOf
<1> QED BY <1>1, <1>2, <1>3, <1>4 DEF Loses, Same

\* A step in which everybody only loses something is a failure of KVStore.
LEMMA LoseStep ==
  ASSUME TypeOK, TypeOK', UNCHANGED db, \A d \in Clients : Loses(d)
  PROVE  KV!Lose
<1>1. UNCHANGED <<Store, Call, response>>
  <2>1. Store' = Store
    BY DEF Store
  <2>2. Call' = Call
    BY MapFacts, MapNext DEF Loses
  <2>3. response' = response
    BY DEF TypeOK, Loses
  <2> QED BY <2>1, <2>2, <2>3
<1>2. KV!Fewer(Work', Work)
  <2>1. ASSUME NEW c \in Clients, NEW s \in Shards
        PROVE  WorkOf(c, s)' = IF Work'[c][s] = None THEN None ELSE Work[c][s]
    BY MapFacts, MapNext DEF Loses
  <2> QED BY <2>1, MapNext DEF KV!Fewer
<1>3. KV!Fewer(Answers', Answers)
  <2>1. ASSUME NEW c \in Clients, NEW s \in Shards
        PROVE  AnswerOf(c, s)' = IF Answers'[c][s] = None THEN None ELSE Answers[c][s]
    BY MapFacts, MapNext DEF Loses
  <2> QED BY <2>1, MapNext DEF KV!Fewer
<1> QED BY <1>1, <1>2, <1>3 DEF KV!Lose

\* The worker reads a command, which is lost where the worker gives up or the
\* shard is gone.
LEMMA ReadRefines ==
  ASSUME PairInv, PairInv', NEW c \in Clients, ReadFromClient(c)
  PROVE  KV!Lose
<1>1. /\ UNCHANGED <<clients, keys, cut, response, from_shard, shards>>
      /\ request[c] \in Commands /\ Fresh(c) /\ up /\ worker[c] = "read"
      /\ request'[c] = None /\ packet'[c] = request[c]
      /\ \A d \in Clients : d # c => /\ request'[d] = request[d]
                                     /\ packet'[d] = packet[d]
      /\ \E S : Reads(c, S)
  BY ReadFacts
<1>2. PICK S : Reads(c, S)
  BY <1>1
<1>3. \A d \in Clients : d # c => Loses(d)
  <2>1. \A d \in Clients : d # c => Untouched(d)
    BY <1>1, <1>2 DEF Untouched, Reads
  <2> QED BY <2>1, UntouchedLoses DEF PairInv
<1>4. Loses(c)
  <2>1. CallOf(c)' = CallOf(c) /\ response'[c] = response[c]
    BY <1>1 DEF CallOf
  <2>2. ASSUME NEW s \in Shards
        PROVE  WorkOf(c, s)' \in {WorkOf(c, s), None}
    <3>1. WorkOf(c, s)' = to_shard'[c][s]
      BY <1>1 DEF WorkOf
    <3>2. to_shard'[c][s] = None \/ (s \in S /\ to_shard'[c][s] = request[c])
      BY <1>2 DEF Reads
    <3>3. s \in S => request[c].op = "getall" \/ s = Position(request[c].key)
      BY <1>2 DEF Reads
    <3>4. request[c] # None
      BY <1>1, CommandFacts
    <3>5. request[c].op = "getall" \/ s = Position(request[c].key) =>
            WorkOf(c, s) = request[c]
      BY <3>4 DEF WorkOf
    <3> QED BY <3>1, <3>2, <3>3, <3>5
  <2>3. ASSUME NEW s \in Shards
        PROVE  AnswerOf(c, s)' = None
    <3>1. from_shard'[c][s] = None /\ reply'[c][s] = None
      BY <1>1 DEF Fresh, Clean, Clear
    <3>2. worker'[c] = "collect" => ~(s < target'[c])
      BY <1>2, ShardFacts DEF Reads
    <3> QED BY <3>1, <3>2 DEF AnswerOf
  <2> QED BY <2>1, <2>2, <2>3 DEF Loses
<1> QED BY <1>1, <1>3, <1>4, LoseStep DEF PairInv

\* The worker reads what a shard has sent: that part of the answer stays.
LEMMA CollectRefines ==
  ASSUME PairInv, PairInv', NEW c \in Clients, Collect(c)
  PROVE  KV!Lose
<1>1. PICK t \in Shards, resp \in Responses :
           /\ Busy(c) /\ up /\ worker[c] = "collect"
           /\ from_shard[c][t] = resp /\ resp.op = "getall" /\ resp.n = packet[c].n
           /\ resp.keys \in SUBSET Keys /\ \A k \in resp.keys : Position(k) = t
           /\ resp.cut \in BOOLEAN
           /\ Collects(c, t, resp.keys, IF resp.cut THEN cut[c] \cup {t} ELSE cut[c])
  BY CollectFacts
<1>2. Collecting(c)
  BY <1>1, BusyFacts
<1>3. /\ UNCHANGED <<clients, worker, packet, request, response, to_shard, reply, db>>
      /\ target[c] = t /\ target'[c] = t + 1 /\ keys'[c] = keys[c] \cup resp.keys
      /\ cut'[c] = IF resp.cut THEN cut[c] \cup {t} ELSE cut[c]
      /\ \A s \in Shards : s # t => from_shard'[c][s] = from_shard[c][s]
  BY <1>1 DEF Collects
<1>4. \A d \in Clients : d # c => Loses(d)
  <2>1. \A d \in Clients : d # c => Untouched(d)
    BY <1>1 DEF Untouched, Collects
  <2> QED BY <2>1, UntouchedLoses DEF PairInv
<1>5. Loses(c)
  <2>1. CallOf(c)' = CallOf(c) /\ response'[c] = response[c]
    BY <1>3 DEF CallOf
  <2>2. \A s \in Shards : WorkOf(c, s)' = WorkOf(c, s)
    BY <1>3 DEF WorkOf
  <2>3. ASSUME NEW s \in Shards
        PROVE  AnswerOf(c, s)' = AnswerOf(c, s)
    <3>0. s \in Int /\ t \in Int
      BY ShardFacts
    <3>1. CASE client[c] # "wait"
      BY <1>3, <3>1 DEF AnswerOf
    <3>2. CASE client[c] = "wait" /\ s < t
      <4>1. {k \in keys'[c] : Position(k) = s} = {k \in keys[c] : Position(k) = s}
        BY <1>1, <1>3, <3>0, <3>2
      <4>0. (s \in cut'[c]) = (s \in cut[c])
        BY <1>3, <3>0, <3>2
      <4>2. Collected(c, s)' = Collected(c, s)
        BY <1>3, <4>1, <4>0 DEF Collected
      <4>3. AnswerOf(c, s) = Collected(c, s)
        BY <1>1, <1>3, <3>2 DEF AnswerOf
      <4>4. s < target'[c]
        BY <1>3, <3>0, <3>2
      <4>5. AnswerOf(c, s)' = Collected(c, s)'
        BY <1>1, <1>3, <3>2, <4>4 DEF AnswerOf
      <4> QED BY <4>2, <4>3, <4>5
    <3>3. CASE client[c] = "wait" /\ s = t
      <4>1. {k \in keys'[c] : Position(k) = t} = resp.keys
        <5>1. \A k \in keys[c] : Position(k) # t
          BY <1>2, <1>3, <3>0, ShardFacts DEF Collecting, Clear
        <5> QED BY <1>1, <1>3, <5>1
      <4>2. resp = [n |-> packet[c].n, op |-> "getall", keys |-> resp.keys,
                    cut |-> resp.cut]
        <5>1. resp \in [n : Nat, op : {"getall"}, keys : SUBSET Keys, cut : BOOLEAN]
          BY <1>1 DEF Responses
        <5> QED BY <1>1, <5>1
      <4>0. (t \in cut'[c]) = resp.cut
        <5>1. t \notin cut[c]
          BY <1>2, <1>3, <3>0 DEF Collecting
        <5> QED BY <1>1, <1>3, <5>1
      <4>3. Collected(c, t)' = resp
        BY <1>3, <4>0, <4>1, <4>2 DEF Collected
      <4>4. AnswerOf(c, t) = resp
        <5>1. reply[c][t] = None
          BY <1>1, BusyFacts, ResponseFacts DEF Routed
        <5> QED BY <1>1, <1>3, <3>0, <3>3, <5>1 DEF AnswerOf
      <4>5. t < target'[c]
        BY <1>3, <3>0
      <4>6. AnswerOf(c, t)' = Collected(c, t)'
        BY <1>1, <1>3, <3>3, <4>5 DEF AnswerOf
      <4> QED BY <3>3, <4>3, <4>4, <4>6
    <3>4. CASE client[c] = "wait" /\ s > t
      <4>1. ~(s < target'[c]) /\ ~(s < target[c]) /\ s # t
        BY <1>3, <3>0, <3>4
      <4> QED BY <1>1, <1>3, <3>4, <4>1 DEF AnswerOf
    <3> QED BY <3>0, <3>1, <3>2, <3>3, <3>4
  <2> QED BY <2>1, <2>2, <2>3 DEF Loses
<1> QED BY <1>3, <1>4, <1>5, LoseStep DEF PairInv

\* A client that connects, a worker that is set up or gives up, and a process that
\* ends lose commands and answers at most.
LEMMA OthersRefine ==
  ASSUME PairInv, PairInv',
         \/ \E c \in Clients : ConnectTo(c) \/ Accept(c) \/ ReadEof(c) \/ ShardLost(c)
         \/ Ends \/ UNCHANGED vars
  PROVE  KV!Lose
<1>0. TypeOK /\ TypeOK'
  BY DEF PairInv
<1>1. CASE \E c \in Clients : ConnectTo(c) \/ Accept(c) \/ ReadEof(c) \/ ShardLost(c)
  <2>1. PICK c \in Clients : ConnectTo(c) \/ Accept(c) \/ ReadEof(c) \/ ShardLost(c)
    BY <1>1
  <2>2. /\ UNCHANGED <<pending, wires, shards>> /\ (up' => up)
        /\ CallOf(c)' = CallOf(c)
        /\ \A d \in Clients : d # c => client'[d] = client[d]
    BY <1>0, <2>1 DEF ConnectTo, Accept, ReadEof, ShardLost, TypeOK, CallOf
  <2>3. \A d \in Clients : d # c =>
          /\ worker'[d] = worker[d] /\ packet'[d] = packet[d] /\ target'[d] = target[d]
          /\ keys'[d] = keys[d] /\ cut'[d] = cut[d]
    <3>1. CASE ConnectTo(c) \/ ReadEof(c)
      BY <1>0, <3>1 DEF ConnectTo, ReadEof, Become, TypeOK
    <3>2. CASE Accept(c)
      BY <1>0, <3>2 DEF Accept, AcceptError, Created, NotCreated, Become, TypeOK
    <3>3. CASE ShardLost(c)
      BY <1>0, <3>3 DEF ShardLost, RoundEnds, Become, TypeOK
    <3> QED BY <2>1, <3>1, <3>2, <3>3
  <2>4. worker'[c] \notin {"forward", "collect"}
    BY <1>0, <2>1 DEF ConnectTo, Accept, ReadEof, ShardLost, AcceptError, Created,
                      NotCreated, Become, Failure, TypeOK
  <2>5. Loses(c)
    BY <2>2, <2>4 DEF Loses, WorkOf, AnswerOf
  <2>6. \A d \in Clients : d # c => Untouched(d)
    BY <2>2, <2>3 DEF Untouched
  <2>7. \A d \in Clients : d # c => Loses(d)
    BY <2>6, UntouchedLoses DEF PairInv
  <2> QED BY <1>0, <2>2, <2>5, <2>7, LoseStep
<1>2. CASE Ends \/ UNCHANGED vars
  <2>1. UNCHANGED db /\ \A d \in Clients : Untouched(d)
    BY <1>2 DEF Ends, vars, Untouched
  <2>2. \A d \in Clients : Loses(d)
    BY <2>1, UntouchedLoses DEF PairInv
  <2> QED BY <1>0, <2>1, <2>2, LoseStep
<1> QED BY <1>1, <1>2

\* A response on its way to the proxy is still the same answer, unless it is lost
\* with its shard.
LEMMA SendRefines ==
  ASSUME PairInv, PairInv', NEW c \in Clients, NEW s \in Shards, SendResponse(c, s)
  PROVE  KV!Lose
<1>1. CASE Sends(c, s)
  <2>1. /\ UNCHANGED <<clients, proxy, request, response, to_shard, db>>
        /\ reply[c][s] # None /\ reply'[c][s] = None /\ from_shard'[c][s] = reply[c][s]
        /\ \A t \in Shards : t # s => /\ reply'[c][t] = reply[c][t]
                                      /\ from_shard'[c][t] = from_shard[c][t]
    BY <1>1, ResponseFacts DEF Sends
  <2>2. \A d \in Clients : d # c => Loses(d)
    <3>1. \A d \in Clients : d # c => Untouched(d)
      BY <1>1 DEF Untouched, Sends
    <3> QED BY <3>1, UntouchedLoses DEF PairInv
  <2>3. Loses(c)
    <3>1. CallOf(c)' = CallOf(c) /\ \A t \in Shards : WorkOf(c, t)' = WorkOf(c, t)
      BY <2>1 DEF CallOf, WorkOf
    <3>2. \A t \in Shards : Collected(c, t)' = Collected(c, t)
      BY <2>1 DEF Collected
    <3>3. \A t \in Shards : AnswerOf(c, t)' = AnswerOf(c, t)
      BY <2>1, <3>2 DEF AnswerOf
    <3> QED BY <2>1, <3>1, <3>3 DEF Loses
  <2> QED BY <2>1, <2>2, <2>3, LoseStep DEF PairInv
<1>2. CASE Ends
  BY <1>2, OthersRefine
<1> QED BY <1>1, <1>2, SendFacts

\* Where all clients but c are left alone, KVStore's state changes at c only.
LEMMA OnlyOne ==
  ASSUME TypeOK, TypeOK', NEW c \in Clients, \A d \in Clients : d # c => Same(d)
  PROVE  /\ Call' = [Call EXCEPT ![c] = CallOf(c)']
         /\ response' = [response EXCEPT ![c] = response'[c]]
         /\ Work' = [Work EXCEPT ![c] = [s \in Shards |-> WorkOf(c, s)']]
         /\ Answers' = [Answers EXCEPT ![c] = [s \in Shards |-> AnswerOf(c, s)']]
<1>1. Call' = [Call EXCEPT ![c] = CallOf(c)']
  BY MapFacts, MapNext DEF Same
<1>2. response' = [response EXCEPT ![c] = response'[c]]
  BY DEF TypeOK, Same
<1>3. Work' = [Work EXCEPT ![c] = [s \in Shards |-> WorkOf(c, s)']]
  <2>1. \A d \in Clients : d # c =>
          [s \in Shards |-> WorkOf(d, s)'] = [s \in Shards |-> WorkOf(d, s)]
    BY DEF Same
  <2> QED BY <2>1, MapFacts, MapNext
<1>4. Answers' = [Answers EXCEPT ![c] = [s \in Shards |-> AnswerOf(c, s)']]
  <2>1. \A d \in Clients : d # c =>
          [s \in Shards |-> AnswerOf(d, s)'] = [s \in Shards |-> AnswerOf(d, s)]
    BY DEF Same
  <2> QED BY <2>1, MapFacts, MapNext
<1> QED BY <1>1, <1>2, <1>3, <1>4

\* And what does not change at c does not change at all.
LEMMA OnlyOneKept ==
  ASSUME TypeOK, TypeOK', NEW c \in Clients, \A d \in Clients : d # c => Same(d)
  PROVE  /\ CallOf(c)' = CallOf(c) => Call' = Call
         /\ response'[c] = response[c] => response' = response
         /\ (\A s \in Shards : WorkOf(c, s)' = WorkOf(c, s)) => Work' = Work
         /\ (\A s \in Shards : AnswerOf(c, s)' = AnswerOf(c, s)) => Answers' = Answers
<1>1. CallOf(c)' = CallOf(c) => Call' = Call
  BY MapFacts, MapNext DEF Same
<1>2. response'[c] = response[c] => response' = response
  BY DEF TypeOK, Same
<1>3. (\A s \in Shards : WorkOf(c, s)' = WorkOf(c, s)) => Work' = Work
  BY MapFacts, MapNext DEF Same
<1>4. (\A s \in Shards : AnswerOf(c, s)' = AnswerOf(c, s)) => Answers' = Answers
  BY MapFacts, MapNext DEF Same
<1> QED BY <1>1, <1>2, <1>3, <1>4

\* The client's call, unless the client dies before it has sent anything.
LEMMA InvokeRefines ==
  ASSUME PairInv, PairInv', NEW c \in Clients, Invoke(c)
  PROVE  KV!Call(c) \/ KV!Lose
<1>0. TypeOK /\ TypeOK' /\ OwnInv(c)
  BY DEF PairInv
<1>1. /\ UNCHANGED <<proxy, response, to_shard, from_shard, shards>>
      /\ client[c] = "ready"
  BY DEF Invoke
<1>2. request[c] = None /\ Fresh(c)
  BY <1>0, <1>1 DEF OwnInv, Rest
<1>3. /\ \A s \in Shards : WorkOf(c, s) = None /\ AnswerOf(c, s) = None
      /\ CallOf(c) = None
  BY <1>1, <1>2 DEF WorkOf, AnswerOf, CallOf, Fresh, Clean, Clear
<1>4. Store' = Store
  BY <1>1 DEF Store
<1>5. CASE "null_buf" \in Repairs
  <2>1. PICK p \in Commands :
            /\ pending' = [pending EXCEPT ![c] = p]
            /\ request' = [request EXCEPT ![c] = p]
            /\ client' = [client EXCEPT ![c] = "wait"]
    BY <1>5 DEF Invoke
  <2>2. /\ pending'[c] = p /\ request'[c] = p /\ client'[c] = "wait" /\ p # None
        /\ \A d \in Clients : d # c => /\ pending'[d] = pending[d]
                                       /\ request'[d] = request[d]
                                       /\ client'[d] = client[d]
    BY <1>0, <2>1, CommandFacts DEF TypeOK
  <2>3. \A d \in Clients : d # c => Same(d)
    <3>1. \A d \in Clients : d # c =>
            Untouched(d) /\ to_shard'[d] = to_shard[d] /\ reply'[d] = reply[d]
      BY <1>1, <2>2 DEF Untouched
    <3> QED BY <3>1, UntouchedLoses DEF PairInv
  <2>4. CallOf(c)' = p
    BY <2>2 DEF CallOf
  <2>5. ASSUME NEW s \in Shards
        PROVE  WorkOf(c, s)' = IF s \in KV!PartsOf(p) THEN p ELSE None
    <3>1. WorkOf(c, s)' = IF p.op = "getall" \/ s = Position(p.key) THEN p ELSE None
      BY <2>2 DEF WorkOf
    <3>2. s \in KV!PartsOf(p) <=> p.op = "getall" \/ s = Position(p.key)
      <4>1. CASE p.op = "getall"
        BY <4>1 DEF KV!PartsOf
      <4>2. CASE p.op # "getall"
        <5>1. p.key \in Keys
          BY <4>2, CommandFacts
        <5> QED BY <4>2, <5>1 DEF KV!PartsOf
      <4> QED BY <4>1, <4>2
    <3> QED BY <3>1, <3>2
  <2>6. \A s \in Shards : AnswerOf(c, s)' = AnswerOf(c, s)
    BY <1>1, <1>2, <1>3 DEF AnswerOf, Fresh, Waiting
  <2>7. /\ Call' = [Call EXCEPT ![c] = p]
        /\ Work' = [Work EXCEPT ![c] =
             [s \in Shards |-> IF s \in KV!PartsOf(p) THEN p ELSE None]]
    BY <1>0, <2>3, <2>4, <2>5, OnlyOne
  <2>8. Answers' = Answers /\ response' = response
    BY <1>0, <1>1, <2>3, <2>6, OnlyOneKept
  <2>9. Call[c] = None /\ Work[c] = KV!NoPart
    BY <1>3, MapFacts DEF KV!NoPart
  <2> QED BY <1>4, <2>7, <2>8, <2>9 DEF KV!Call
<1>6. CASE "null_buf" \notin Repairs
  <2>1. /\ UNCHANGED <<pending, request>> /\ client'[c] = "crashed"
        /\ \A d \in Clients : d # c => client'[d] = client[d]
    BY <1>0, <1>6 DEF Invoke, TypeOK
  <2>2. Loses(c)
    BY <1>1, <1>3, <2>1 DEF Loses, CallOf, WorkOf, AnswerOf
  <2>3. \A d \in Clients : d # c => Untouched(d)
    BY <1>1, <2>1 DEF Untouched
  <2>4. \A d \in Clients : d # c => Loses(d)
    BY <2>3, UntouchedLoses DEF PairInv
  <2> QED BY <1>0, <1>1, <2>2, <2>4, LoseStep
<1> QED BY <1>5, <1>6

\* The client's call returns, or the client does not wait any longer.
LEMMA ClientRefines ==
  ASSUME PairInv, PairInv', NEW c \in Clients, Return(c) \/ Eof(c) \/ Quit(c)
  PROVE  KV!Return(c) \/ KV!GiveUp(c) \/ KV!Lose
<1>0. TypeOK /\ TypeOK' /\ OwnInv(c)
  BY DEF PairInv
<1>1. /\ UNCHANGED <<proxy, request, to_shard, from_shard, shards>>
      /\ \A d \in Clients : d # c => /\ client'[d] = client[d]
                                     /\ pending'[d] = pending[d]
                                     /\ response'[d] = response[d]
      /\ response'[c] = None /\ client'[c] # "wait"
      /\ client[c] \in {"ready", "wait"}
  BY <1>0 DEF Return, Eof, Quit, TypeOK
<1>2. \A d \in Clients : d # c => Same(d) /\ Loses(d)
  <2>1. \A d \in Clients : d # c =>
          Untouched(d) /\ to_shard'[d] = to_shard[d] /\ reply'[d] = reply[d]
    BY <1>1 DEF Untouched
  <2> QED BY <2>1, UntouchedLoses DEF PairInv
<1>3. /\ CallOf(c)' = None /\ \A s \in Shards : WorkOf(c, s)' = WorkOf(c, s)
      /\ \A s \in Shards : AnswerOf(c, s)' = None
  BY <1>1 DEF CallOf, WorkOf, AnswerOf
<1>4. /\ Store' = Store /\ Work' = Work
      /\ Call' = [Call EXCEPT ![c] = None]
      /\ response' = [response EXCEPT ![c] = None]
  <2>1. Store' = Store
    BY <1>1 DEF Store
  <2>2. Work' = Work
    BY <1>0, <1>2, <1>3, OnlyOneKept
  <2> QED BY <1>0, <1>1, <1>2, <1>3, <2>1, <2>2, OnlyOne
<1>5. Answers' = [Answers EXCEPT ![c] = KV!NoPart]
  BY <1>0, <1>2, <1>3, OnlyOne DEF KV!NoPart
<1>6. CASE Return(c)
  <2>1. response[c] # None
    BY <1>6 DEF Return
  <2>2. Fresh(c)
    BY <1>0, <2>1 DEF OwnInv, Rest
  <2>3. \A s \in Shards : AnswerOf(c, s)' = AnswerOf(c, s)
    BY <1>3, <2>2 DEF AnswerOf, Fresh, Waiting
  <2>4. Answers' = Answers
    BY <1>0, <1>2, <2>3, OnlyOneKept
  <2> QED BY <1>4, <2>1, <2>4 DEF KV!Return
<1>7. CASE client[c] = "wait" /\ (Eof(c) \/ Quit(c))
  <2>1. CallOf(c) # None
    BY <1>0, <1>7, CommandFacts DEF OwnInv, Paired, CallOf
  <2>2. Call[c] # None
    BY <2>1, MapFacts
  <2> QED BY <1>4, <1>5, <2>2 DEF KV!GiveUp
<1>8. CASE client[c] = "ready"
  <2>1. CallOf(c) = None /\ response[c] = None
    BY <1>0, <1>8 DEF CallOf, OwnInv, Paired
  <2>2. Loses(c)
    BY <1>1, <1>3, <2>1 DEF Loses
  <2> QED BY <1>0, <1>1, <1>2, <2>2, LoseStep
<1> QED BY <1>1, <1>6, <1>7, <1>8

\* The parts of the answer that a client waits for are complete, and resp is made
\* of them.
Complete(c, resp) ==
  /\ KV!PartsOf(packet[c]) # {}
  /\ \A s \in KV!PartsOf(packet[c]) : Answers[c][s] # None
  /\ resp = KV!Whole(packet[c], Answers[c])

\* A response that is passed on is all the store has to say to the command.
LEMMA ForwardComplete ==
  ASSUME PairInv, NEW c \in Clients, Busy(c), up, worker[c] = "forward",
         client[c] = "wait", target[c] \in Shards, from_shard[c][target[c]] # None
  PROVE  Complete(c, from_shard[c][target[c]])
<1>1. packet[c] \in Commands /\ Forwarding(c)
  BY BusyFacts
<1>2. /\ packet[c].op # "getall" /\ packet[c].key \in Keys
      /\ Position(packet[c].key) = target[c]
  BY <1>1, CommandFacts DEF Forwarding, Clear
<1>3. KV!PartsOf(packet[c]) = {target[c]}
  BY <1>2 DEF KV!PartsOf
<1>4. Answers[c][target[c]] = from_shard[c][target[c]]
  <2>1. reply[c][target[c]] = None
    BY BusyFacts DEF Routed
  <2> QED BY <2>1, MapFacts DEF AnswerOf
<1>5. KV!Whole(packet[c], Answers[c]) = Answers[c][target[c]]
  BY <1>2 DEF KV!Whole
<1> QED BY <1>3, <1>4, <1>5 DEF Complete

\* So are the keys once every shard has been asked.
LEMMA CollectComplete ==
  ASSUME PairInv, NEW c \in Clients, Busy(c), up, worker[c] = "collect",
         client[c] = "wait", target[c] = NumShards
  PROVE  Complete(c, [n |-> packet[c].n, op |-> "getall", keys |-> keys[c],
                      cut |-> cut[c] # {}])
<1>1. packet[c] \in Commands /\ Collecting(c) /\ TypeOK
  BY BusyFacts DEF PairInv
<1>2. packet[c].op = "getall" /\ packet[c].n \in Nat
  BY <1>1, CommandFacts DEF Collecting, Clear
<1>3. KV!PartsOf(packet[c]) = Shards /\ Shards # {}
  BY <1>2, ShardFacts DEF KV!PartsOf
<1>4. ASSUME NEW s \in Shards
      PROVE  /\ Answers[c][s] = Collected(c, s) /\ Answers[c][s] # None
             /\ Answers[c][s].keys = {k \in keys[c] : Position(k) = s}
             /\ Answers[c][s].cut = (s \in cut[c])
  <2>1. s < target[c]
    BY ShardFacts
  <2>2. Answers[c][s] = Collected(c, s)
    BY <2>1, MapFacts DEF AnswerOf
  <2>3. {k \in keys[c] : Position(k) = s} \in SUBSET Keys /\ (s \in cut[c]) \in BOOLEAN
    BY <1>1 DEF TypeOK
  <2>4. Collected(c, s) \in Responses
    BY <1>2, <2>3, ResponseFacts DEF Collected
  <2>5. /\ Collected(c, s).keys = {k \in keys[c] : Position(k) = s}
        /\ Collected(c, s).cut = (s \in cut[c])
    BY DEF Collected
  <2> QED BY <2>2, <2>4, <2>5, ResponseFacts
<1>5. UNION {Answers[c][s].keys : s \in Shards} = keys[c]
  <2>1. ASSUME NEW k \in keys[c]
        PROVE  k \in UNION {Answers[c][s].keys : s \in Shards}
    <3>1. Position(k) \in Shards
      BY <1>1 DEF Collecting, Clear
    <3>2. k \in Answers[c][Position(k)].keys
      BY <1>4, <3>1
    <3> QED BY <3>1, <3>2
  <2>2. ASSUME NEW k \in UNION {Answers[c][s].keys : s \in Shards}
        PROVE  k \in keys[c]
    <3>1. PICK s \in Shards : k \in Answers[c][s].keys
      OBVIOUS
    <3> QED BY <1>4, <3>1
  <2> QED BY <2>1, <2>2
<1>6. (\E s \in Shards : Answers[c][s].cut) = (cut[c] # {})
  <2>1. cut[c] \subseteq Shards
    BY <1>1 DEF TypeOK
  <2>2. \A s \in Shards : Answers[c][s].cut = (s \in cut[c])
    BY <1>4
  <2> QED BY <2>1, <2>2
<1>7. KV!Whole(packet[c], Answers[c])
        = [n |-> packet[c].n, op |-> "getall", keys |-> keys[c], cut |-> cut[c] # {}]
  BY <1>2, <1>5, <1>6 DEF KV!Whole
<1> QED BY <1>3, <1>4, <1>7 DEF Complete

\* The answer is put together and sent to the client, which may have left.
LEMMA ReplyRefines ==
  ASSUME PairInv, PairInv', NEW c \in Clients, Forward(c) \/ ReplyAll(c)
  PROVE  KV!Answer(c) \/ KV!Lose
<1>0. TypeOK /\ TypeOK' /\ OwnInv(c)
  BY DEF PairInv
<1>1. PICK resp \in Responses :
        /\ Busy(c) /\ up /\ Replied(c, resp)
        /\ client[c] = "wait" => Complete(c, resp)
  <2>1. CASE Forward(c)
    BY <2>1, ForwardFacts, ForwardComplete, ResponseFacts
  <2>2. CASE ReplyAll(c)
    BY <2>2, ReplyAllFacts, CollectComplete
  <2> QED BY <2>1, <2>2
<1>2. packet[c] \in Commands /\ request[c] = None /\ response[c] = None
  BY <1>1, BusyFacts
<1>3. /\ UNCHANGED <<clients, request, to_shard, shards>>
      /\ \A d \in Clients : d # c => Same(d) /\ Loses(d)
  <2>1. UNCHANGED <<clients, request, to_shard, shards>>
    BY <1>1 DEF Replied
  <2>2. \A d \in Clients : d # c => Untouched(d)
    BY <1>1 DEF Untouched, Replied
  <2> QED BY <2>1, <2>2, UntouchedLoses DEF PairInv
<1>4. /\ CallOf(c)' = CallOf(c)
      /\ \A s \in Shards : WorkOf(c, s)' = WorkOf(c, s)
  BY <1>3 DEF CallOf, WorkOf
<1>5. \A s \in Shards : AnswerOf(c, s)' = None
  BY <1>1, <1>3 DEF AnswerOf, Replied
<1>6. CASE client[c] # "wait"
  <2>1. response'[c] = response[c]
    BY <1>1, <1>6 DEF Replied
  <2>2. Loses(c)
    BY <1>4, <1>5, <2>1 DEF Loses
  <2> QED BY <1>0, <1>3, <2>2, LoseStep
<1>7. CASE client[c] = "wait"
  <2>1. CallOf(c) = packet[c]
    BY <1>0, <1>1, <1>7 DEF OwnInv, Paired, CallOf
  <2>2. Call[c] = packet[c] /\ Call[c] # None
    BY <1>2, <2>1, CommandFacts, MapFacts
  <2>3. Store' = Store /\ Call' = Call /\ Work' = Work
    BY <1>0, <1>3, <1>4, OnlyOneKept DEF Store
  <2>4. response'[c] = resp
    BY <1>1, <1>7 DEF Replied
  <2>5. response' = [response EXCEPT ![c] = resp]
    BY <1>0, <1>3, <2>4, OnlyOne
  <2>6. Answers' = [Answers EXCEPT ![c] = KV!NoPart]
    BY <1>0, <1>3, <1>5, OnlyOne DEF KV!NoPart
  <2>7. Complete(c, resp)
    BY <1>1, <1>7
  <2> QED BY <1>2, <2>2, <2>3, <2>5, <2>6, <2>7 DEF KV!Answer, Complete
<1> QED BY <1>6, <1>7

\* What the store becomes when shard s becomes new.
LEMMA StoreFacts ==
  ASSUME TypeOK, NEW s \in Shards, NEW new,
         db' \in [Shards -> Stores], db'[s] = new,
         \A t \in Shards : t # s => db'[t] = db[t]
  PROVE  /\ Store = [k \in Keys |-> Store[k]] /\ Store' = [k \in Keys |-> Store'[k]]
         /\ \A k \in Keys : Position(k) = s => Store[k] = db[s][k] /\ Store'[k] = new[k]
         /\ \A k \in Keys : Position(k) # s => Store'[k] = Store[k]
BY DEF Store

\* What RocksDB does at one shard is an outcome of the command in the whole store.
LEMMA OutcomeFacts ==
  ASSUME TypeOK, Placed, NEW s \in Shards, NEW p \in Commands,
         NEW done \in Done(p, db[s]), db[s] \in Stores,
         p.op = "getall" \/ Position(p.key) = s,
         db' \in [Shards -> Stores], db'[s] = done[1],
         \A t \in Shards : t # s => db'[t] = db[t]
  PROVE  <<Store', done[2]>> \in KV!Outcomes(p, s)
<1>1. /\ Store = [k \in Keys |-> Store[k]] /\ Store' = [k \in Keys |-> Store'[k]]
      /\ \A k \in Keys : Position(k) = s =>
           Store[k] = db[s][k] /\ Store'[k] = done[1][k]
      /\ \A k \in Keys : Position(k) # s => Store'[k] = Store[k]
  BY StoreFacts
<1>2. done[1] = db[s] => Store' = Store
  BY <1>1
<1>3. CASE p.op = "get"
  <2>1. done \in
         {<<db[s], [n |-> p.n, op |-> "get", val |-> db[s][p.key],
                    status |-> IF db[s][p.key] = None THEN "err" ELSE "ok"]>>,
          <<db[s], [n |-> p.n, op |-> "get", val |-> None, status |-> "err"]>>}
    BY <1>3 DEF Done
  <2>2. Store[p.key] = db[s][p.key] /\ Store' = Store
    BY <1>1, <1>2, <1>3, <2>1, CommandFacts
  <2>3. KV!Outcomes(p, s) =
          {<<Store, [n |-> p.n, op |-> "get", status |-> "err", val |-> None]>>} \cup
          (IF Store[p.key] = None THEN {}
           ELSE {<<Store, [n |-> p.n, op |-> "get", status |-> "ok",
                           val |-> Store[p.key]]>>})
    BY <1>3 DEF KV!Outcomes
  <2>4. \/ done[2] = [n |-> p.n, op |-> "get", status |-> "err", val |-> None]
        \/ /\ Store[p.key] # None
           /\ done[2] = [n |-> p.n, op |-> "get", status |-> "ok", val |-> Store[p.key]]
    BY <2>1, <2>2
  <2> QED BY <2>2, <2>3, <2>4
<1>4. CASE p.op = "put" \/ p.op = "delete"
  <2>1. PICK v : v = IF p.op = "put" THEN p.val ELSE None
    OBVIOUS
  <2>2. done \in
         {<<[db[s] EXCEPT ![p.key] = v],
            [n |-> p.n, op |-> "put", val |-> None, status |-> "ok"]>>,
          <<db[s], [n |-> p.n, op |-> "put", val |-> None, status |-> "err"]>>}
    BY <1>4, <2>1 DEF Done
  <2>3. KV!Outcomes(p, s) =
          {<<Store, [n |-> p.n, op |-> "put", status |-> "err", val |-> None]>>,
           <<[Store EXCEPT ![p.key] = v],
             [n |-> p.n, op |-> "put", status |-> "ok", val |-> None]>>}
    <3>1. CASE p.op = "put"
      BY <2>1, <3>1 DEF KV!Outcomes
    <3>2. CASE p.op = "delete"
      BY <2>1, <3>2 DEF KV!Outcomes
    <3> QED BY <1>4, <3>1, <3>2
  <2>4. p.key \in Keys /\ Position(p.key) = s
    BY <1>4, CommandFacts
  <2>5. done[1] = [db[s] EXCEPT ![p.key] = v] => Store' = [Store EXCEPT ![p.key] = v]
    BY <1>1, <2>4 DEF Stores
  <2> QED BY <1>2, <2>2, <2>3, <2>5
<1>5. CASE p.op = "getall"
  <2>0. PICK all : all = {k \in p.prefix : db[s][k] # None}
    OBVIOUS
  <2>1. PICK some \in SUBSET all :
          done = <<db[s], [n |-> p.n, op |-> "getall", keys |-> some,
                           cut |-> some # all]>>
    BY <1>5, <2>0 DEF Done
  <2>2. p.prefix \in SUBSET Keys
    BY <1>5, CommandFacts
  <2>3. all = {k \in p.prefix : Position(k) = s /\ Store[k] # None}
    BY <1>1, <2>0, <2>2 DEF Placed
  <2>4. all = {k \in p.prefix : [j \in Keys |-> Position(j)][k] = s /\ Store[k] # None}
    BY <2>2, <2>3
  <2>5. Store' = Store
    BY <1>2, <2>1
  <2>6. done[2] = [n |-> p.n, op |-> "getall", keys |-> some, cut |-> some # all]
    BY <2>1
  <2>7. <<Store, [n |-> p.n, op |-> "getall", keys |-> some, cut |-> some # all]>>
          \in KV!Outcomes(p, s)
    BY <1>5, <2>4 DEF KV!Outcomes
  <2> QED BY <2>5, <2>6, <2>7
<1> QED BY <1>3, <1>4, <1>5, CommandFacts

\* The command takes effect at the shard.
LEMMA HandleRefines ==
  ASSUME PairInv, PairInv', NEW c \in Clients, NEW s \in Shards, HandleClient(c, s)
  PROVE  KV!Apply(c, s)
<1>0. TypeOK /\ TypeOK' /\ OwnInv(c) /\ Placed
  BY DEF PairInv
<1>1. PICK p \in Commands : \E done \in Done(p, db[s]) :
           /\ db[s] \in Stores /\ Handled(c, s, p, done)
           /\ p.op = "getall" \/ Position(p.key) = s
           /\ request[c] = None
  BY HandleFacts
<1>2. PICK done \in Done(p, db[s]) :
           /\ db[s] \in Stores /\ Handled(c, s, p, done)
           /\ p.op = "getall" \/ Position(p.key) = s
           /\ request[c] = None
  BY <1>1
<1>3. <<Store', done[2]>> \in KV!Outcomes(p, s)
  BY <1>0, <1>2, OutcomeFacts DEF Handled
<1>4. \A d \in Clients : d # c => Same(d)
  <2>1. \A d \in Clients : d # c =>
          Untouched(d) /\ to_shard'[d] = to_shard[d] /\ reply'[d] = reply[d]
    BY <1>2 DEF Untouched, Handled
  <2> QED BY <2>1, UntouchedLoses DEF PairInv
<1>5. /\ UNCHANGED <<clients, proxy, request, response, from_shard>> /\ p # None
      /\ to_shard[c][s] = p /\ to_shard'[c][s] = None
      /\ reply'[c][s] = done[2] /\ done[2] # None
      /\ \A t \in Shards : t # s => /\ reply'[c][t] = reply[c][t]
                                    /\ to_shard'[c][t] = to_shard[c][t]
  <2>1. done[2] # None
    BY <1>2, DoneFacts, ResponseFacts
  <2> QED BY <1>2, <2>1, CommandFacts DEF Handled
<1>6. Call' = Call /\ response' = response
  <2>1. CallOf(c)' = CallOf(c)
    BY <1>5 DEF CallOf
  <2> QED BY <1>0, <1>4, <1>5, <2>1, OnlyOneKept
<1>7. Work[c][s] = p /\ Work' = [Work EXCEPT ![c][s] = None]
  <2>1. /\ WorkOf(c, s) = p /\ WorkOf(c, s)' = None
        /\ \A t \in Shards : t # s => WorkOf(c, t)' = WorkOf(c, t)
    BY <1>2, <1>5 DEF WorkOf
  <2>2. Work' = [Work EXCEPT ![c] = [t \in Shards |-> WorkOf(c, t)']]
    BY <1>0, <1>4, OnlyOne
  <2>3. Work[c] = [t \in Shards |-> WorkOf(c, t)]
    BY MapFacts
  <2>4. [t \in Shards |-> WorkOf(c, t)'] = [Work[c] EXCEPT ![s] = None]
    BY <2>1, <2>3
  <2> QED BY <2>1, <2>2, <2>3, <2>4
<1>8. Answers' \in {Answers, [Answers EXCEPT ![c][s] = done[2]]}
  <2>1. \A t \in Shards : t # s => AnswerOf(c, t)' = AnswerOf(c, t)
    BY <1>5 DEF AnswerOf, Collected
  <2>2. CASE client[c] = "wait" /\ Busy(c)
    <3>1. packet[c] # None
      BY <1>0, <2>2, CommandFacts DEF OwnInv, Paired
    <3>2. worker[c] = "collect" => ~(s < target[c])
      BY <1>0, <1>5, <3>1 DEF OwnInv, Round, Collecting, Clear
    <3>3. AnswerOf(c, s)' = done[2]
      BY <1>5, <2>2, <3>2 DEF AnswerOf, Busy
    <3>4. Answers' = [Answers EXCEPT ![c] = [t \in Shards |-> AnswerOf(c, t)']]
      BY <1>0, <1>4, OnlyOne
    <3>5. Answers[c] = [t \in Shards |-> AnswerOf(c, t)]
      BY MapFacts
    <3>6. [t \in Shards |-> AnswerOf(c, t)'] = [Answers[c] EXCEPT ![s] = done[2]]
      BY <2>1, <3>3, <3>5
    <3> QED BY <3>4, <3>5, <3>6
  <2>3. CASE ~(client[c] = "wait" /\ Busy(c))
    <3>1. \A t \in Shards : AnswerOf(c, t)' = AnswerOf(c, t)
      BY <1>5, <2>3 DEF AnswerOf, Busy
    <3> QED BY <1>0, <1>4, <3>1, OnlyOneKept
  <2> QED BY <2>2, <2>3
<1>9. PICK out : out = <<Store', done[2]>>
  OBVIOUS
<1>10. out[1] = Store' /\ out[2] = done[2] /\ out \in KV!Outcomes(Work[c][s], s)
  BY <1>3, <1>7, <1>9
<1> QED BY <1>5, <1>6, <1>7, <1>8, <1>10 DEF KV!Apply

\* Every step of clients, proxy and shards is a step of KVStore, or leaves its
\* state alone.
LEMMA RefinesStep ==
  ASSUME PairInv, PairInv', [Next]_vars
  PROVE  KV!Next
<1>1. CASE \E c \in Clients : \/ Invoke(c) \/ Return(c) \/ Eof(c) \/ Quit(c)
                              \/ Forward(c) \/ ReplyAll(c)
                              \/ \E s \in Shards : HandleClient(c, s)
  BY <1>1, InvokeRefines, ClientRefines, ReplyRefines, HandleRefines DEF KV!Next
<1>2. CASE \E c \in Clients : \/ ReadFromClient(c) \/ Collect(c)
                              \/ \E s \in Shards : SendResponse(c, s)
  BY <1>2, ReadRefines, CollectRefines, SendRefines DEF KV!Next
<1>3. CASE \/ \E c \in Clients : ConnectTo(c) \/ Accept(c) \/ ReadEof(c) \/ ShardLost(c)
           \/ \E s \in Shards : ShardDies(s)
           \/ ProxyDies \/ Leave \/ UNCHANGED vars
  BY <1>3, OthersRefine, DeathFacts DEF KV!Next, PairInv
<1> QED BY <1>1, <1>2, <1>3 DEF Next, WorkerStep

\* Clients, proxy and shards implement one key-value store, for every number of
\* them: a Get, Put or Delete takes effect at most once, between call and return,
\* and returns what the store held at that moment; a GetAll returns the union of
\* what every shard held at some moment of the call, short of keys only where the
\* iterator of a shard failed; a process that dies loses calls and answers, also
\* of a command its shard has carried out, but never makes one up.
THEOREM ServiceIsAStore == Spec => ImplementsKVStore
<1>1. Init => KV!Init
  <2> SUFFICES ASSUME Init
               PROVE  KV!Init
    OBVIOUS
  <2>1. Store = [k \in Keys |-> None]
    BY DEF Init, Store
  <2>2. \A c \in Clients : /\ CallOf(c) = None /\ response[c] = None
                           /\ \A s \in Shards : WorkOf(c, s) = None /\ AnswerOf(c, s) = None
    BY DEF Init, CallOf, WorkOf, AnswerOf
  <2>3. response = [c \in Clients |-> None]
    BY DEF Init
  <2> QED BY <2>1, <2>2, <2>3, MapFacts DEF KV!Init, KV!NoPart
<1>2. PairInv /\ PairInv' /\ [Next]_vars => [KV!Next]_KV!vars
  BY RefinesStep
<1> QED BY <1>1, <1>2, PairCorrect, PTL DEF Spec, ImplementsKVStore, KV!Spec

=============================================================================
