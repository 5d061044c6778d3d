----------------------------- MODULE ShardedKV ------------------------------
(***************************************************************************)
(* A running deployment: clients (src/client/connection.cc), the accept    *)
(* loop of the proxy's Server (server.cc), one ShardingProxyWorker thread  *)
(* per client with a connection of its own to every shard, and at every    *)
(* shard one KvWorker thread per such connection on one RocksDB store.     *)
(*                                                                         *)
(* Packets travel whole (module Protocol is about what that takes).  A     *)
(* worker thread that leaves its loop closes nothing, so the descriptors   *)
(* of its connections stay in use.                                         *)
(*                                                                         *)
(* Three defects keep the committed code from answering a single request.  *)
(* Each is modelled as it is in the source, and Repairs names those that   *)
(* are taken as corrected, so that the rest can be checked too:            *)
(*   "null_buf"      Packet(payload_size, nullptr) writes to address 0     *)
(*   "connect_test"  CreateProxy tests server_fd << 0 instead of < 0       *)
(*   "shard_index"   DispatchPacket indexes with GetShardId(key) - 1       *)
(***************************************************************************)
EXTENDS CInts, FiniteSets

CONSTANTS
  Clients, Keys, Values,
  NumShards,    \* number of shard servers (shard_servers_.size())
  IdOf,         \* ExtractKey: the number behind '_' in a key, as an int
  Prefixes,     \* the sets of keys that share a prefix given to GetAll (none
                \* that shard_id shares, the key the launcher keeps: see Request)
  FdLimits,     \* possible limits of open descriptors of the proxy's process
  Repairs,      \* which of the three defects are corrected
  MaxOps,       \* bound: number of requests
  MaxCrashes,   \* bound: number of processes that die
  None          \* no value, no packet

ASSUME NumShardsAssumption == NumShards \in Nat \ {0}
ASSUME IdOfAssumption == IdOf \in [Keys -> Int]
ASSUME PrefixesAssumption == Prefixes \subseteq SUBSET Keys
ASSUME BoundsAssumption ==
  FdLimits \subseteq Nat /\ MaxOps \in Nat /\ MaxCrashes \in Nat
ASSUME RepairsAssumption ==
  Repairs \subseteq {"null_buf", "connect_test", "shard_index"}

Shards == 0..(NumShards - 1)          \* positions in shard_servers_

\* Packets carry the number n of the request, which only the properties use.
Commands ==
  [n : 1..MaxOps, op : {"get", "delete"}, key : Keys]
    \cup [n : 1..MaxOps, op : {"put"}, key : Keys, val : Values]
    \cup [n : 1..MaxOps, op : {"getall"}, prefix : Prefixes]

\* status, and what the response to a Get or a GetAll carries besides.  cut, for
\* the properties only: the iterator failed before it had listed all keys.
Responses ==
  [n : Nat, op : {"get", "put"}, status : {"ok", "err"}, val : Values \cup {None}]
    \cup [n : Nat, op : {"getall"}, keys : SUBSET Keys, cut : BOOLEAN]

ASSUME NoneAssumption == None \notin Commands \cup Responses \cup Values

VARIABLES
  client,     \* per client: "none", "ready", "wait", "quit", "crashed" or "eof"
  pending,    \* per client: the command it waits for the answer of
  request,    \* per client: the command on its way to the proxy
  response,   \* per client: the response on its way to it
  up,         \* the proxy's process runs
  accepting,  \* the loop of Server::Start goes on
  max_fds,    \* the limit of open descriptors (never changes)
  fds,        \* descriptors the proxy's process has open for connections
  worker,     \* per client: "none", "backlog", "read", "forward", "collect",
              \* "stuck" or "ended"
  packet,     \* per client: the command its worker handles
  target,     \* per client: the shard its worker forwards from
  keys,       \* per client: the keys collected for a GetAll
  cut,        \* per client: the shards whose list, among those, is cut (history)
  to_shard, from_shard,   \* per client and shard: command and response on the way
  alive,      \* per shard: its process runs
  db,         \* per shard: the RocksDB store
  reply,      \* per client and shard: the response the KvWorker is to send
  ops, crashes

clients == <<client, pending, ops>>
proxy == <<up, accepting, max_fds, fds, worker, packet, target, keys, cut>>
wires == <<request, response, to_shard, from_shard>>
shards == <<alive, db, reply>>
vars == <<clients, proxy, wires, shards, crashes>>

Init ==
  /\ client = [c \in Clients |-> "none"] /\ pending = [c \in Clients |-> None]
  /\ request = [c \in Clients |-> None] /\ response = [c \in Clients |-> None]
  /\ up = TRUE /\ accepting = TRUE /\ max_fds \in FdLimits /\ fds = 0
  /\ worker = [c \in Clients |-> "none"] /\ packet = [c \in Clients |-> None]
  /\ target = [c \in Clients |-> 0]
  /\ keys = [c \in Clients |-> {}] /\ cut = [c \in Clients |-> {}]
  /\ to_shard = [c \in Clients |-> [s \in Shards |-> None]]
  /\ from_shard = [c \in Clients |-> [s \in Shards |-> None]]
  /\ alive = [s \in Shards |-> TRUE]
  /\ db = [s \in Shards |-> [k \in Keys |-> None]]
  /\ reply = [c \in Clients |-> [s \in Shards |-> None]]
  /\ ops = 0 /\ crashes = 0

Become(c, state) == worker' = [worker EXCEPT ![c] = state]

-----------------------------------------------------------------------------
(* RoundRobinShardingPolicy and DispatchPacket. *)

GetShardId(k) == CRem(IdOf[k], NumShards)

\* Mutant: the ids returned by GetShardId are taken to start at 1.
PositionFromOne(k) == GetShardId(k) - 1

\* The position DispatchPacket looks up; a negative one is outside shard_servers_.
Position(k) ==
  IF "shard_index" \in Repairs THEN GetShardId(k) ELSE GetShardId(k) - 1

-----------------------------------------------------------------------------
(* Connection, used by one thread of the client. *)

\* The kernel completes the connection, whether or not Start still accepts.
ConnectTo(c) ==
  /\ client[c] = "none" /\ up
  /\ client' = [client EXCEPT ![c] = "ready"]
  /\ Become(c, "backlog")
  /\ UNCHANGED <<pending, ops, up, accepting, max_fds, fds, packet, target, keys,
                 cut, wires, shards, crashes>>

\* Get, Put, Delete and GetAll build their packet without a buffer.
Invoke(c) ==
  /\ client[c] = "ready" /\ ops < MaxOps
  /\ ops' = ops + 1
  /\ IF "null_buf" \in Repairs
     THEN \E p \in Commands :
            /\ p.n = ops + 1
            /\ pending' = [pending EXCEPT ![c] = p]
            /\ request' = [request EXCEPT ![c] = p]
            /\ client' = [client EXCEPT ![c] = "wait"]
     ELSE /\ client' = [client EXCEPT ![c] = "crashed"]
          /\ UNCHANGED <<pending, request>>
  /\ UNCHANGED <<proxy, response, to_shard, from_shard, shards, crashes>>

\* ReadFromServer returns the response.
Return(c) ==
  /\ client[c] = "wait" /\ response[c] # None
  /\ client' = [client EXCEPT ![c] = "ready"]
  /\ pending' = [pending EXCEPT ![c] = None]
  /\ response' = [response EXCEPT ![c] = None]
  /\ UNCHANGED <<ops, proxy, request, to_shard, from_shard, shards, crashes>>

\* ReadFromServer returns Eof: the proxy's process is gone.
Eof(c) ==
  /\ client[c] = "wait" /\ response[c] = None /\ ~up
  /\ client' = [client EXCEPT ![c] = "eof"]
  /\ UNCHANGED <<pending, ops, proxy, wires, shards, crashes>>

\* The user quits, or kills the client while it waits.
Quit(c) ==
  /\ client[c] \in {"ready", "wait"}
  /\ client' = [client EXCEPT ![c] = "quit"]
  /\ pending' = [pending EXCEPT ![c] = None]
  /\ response' = [response EXCEPT ![c] = None]
  /\ UNCHANGED <<ops, proxy, request, to_shard, from_shard, shards, crashes>>

-----------------------------------------------------------------------------
(* Server::Accept and ShardingProxyWorker::CreateProxy. *)

\* The test on the descriptor that SockConnectTo returned for shard s.
ConnectFailed(s) ==
  "connect_test" \notin Repairs \/ ~alive[s] \/ fds + s + 2 > max_fds

Created(c) ==
  /\ \A s \in Shards : ~ConnectFailed(s)
  /\ Become(c, "read")
  /\ fds' = fds + 1 + NumShards
  /\ UNCHANGED accepting

\* The descriptors of the shards before s are closed; those of the client and
\* of the socket for s, which exists unless no descriptor was left, are not.
NotCreated(c) ==
  \E s \in Shards :
    /\ ConnectFailed(s) /\ \A t \in 0..(s - 1) : ~ConnectFailed(t)
    /\ accepting' = FALSE
    /\ fds' = IF fds + s + 2 <= max_fds THEN fds + 2 ELSE fds + 1
    /\ Become(c, "none")

\* Mutant: one descriptor too many.
NoFdLate == fds > max_fds

\* accept() itself fails: no descriptor is left.
NoFd == fds >= max_fds

AcceptError == NoFd /\ accepting' = FALSE /\ UNCHANGED <<fds, worker>>

Accept(c) ==
  /\ up /\ accepting /\ worker[c] = "backlog"
  /\ AcceptError \/ (~NoFd /\ (Created(c) \/ NotCreated(c)))
  /\ UNCHANGED <<clients, up, max_fds, packet, target, keys, cut, wires, shards,
                 crashes>>

-----------------------------------------------------------------------------
(* ShardingProxyWorker::HandleClient. *)

\* SendPacket to the shards in S; what is written to a dead one is lost.
Relay(c, S) ==
  to_shard' = [to_shard EXCEPT ![c] =
    [s \in Shards |-> IF s \in S /\ alive[s] THEN request[c] ELSE @[s]]]

\* Mutant: after an error the worker goes on with the next request.
GoesOn == "read"

\* The loop ends with a status that is not ok.
Failure == "ended"

\* A write to a peer that is gone may be lost without notice.  Once a reset has
\* come back it fails, with an error or with SIGPIPE, which main does not handle
\* and which ends the process.
WriteFails(c) ==
  \/ Become(c, Failure) /\ UNCHANGED up
  \/ up' = FALSE /\ UNCHANGED worker

DispatchPacket(c) ==
  LET s == Position(request[c].key)
  IN \/ /\ s \in Shards /\ Relay(c, {s}) /\ Become(c, "forward")
        /\ target' = [target EXCEPT ![c] = s] /\ UNCHANGED up
     \/ /\ s \in Shards /\ ~alive[s] /\ WriteFails(c)
        /\ UNCHANGED <<to_shard, target>>
     \/ /\ s \notin Shards /\ (Become(c, "stuck") \/ Become(c, Failure))
        /\ UNCHANGED <<up, to_shard, target>>

\* Mutant: the loop that sends stops one shard short.
DispatchGetAllShort(c) ==
  /\ Relay(c, 0..(NumShards - 2)) /\ Become(c, "collect")
  /\ UNCHANGED <<up, target>>

DispatchGetAll(c) ==
  \/ /\ Relay(c, Shards) /\ Become(c, "collect")
     /\ UNCHANGED <<up, target>>
  \/ \E s \in Shards :
       /\ ~alive[s] /\ Relay(c, 0..(s - 1)) /\ WriteFails(c)
       /\ UNCHANGED target

ReadFromClient(c) ==
  /\ up /\ worker[c] = "read" /\ request[c] # None
  /\ IF request[c].op = "getall" THEN DispatchGetAll(c) ELSE DispatchPacket(c)
  /\ request' = [request EXCEPT ![c] = None]
  /\ packet' = [packet EXCEPT ![c] = request[c]]
  /\ UNCHANGED <<clients, accepting, max_fds, fds, keys, cut, response, from_shard,
                 shards, crashes>>

\* "Connection closed": the client is gone.
ReadEof(c) ==
  /\ up /\ worker[c] = "read" /\ request[c] = None
  /\ client[c] \in {"quit", "crashed"}
  /\ Become(c, "ended")
  /\ UNCHANGED <<clients, up, accepting, max_fds, fds, packet, target, keys, cut,
                 wires, shards, crashes>>

\* Mutant: the response is read again by the next call.
TakeNothing(c, s) == UNCHANGED from_shard

\* A response is read off the connection to shard s.
Take(c, s) == from_shard' = [from_shard EXCEPT ![c][s] = None]

\* The locals of one round of the loop go out of scope.
RoundEnds(c) ==
  /\ packet' = [packet EXCEPT ![c] = None] /\ target' = [target EXCEPT ![c] = 0]
  /\ keys' = [keys EXCEPT ![c] = {}] /\ cut' = [cut EXCEPT ![c] = {}]

\* A response is written to the client, which may be gone.
Reply(c, resp) ==
  \/ /\ response' = IF client[c] = "wait" THEN [response EXCEPT ![c] = resp]
                    ELSE response
     /\ Become(c, "read") /\ UNCHANGED up
  \/ /\ client[c] # "wait" /\ WriteFails(c)
     /\ UNCHANGED response

Forward(c) ==
  /\ up /\ worker[c] = "forward" /\ from_shard[c][target[c]] # None
  /\ Reply(c, from_shard[c][target[c]])
  /\ Take(c, target[c]) /\ RoundEnds(c)
  /\ UNCHANGED <<clients, accepting, max_fds, fds, request, to_shard, shards,
                 crashes>>

\* Mutant: the keys of the last shard replace the others.
AddKeysOfLast(all, more) == more

\* GetAllResponsePacket::AddKeys
AddKeys(all, more) == all \cup more

\* One round of the second loop of kGetAll.
Collect(c) ==
  /\ up /\ worker[c] = "collect" /\ target[c] < NumShards
  /\ from_shard[c][target[c]] # None
  /\ keys' = [keys EXCEPT ![c] = AddKeys(@, from_shard[c][target[c]].keys)]
  /\ cut' = [cut EXCEPT ![c] =
       IF from_shard[c][target[c]].cut THEN @ \cup {target[c]} ELSE @]
  /\ Take(c, target[c])
  /\ target' = [target EXCEPT ![c] = @ + 1]
  /\ UNCHANGED <<clients, up, accepting, max_fds, fds, worker, packet, request,
                 response, to_shard, shards, crashes>>

\* The response to GetAll is built without a buffer, too.
ReplyAll(c) ==
  /\ up /\ worker[c] = "collect" /\ target[c] = NumShards
  /\ IF "null_buf" \in Repairs
     THEN Reply(c, [n |-> packet[c].n, op |-> "getall", keys |-> keys[c],
                    cut |-> cut[c] # {}])
     ELSE up' = FALSE /\ UNCHANGED <<response, worker>>
  /\ RoundEnds(c)
  /\ UNCHANGED <<clients, accepting, max_fds, fds, request, to_shard, from_shard,
                 shards, crashes>>

\* The connection to the shard breaks before its response has come.
ShardLost(c) ==
  /\ up /\ worker[c] \in {"forward", "collect"} /\ target[c] < NumShards
  /\ ~alive[target[c]] /\ from_shard[c][target[c]] = None
  /\ Become(c, Failure) /\ RoundEnds(c)
  /\ UNCHANGED <<clients, up, accepting, max_fds, fds, wires, shards, crashes>>

-----------------------------------------------------------------------------
(* KvWorker::HandleClient at shard s, on the connection of client c's proxy *)
(* worker: one command, and then its response.                             *)

\* What RocksDB may do: the store afterwards, and the response.  A key that is
\* not found is an error; the response to a Delete carries the code of a Put.
\* Nobody asks an iterator that has come to its end whether it has failed: the
\* response to a GetAll is ok, with any part of the keys (those that come first
\* in the order of RocksDB, which is left out here).
Done(p, store) ==
  CASE p.op = "get" ->
         {<<store, [n |-> p.n, op |-> "get", val |-> store[p.key],
                    status |-> IF store[p.key] = None THEN "err" ELSE "ok"]>>,
          <<store, [n |-> p.n, op |-> "get", val |-> None, status |-> "err"]>>}
    [] p.op = "put" ->
         {<<[store EXCEPT ![p.key] = p.val],
            [n |-> p.n, op |-> "put", val |-> None, status |-> "ok"]>>,
          <<store, [n |-> p.n, op |-> "put", val |-> None, status |-> "err"]>>}
    [] p.op = "delete" ->
         {<<[store EXCEPT ![p.key] = None],
            [n |-> p.n, op |-> "put", val |-> None, status |-> "ok"]>>,
          <<store, [n |-> p.n, op |-> "put", val |-> None, status |-> "err"]>>}
    [] p.op = "getall" ->
         LET all == {k \in p.prefix : store[k] # None}
         IN {<<store, [n |-> p.n, op |-> "getall", keys |-> some,
                       cut |-> some # all]>> : some \in SUBSET all}

HandleClient(c, s) ==
  /\ alive[s] /\ to_shard[c][s] # None /\ reply[c][s] = None
  /\ \E done \in Done(to_shard[c][s], db[s]) :
       /\ db' = [db EXCEPT ![s] = done[1]]
       /\ reply' = [reply EXCEPT ![c][s] = done[2]]
  /\ to_shard' = [to_shard EXCEPT ![c][s] = None]
  /\ UNCHANGED <<clients, proxy, request, response, from_shard, alive, crashes>>

\* The shard's process ends.  What it has not read and not sent is lost with it.
ShardEnds(s) ==
  /\ alive' = [alive EXCEPT ![s] = FALSE]
  /\ to_shard' = [d \in Clients |-> [to_shard[d] EXCEPT ![s] = None]]
  /\ reply' = [d \in Clients |-> [reply[d] EXCEPT ![s] = None]]

\* The response is built without a buffer as well.  When the proxy's process is
\* gone, sending may raise SIGPIPE; without it the response is lost.
SendResponse(c, s) ==
  /\ alive[s] /\ reply[c][s] # None
  /\ \/ /\ "null_buf" \in Repairs
        /\ from_shard' = [from_shard EXCEPT ![c][s] = reply[c][s]]
        /\ reply' = [reply EXCEPT ![c][s] = None]
        /\ UNCHANGED <<to_shard, alive>>
     \/ /\ "null_buf" \notin Repairs \/ ~up
        /\ ShardEnds(s)
        /\ UNCHANGED from_shard
  /\ UNCHANGED <<clients, proxy, request, response, db, crashes>>

-----------------------------------------------------------------------------
(* Crashes. *)

ShardDies(s) ==
  /\ alive[s] /\ crashes < MaxCrashes
  /\ crashes' = crashes + 1
  /\ ShardEnds(s)
  /\ UNCHANGED <<clients, proxy, request, response, from_shard, db>>

ProxyDies ==
  /\ up /\ crashes < MaxCrashes
  /\ crashes' = crashes + 1
  /\ up' = FALSE
  /\ UNCHANGED <<clients, accepting, max_fds, fds, worker, packet, target, keys, cut,
                 wires, shards>>

\* Start has returned, and so does main: MPI_Finalize may or may not wait for the
\* shards before the process ends, with the workers that still run.
Leave ==
  /\ up /\ ~accepting
  /\ up' = FALSE
  /\ UNCHANGED <<clients, accepting, max_fds, fds, worker, packet, target, keys, cut,
                 wires, shards, crashes>>

-----------------------------------------------------------------------------

WorkerStep(c) ==
  \/ ReadFromClient(c) \/ ReadEof(c) \/ Forward(c) \/ Collect(c) \/ ReplyAll(c)
  \/ ShardLost(c)

Next ==
  \/ \E c \in Clients :
       \/ ConnectTo(c) \/ Invoke(c) \/ Return(c) \/ Eof(c) \/ Quit(c)
       \/ Accept(c) \/ WorkerStep(c)
       \/ \E s \in Shards : HandleClient(c, s) \/ SendResponse(c, s)
  \/ \E s \in Shards : ShardDies(s)
  \/ ProxyDies \/ Leave

Spec == Init /\ [][Next]_vars

\* Every thread that can go on does; clients need not send anything.
FairSpec ==
  /\ Spec
  /\ \A c \in Clients :
       /\ WF_vars(Accept(c)) /\ WF_vars(WorkerStep(c))
       /\ WF_vars(Return(c)) /\ WF_vars(Eof(c))
       /\ \A s \in Shards :
            WF_vars(HandleClient(c, s)) /\ WF_vars(SendResponse(c, s))

-----------------------------------------------------------------------------
(* Properties. *)

\* Every variable has the values the code can give it.
TypeOK ==
  /\ client \in [Clients -> {"none", "ready", "wait", "quit", "crashed", "eof"}]
  /\ pending \in [Clients -> Commands \cup {None}]
  /\ request \in [Clients -> Commands \cup {None}]
  /\ response \in [Clients -> Responses \cup {None}]
  /\ up \in BOOLEAN /\ accepting \in BOOLEAN
  /\ max_fds \in FdLimits /\ fds \in 0..max_fds
  /\ worker \in [Clients -> {"none", "backlog", "read", "forward", "collect",
                             "stuck", "ended"}]
  /\ packet \in [Clients -> Commands \cup {None}]
  /\ target \in [Clients -> 0..NumShards]
  /\ keys \in [Clients -> SUBSET Keys] /\ cut \in [Clients -> SUBSET Shards]
  /\ to_shard \in [Clients -> [Shards -> Commands \cup {None}]]
  /\ from_shard \in [Clients -> [Shards -> Responses \cup {None}]]
  /\ alive \in [Shards -> BOOLEAN]
  /\ db \in [Shards -> [Keys -> Values \cup {None}]]
  /\ reply \in [Clients -> [Shards -> Responses \cup {None}]]
  /\ ops \in 0..MaxOps /\ crashes \in 0..MaxCrashes

\* A client that gets a response waits for one, and it is the response to the
\* command it sent: no answer is left on a connection for a later command.
OwnAnswer ==
  \A c \in Clients : response[c] # None =>
    client[c] = "wait" /\ response[c].n = pending[c].n

\* A proxy worker that reads the next command has left nothing on its
\* connections to the shards, and no shard is still busy with an earlier one.
CleanConnections ==
  up => \A c \in Clients : worker[c] = "read" =>
    \A s \in Shards :
      to_shard[c][s] = None /\ reply[c][s] = None /\ from_shard[c][s] = None

\* KVStore, read off the state.  The store: every key where it is looked up.
Store ==
  [k \in Keys |-> IF Position(k) \in Shards THEN db[Position(k)][k] ELSE None]

\* The call a client waits for, and where its command is still on the way.
Call == [c \in Clients |-> IF client[c] = "wait" THEN pending[c] ELSE None]

Work ==
  [c \in Clients |-> [s \in Shards |->
     IF request[c] = None THEN to_shard[c][s]
     ELSE IF request[c].op = "getall" \/ s = Position(request[c].key)
     THEN request[c] ELSE None]]

\* What the proxy worker has, or can read, of the answer, or a shard is to send.
Collected(c, s) ==
  [n |-> packet[c].n, op |-> "getall",
   keys |-> {k \in keys[c] : Position(k) = s}, cut |-> s \in cut[c]]

Answers ==
  [c \in Clients |-> [s \in Shards |->
     IF client[c] # "wait" \/ worker[c] \notin {"forward", "collect"} THEN None
     ELSE IF worker[c] = "collect" /\ s < target[c] THEN Collected(c, s)
     ELSE IF reply[c][s] # None THEN reply[c][s] ELSE from_shard[c][s]]]

KV == INSTANCE KVStore WITH
        Calls <- Commands, Parts <- Shards,
        PartOf <- [k \in Keys |-> Position(k)],
        store <- Store, call <- Call, work <- Work, answer <- Answers,
        result <- response

\* Proxy and shards together implement one key-value store (module KVStore):
\* Get, Put and Delete take effect once, between call and return, and return
\* what the store held at that moment, whatever the other clients do and
\* whichever process dies; GetAll returns what each shard held at some moment
\* of the call, and lacks only keys of the shards whose iterator failed.
ImplementsKVStore == KV!Spec

\* The proxy has accepted the client, and there is a shard for its command.
InService(c) ==
  /\ client[c] = "wait" /\ worker[c] \notin {"none", "backlog"}
  /\ pending[c].op = "getall" \/ Position(pending[c].key) \in Shards

\* While no process ends, a client that has been accepted gets its answer, unless
\* the number in its key is so large that there is no shard for it.
Served ==
  \A c \in Clients :
    [](InService(c) => <>(client[c] \in {"ready", "quit"} \/ ~up \/ crashes > 0))

\* Server::Start goes on accepting clients, unless a shard is down or the
\* clients that are connected now take up all descriptors.
AcceptsMore ==
  LET connected == {c \in Clients : client[c] \in {"ready", "wait"}}
  IN ~accepting => \/ \E s \in Shards : ~alive[s]
                   \/ Cardinality(connected) * (1 + NumShards) > max_fds

\* Building a packet does not crash a client.
NoClientCrash == \A c \in Clients : client[c] # "crashed"

\* As long as the shards live, a worker gets the response from a shard and
\* forwards it to the client.
Dispatched ==
  \A c \in Clients : worker[c] \in {"stuck", "ended"} =>
    client[c] # "wait" \/ \E s \in Shards : ~alive[s]
=============================================================================
