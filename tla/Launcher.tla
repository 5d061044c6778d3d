------------------------------ MODULE Launcher ------------------------------
(***************************************************************************)
(* The start-up of an SQPKV deployment (src/server/server_launcher.cc).    *)
(*                                                                         *)
(* Every MPI process opens its RocksDB store, reads the shard id kept in   *)
(* it, and takes part in two handshakes: ShakeHands elects the rank that   *)
(* will be the sharding proxy and has every rank save its id, and          *)
(* ResolveIpAddresses collects the InfiniBand addresses of the shards at   *)
(* that rank.  Each handshake ends in a broadcast that every rank obeys:   *)
(* serve, or exit(EXIT_FAILURE).                                           *)
(*                                                                         *)
(* Integers stand for the ints the code exchanges: -1 is the code's error  *)
(* value, 0 and 1 are the C booleans, and rank r's address is r.           *)
(***************************************************************************)
EXTENDS Integers, Sequences

CONSTANTS
  WorldSize,     \* number of MPI processes (world_size_)
  ClientIds,     \* what clients of a shard may Put under key "shard_id"
  MaxLaunches,   \* bound: how many times the job is launched
  NotFound,      \* RocksDB holds no "shard_id" (rocksdb::Status::NotFound)
  NoNumber,      \* a stored "shard_id" that stoi refuses
  NotSent        \* the root has not entered this MPI_Bcast yet

ASSUME WorldSizeAssumption == WorldSize \in Nat \ {0}
ASSUME ClientIdsAssumption == ClientIds \subseteq Int \cup {NoNumber}
ASSUME MaxLaunchesAssumption == MaxLaunches \in Nat \ {0}
ASSUME SentinelAssumption ==
  /\ NotFound \notin Int /\ NotSent \notin Int
  /\ NoNumber \notin Int /\ NoNumber # NotFound

Ranks == 0..(WorldSize - 1)
Failed == -1                       \* shard_id_ and proxy_rank_ on error
NoFile == -2
Garbage == -1                      \* an uninitialised ip_address buffer
Bools == {0, 1}

\* The three collective calls every rank makes, in this order.
Bcasts == {"proxy_rank", "saved", "resolved"}

\* What a point-to-point message was sent for; all of them carry tag 0.
Kinds == {"shard_id", "saved", "ip_size", "ip"}
Messages == [kind : Kinds, val : Int]

Serving == {"ProxyMain", "ShardMain"}
Labels == Serving \cup
  {"OpenDb", "GetShardId", "ShakeHands", "RecvShardIds", "WaitProxyRank",
   "SaveShardId", "SendSaved", "RecvSaved", "WaitSaved", "ResolveIp",
   "SendIp", "RecvIpSizes", "RecvIp", "WaitResolved", "exited", "aborted"}

VARIABLES
  stored,        \* per rank: the value under "shard_id" in RocksDB (on disk)
  hostname_file, \* the file FLAGS_proxy_hostname (on disk)
  launches,      \* how many times the job has been launched
  eager,         \* the MPI library: TRUE iff MPI_Send buffers (never changes)
  tampered,      \* history: a client has stored under "shard_id"
  pc,            \* per rank: the step it is about to take
  db_,           \* per rank: TRUE iff db_ # nullptr
  shard_id_,
  proxy_rank_,
  id_to_rank,    \* per rank: the map; operator[] gives 0 for a missing id
  next,          \* per rank: the loop variable of the receive loops
  save_success,
  ip_success,    \* ip_address_resolution_success
  ip_addresses_,
  chan,          \* per (sender, receiver): messages sent and not received
  bcast          \* per collective call: the value its root broadcast

kept == <<stored, hostname_file, launches, eager, tampered>>
ids == <<db_, shard_id_>>
election == <<proxy_rank_, id_to_rank>>
results == <<save_success, ip_success, ip_addresses_>>
mpi == <<chan, bcast>>
vars == <<kept, pc, ids, election, next, results, mpi>>

-----------------------------------------------------------------------------
(* MPI, as the launcher uses it. *)

Msg(k, v) == [kind |-> k, val |-> v]

Send(src, dst, k, v) ==
  chan' = [chan EXCEPT ![<<src, dst>>] = Append(@, Msg(k, v))]

\* MPI_Send has returned: at once if it buffers, else when it was received.
SendReturned(src, dst) == eager \/ chan[<<src, dst>>] = <<>>

Recv(src, dst) ==
  /\ chan[<<src, dst>>] # <<>>
  /\ chan' = [chan EXCEPT ![<<src, dst>>] = Tail(@)]

Received(src, dst) == Head(chan[<<src, dst>>]).val

Bcast(call, v) == bcast' = [bcast EXCEPT ![call] = v]

Goto(r, label) == pc' = [pc EXCEPT ![r] = label]

-----------------------------------------------------------------------------
(* ServerLauncher::ServerLauncher: what every process starts from. *)

\* The arguments are the volatile variables, or their primed versions.
Started(p, db, id, proxy, map, n, saved, resolved, ips, c, b) ==
  /\ p = [r \in Ranks |-> "OpenDb"]
  /\ db = [r \in Ranks |-> FALSE]
  /\ id = [r \in Ranks |-> Failed] /\ proxy = [r \in Ranks |-> Failed]
  /\ map = [r \in Ranks |-> [i \in 1..(WorldSize - 1) |-> 0]]
  /\ n = [r \in Ranks |-> 1]
  /\ saved = [r \in Ranks |-> 0] /\ resolved = [r \in Ranks |-> 1]
  /\ ips = [r \in Ranks |-> <<>>]
  /\ c = [p2p \in Ranks \X Ranks |-> <<>>]
  /\ b = [call \in Bcasts |-> NotSent]

Init ==
  /\ stored = [r \in Ranks |-> NotFound] /\ hostname_file = NoFile
  /\ launches = 1 /\ eager \in BOOLEAN /\ tampered = FALSE
  /\ Started(pc, db_, shard_id_, proxy_rank_, id_to_rank, next, save_success,
             ip_success, ip_addresses_, chan, bcast)

-----------------------------------------------------------------------------
(* OpenDb and GetShardId: opening and reading RocksDB may fail. *)

OpenDb(r) ==
  /\ pc[r] = "OpenDb"
  /\ \E opened \in BOOLEAN : db_' = [db_ EXCEPT ![r] = opened]
  /\ Goto(r, "GetShardId")
  /\ UNCHANGED <<kept, shard_id_, election, next, results, mpi>>

\* The ids GetShardId may come back with: a failed Get, no id yet, or one read.
ReadIds(r) ==
  IF ~db_[r] \/ stored[r] = NoNumber THEN {Failed}
  ELSE {Failed, IF stored[r] = NotFound THEN r ELSE stored[r]}

GetShardId(r) ==
  /\ pc[r] = "GetShardId"
  /\ \E id \in ReadIds(r) : shard_id_' = [shard_id_ EXCEPT ![r] = id]
  /\ Goto(r, "ShakeHands")
  /\ UNCHANGED <<kept, db_, election, next, results, mpi>>

\* A Get that succeeds on a value that is no number: stoi throws, nobody
\* catches it, and the process is gone before it has reported an id.
StoiThrows(r) ==
  /\ pc[r] = "GetShardId" /\ db_[r] /\ stored[r] = NoNumber
  /\ Goto(r, "aborted")
  /\ UNCHANGED <<kept, ids, election, next, results, mpi>>

-----------------------------------------------------------------------------
(* ShakeHands, first half: rank 0 collects the ids and elects the proxy. *)

\* Mutant: key and value of the map are swapped.
PutRankSwapped(map, id, rank) ==
  [i \in DOMAIN map |-> IF i = rank THEN id ELSE map[i]]

\* id_to_rank[id] = rank; only the ids 1..WorldSize-1 are ever looked up.
PutRank(map, id, rank) ==
  [i \in DOMAIN map |-> IF i = id THEN rank ELSE map[i]]

\* Mutant: a later rank with id 0 clears an earlier failure.
ElectForgetful(current, id, rank) ==
  IF id = 0 THEN rank ELSE IF id = Failed THEN Failed ELSE current

\* A rank without an id fails the launch whatever the later ranks report.
Elect(current, id, rank) ==
  IF id = Failed \/ current = Failed THEN Failed
  ELSE IF id = 0 THEN rank ELSE current

StartCollecting(r) ==
  /\ pc[r] = "ShakeHands" /\ r = 0
  /\ proxy_rank_' =
       [proxy_rank_ EXCEPT ![r] = IF shard_id_[r] = Failed THEN Failed ELSE r]
  /\ id_to_rank' = [id_to_rank EXCEPT ![r] = PutRank(@, shard_id_[r], r)]
  /\ Goto(r, "RecvShardIds")
  /\ UNCHANGED <<kept, ids, next, results, mpi>>

RecvShardId(r) ==
  LET rank == next[r]
      id == Received(rank, r)
  IN /\ pc[r] = "RecvShardIds" /\ rank < WorldSize
     /\ Recv(rank, r)
     /\ proxy_rank_' = [proxy_rank_ EXCEPT ![r] = Elect(@, id, rank)]
     /\ id_to_rank' = [id_to_rank EXCEPT ![r] = PutRank(@, id, rank)]
     /\ next' = [next EXCEPT ![r] = @ + 1]
     /\ UNCHANGED <<kept, pc, ids, results, bcast>>

\* ShakeHands returns early on a failed election; InitShardingConfig exits.
AfterElection(r, proxy) ==
  Goto(r, IF proxy = Failed THEN "exited" ELSE "SaveShardId")

BcastProxyRank(r) ==
  /\ pc[r] = "RecvShardIds" /\ next[r] = WorldSize
  /\ Bcast("proxy_rank", proxy_rank_[r])
  /\ AfterElection(r, proxy_rank_[r])
  /\ UNCHANGED <<kept, ids, election, next, results, chan>>

SendShardId(r) ==
  /\ pc[r] = "ShakeHands" /\ r # 0
  /\ Send(r, 0, "shard_id", shard_id_[r])
  /\ Goto(r, "WaitProxyRank")
  /\ UNCHANGED <<kept, ids, election, next, results, bcast>>

WaitProxyRank(r) ==
  /\ pc[r] = "WaitProxyRank" /\ SendReturned(r, 0)
  /\ bcast["proxy_rank"] # NotSent
  /\ proxy_rank_' = [proxy_rank_ EXCEPT ![r] = bcast["proxy_rank"]]
  /\ AfterElection(r, bcast["proxy_rank"])
  /\ UNCHANGED <<kept, ids, id_to_rank, next, results, mpi>>

-----------------------------------------------------------------------------
(* ShakeHands, second half: every rank saves its id, the proxy collects    *)
(* the outcomes.                                                           *)

\* Mutant: the proxy's rank is written instead.
SavedIdOfProxy(r) == proxy_rank_[r]

\* The value ShakeHands writes under "shard_id": std::to_string(world_rank_).
SavedId(r) == r

SaveShardId(r) ==
  /\ pc[r] = "SaveShardId"
  /\ \E ok \in Bools :
       /\ stored' = IF ok = 1 THEN [stored EXCEPT ![r] = SavedId(r)] ELSE stored
       /\ save_success' = [save_success EXCEPT ![r] = ok]
  /\ next' = [next EXCEPT ![r] = 1]
  /\ Goto(r, IF r = proxy_rank_[r] THEN "RecvSaved" ELSE "SendSaved")
  /\ UNCHANGED <<hostname_file, launches, eager, tampered, ids, election,
                 ip_success, ip_addresses_, mpi>>

\* save_success = comm_save_success && save_success
And(a, b) == IF a # 0 /\ b # 0 THEN 1 ELSE 0

RecvSaved(r) ==
  LET rank == id_to_rank[r][next[r]]
  IN /\ pc[r] = "RecvSaved" /\ next[r] < WorldSize
     /\ Recv(rank, r)
     /\ save_success' =
          [save_success EXCEPT ![r] = And(Received(rank, r), @)]
     /\ next' = [next EXCEPT ![r] = @ + 1]
     /\ UNCHANGED <<kept, pc, ids, election, ip_success, ip_addresses_, bcast>>

\* proxy_rank_ = save_success ? proxy_rank_ : -1, and what follows from it.
AfterSave(r, saved) ==
  /\ proxy_rank_' = [proxy_rank_ EXCEPT ![r] = IF saved = 0 THEN Failed ELSE @]
  /\ Goto(r, IF saved = 0 THEN "exited" ELSE "ResolveIp")

\* Mutant: the loop over the shards stops one short.
BcastSavedEarly(r) ==
  /\ pc[r] = "RecvSaved" /\ next[r] >= WorldSize - 1
  /\ Bcast("saved", save_success[r])
  /\ AfterSave(r, save_success[r])
  /\ UNCHANGED <<kept, ids, id_to_rank, next, results, chan>>

BcastSaved(r) ==
  /\ pc[r] = "RecvSaved" /\ next[r] = WorldSize
  /\ Bcast("saved", save_success[r])
  /\ AfterSave(r, save_success[r])
  /\ UNCHANGED <<kept, ids, id_to_rank, next, results, chan>>

SendSaved(r) ==
  /\ pc[r] = "SendSaved"
  /\ Send(r, proxy_rank_[r], "saved", save_success[r])
  /\ Goto(r, "WaitSaved")
  /\ UNCHANGED <<kept, ids, election, next, results, bcast>>

WaitSaved(r) ==
  /\ pc[r] = "WaitSaved" /\ SendReturned(r, proxy_rank_[r])
  /\ bcast["saved"] # NotSent
  /\ save_success' = [save_success EXCEPT ![r] = bcast["saved"]]
  /\ AfterSave(r, bcast["saved"])
  /\ UNCHANGED <<kept, ids, id_to_rank, next, ip_success, ip_addresses_, mpi>>

-----------------------------------------------------------------------------
(* ResolveIpAddresses: the proxy gathers the addresses in shard-id order.  *)
(* GetInfinibandIp fails when the host has no ib0 interface.               *)

\* What GetInfinibandIp leaves in the caller's buffer: the address of the
\* rank, or, on failure, whatever the uninitialised buffer held.
Address(r, found) == IF found THEN r ELSE Garbage

\* The proxy ignores GetInfinibandIp's result and writes the buffer; nobody
\* notices an ofstream that could not be opened either.
WriteHostname(r) ==
  /\ pc[r] = "ResolveIp" /\ r = proxy_rank_[r]
  /\ \E found \in BOOLEAN : hostname_file' \in {hostname_file, Address(r, found)}
  /\ next' = [next EXCEPT ![r] = 1]
  /\ Goto(r, "RecvIpSizes")
  /\ UNCHANGED <<stored, launches, eager, tampered, ids, election, results, mpi>>

\* The others announce the size of their address, or -1 and no address.
SendIpSize(r) ==
  /\ pc[r] = "ResolveIp" /\ r # proxy_rank_[r]
  /\ \E found \in BOOLEAN :
       /\ Send(r, proxy_rank_[r], "ip_size", IF found THEN 1 ELSE Failed)
       /\ Goto(r, IF found THEN "SendIp" ELSE "WaitResolved")
  /\ UNCHANGED <<kept, ids, election, next, results, bcast>>

SendIp(r) ==
  /\ pc[r] = "SendIp" /\ SendReturned(r, proxy_rank_[r])
  /\ Send(r, proxy_rank_[r], "ip", r)
  /\ Goto(r, "WaitResolved")
  /\ UNCHANGED <<kept, ids, election, next, results, bcast>>

\* Mutants: the receive of the address is never, and always, skipped.
NoAddressForgotten(size) == FALSE
NoAddressAlways(size) == TRUE

\* if (ip_address_size == -1) { ...; continue; }
NoAddress(size) == size = Failed

RecvIpSize(r) ==
  LET rank == id_to_rank[r][next[r]]
      size == Received(rank, r)
  IN /\ pc[r] = "RecvIpSizes" /\ next[r] < WorldSize
     /\ Recv(rank, r)
     /\ \/ /\ NoAddress(size)
           /\ ip_success' = [ip_success EXCEPT ![r] = 0]
           /\ next' = [next EXCEPT ![r] = @ + 1]
           /\ UNCHANGED pc
        \/ /\ ~NoAddress(size)
           /\ Goto(r, "RecvIp")
           /\ UNCHANGED <<next, ip_success>>
     /\ UNCHANGED <<kept, ids, election, save_success, ip_addresses_, bcast>>

\* Mutant: the address is put in front.
PushFront(seq, ip) == <<ip>> \o seq

\* ip_addresses_.push_back
PushBack(seq, ip) == Append(seq, ip)

RecvIp(r) ==
  LET rank == id_to_rank[r][next[r]]
  IN /\ pc[r] = "RecvIp"
     /\ Recv(rank, r)
     /\ ip_addresses_' =
          [ip_addresses_ EXCEPT ![r] = PushBack(@, Received(rank, r))]
     /\ next' = [next EXCEPT ![r] = @ + 1]
     /\ Goto(r, "RecvIpSizes")
     /\ UNCHANGED <<kept, ids, election, save_success, ip_success, bcast>>

\* Mutant: the id is compared with the error value.
MainOfFailed(r) == IF shard_id_[r] = Failed THEN "ProxyMain" ELSE "ShardMain"

\* Run: the role follows the shard id, not proxy_rank_.
Main(r) == IF shard_id_[r] = 0 THEN "ProxyMain" ELSE "ShardMain"

\* Mutant: MPI_Bcast into another variable, so a rank keeps its own outcome.
AfterResolveOwn(r, resolved) ==
  /\ UNCHANGED ip_success
  /\ Goto(r, IF ip_success[r] = 0 THEN "exited" ELSE Main(r))

\* Every rank but the proxy overwrites its own outcome with the broadcast one.
AfterResolve(r, resolved) ==
  /\ ip_success' = [ip_success EXCEPT ![r] = resolved]
  /\ Goto(r, IF resolved = 0 THEN "exited" ELSE Main(r))

BcastResolved(r) ==
  /\ pc[r] = "RecvIpSizes" /\ next[r] = WorldSize
  /\ Bcast("resolved", ip_success[r])
  /\ AfterResolve(r, ip_success[r])
  /\ UNCHANGED <<kept, ids, election, next, save_success, ip_addresses_, chan>>

WaitResolved(r) ==
  /\ pc[r] = "WaitResolved" /\ SendReturned(r, proxy_rank_[r])
  /\ bcast["resolved"] # NotSent
  /\ AfterResolve(r, bcast["resolved"])
  /\ UNCHANGED <<kept, ids, election, next, save_success, ip_addresses_, mpi>>

-----------------------------------------------------------------------------
(* After the launch. *)

\* A client connected to a shard stores under the key "shard_id", which lies
\* in the same key space as the data (KvWorker, kPut).
DirectPut(r) ==
  /\ pc[r] = "ShardMain"
  /\ \E id \in ClientIds : stored' = [stored EXCEPT ![r] = id]
  /\ tampered' = TRUE
  /\ UNCHANGED <<hostname_file, launches, eager, pc, ids, election, next, results,
                 mpi>>

\* The job ends or is killed at any point and is launched again: every process
\* starts from its constructor, and only the files are still there.
Relaunch ==
  /\ launches < MaxLaunches /\ launches' = launches + 1
  /\ Started(pc', db_', shard_id_', proxy_rank_', id_to_rank', next',
             save_success', ip_success', ip_addresses_', chan', bcast')
  /\ UNCHANGED <<stored, hostname_file, eager, tampered>>

Settled(r) == pc[r] \in Serving \cup {"exited"}

Step(r) ==
  \/ OpenDb(r) \/ GetShardId(r) \/ StoiThrows(r)
  \/ StartCollecting(r) \/ RecvShardId(r) \/ BcastProxyRank(r)
  \/ SendShardId(r) \/ WaitProxyRank(r)
  \/ SaveShardId(r) \/ RecvSaved(r) \/ BcastSaved(r)
  \/ SendSaved(r) \/ WaitSaved(r)
  \/ WriteHostname(r) \/ RecvIpSize(r) \/ RecvIp(r) \/ BcastResolved(r)
  \/ SendIpSize(r) \/ SendIp(r) \/ WaitResolved(r)

Next ==
  \/ \E r \in Ranks : Step(r) \/ DirectPut(r)
  \/ Relaunch

Spec == Init /\ [][Next]_vars

\* A process that can go on does, and an MPI call that can complete does.
FairSpec == Spec /\ \A r \in Ranks : WF_vars(Step(r))

-----------------------------------------------------------------------------
(* Properties. *)

\* Every variable has the values the code can give it.
TypeOK ==
  /\ stored \in [Ranks -> Int \cup {NotFound, NoNumber}]
  /\ hostname_file \in Int
  /\ launches \in Nat /\ eager \in BOOLEAN /\ tampered \in BOOLEAN
  /\ pc \in [Ranks -> Labels]
  /\ db_ \in [Ranks -> BOOLEAN]
  /\ shard_id_ \in [Ranks -> Int]
  /\ proxy_rank_ \in [Ranks -> Ranks \cup {Failed}]
  /\ id_to_rank \in [Ranks -> [1..(WorldSize - 1) -> Ranks]]
  /\ next \in [Ranks -> 1..WorldSize]
  /\ save_success \in [Ranks -> Int]
  /\ ip_success \in [Ranks -> Int]
  /\ ip_addresses_ \in [Ranks -> Seq(Int)]
  /\ chan \in [Ranks \X Ranks -> Seq(Messages)]
  /\ bcast \in [Bcasts -> Int \cup {NotSent}]
  /\ bcast["proxy_rank"] \in Ranks \cup {Failed, NotSent}

\* The launch is all or nothing: InitShardingConfig never lets one rank go on
\* to serve while another one of the same launch exits, or is gone because
\* GetShardId threw.
AllOrNothing ==
  \A r, q \in Ranks : ~(pc[r] \in Serving /\ pc[q] \in {"exited", "aborted"})

\* A failed DB::Open leaves db_ null; the election at rank 0 makes sure that
\* ShakeHands never calls db_->Put on it and that no rank serves without it.
DbUsable ==
  \A r \in Ranks : pc[r] \in Serving \cup {"SaveShardId"} => db_[r]

\* Exactly one rank becomes the sharding proxy once all of them serve, and it
\* is the one that was elected, as long as no client wrote a "shard_id".
SingleProxy ==
  ~tampered /\ (\A r \in Ranks : pc[r] \in Serving) =>
    \E p \in Ranks : \A r \in Ranks :
      /\ pc[r] = "ProxyMain" <=> r = p
      /\ proxy_rank_[r] = p

\* A proxy that serves knows one address per shard, and the one at position i
\* is that of the rank whose shard id is i: ShardingProxyWorker finds a shard
\* by its position.  This and what follows is so only while no client stores
\* under "shard_id".
RoutingTable ==
  ~tampered => \A p \in Ranks : pc[p] = "ProxyMain" =>
    /\ Len(ip_addresses_[p]) = WorldSize - 1
    /\ \A r \in Ranks : shard_id_[r] \in DOMAIN ip_addresses_[p]
         => ip_addresses_[p][shard_id_[r]] = r

\* The kind of message a rank is receiving, and from whom.
Expected(r) ==
  CASE pc[r] = "RecvShardIds" -> "shard_id"
    [] pc[r] = "RecvSaved"    -> "saved"
    [] pc[r] = "RecvIpSizes"  -> "ip_size"
    [] pc[r] = "RecvIp"       -> "ip"

Source(r) ==
  IF pc[r] = "RecvShardIds" THEN next[r] ELSE id_to_rank[r][next[r]]

\* All messages carry tag 0, so MPI matches them by order alone: every receive
\* is met by the message that was sent for it.
MatchedReceives ==
  ~tampered => \A r \in Ranks :
    /\ pc[r] \in {"RecvShardIds", "RecvSaved", "RecvIpSizes", "RecvIp"}
    /\ next[r] < WorldSize
    /\ chan[<<Source(r), r>>] # <<>>
    => Head(chan[<<Source(r), r>>]).kind = Expected(r)

\* Once all ranks have settled, no message is left over.
NothingLeftOver ==
  ~tampered /\ (\A r \in Ranks : Settled(r)) =>
    \A p \in Ranks \X Ranks : chan[p] = <<>>

\* A launch never changes the shard id a store already has: the keys of a
\* shard are found again after a relaunch.
ShardIdPreserved ==
  [][~tampered => \A r \in Ranks :
       pc[r] = "SaveShardId" /\ stored[r] # NotFound => stored'[r] = stored[r]]_vars

\* Whatever fails, every rank of the last launch ends up serving or exiting:
\* no rank waits for ever in an MPI call.
LaunchDecides == [](~tampered) => <>[](\A r \in Ranks : Settled(r))
=============================================================================
