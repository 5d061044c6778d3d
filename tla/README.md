# SQPKV in TLA+

SQPKV is a key-value store sharded over RocksDB instances. One MPI job starts
all its processes; one of them becomes the *sharding proxy* that clients talk
to, the others become *shards*. This directory holds TLA+ models of the parts
of the code that decide whether it works, the TLC runs that check them on small
instances, and proofs, checked by TLAPS, of what holds for every instance.

Paths below are relative to `src/` of the repository (so `server/server.cc` is
`src/server/server.cc`).

## The system

| part | state it keeps | operations | talks to |
|---|---|---|---|
| `ServerLauncher` (`server/server_launcher.cc`) | the store, `shard_id_`, `proxy_rank_`, `id_to_rank`, `ip_addresses_`; on disk the key `shard_id` and the hostname file | `OpenDb`, `GetShardId`, `ShakeHands`, `ResolveIpAddresses`, `Run` | the other ranks, by MPI sends, receives and broadcasts |
| `Protocol` (`protocol/protocol.cc`) | the buffer of the packet being read | `SendPacket`, `ForwardPacket`, `ReadWholePacket` | a TCP socket |
| `Connection` (`client/connection.cc`), client shell (`client/main.cc`) | a socket | `ConnectTo`, `Get`, `Put`, `Delete`, `GetAll` | the proxy |
| `Server` (`server/server.cc`) | the listening socket, `workers_` | `Start`, `Accept`, `Stop` | clients; a `WorkerFactory` |
| `ShardingProxyWorker` | the client's socket, one socket per shard | `CreateProxy`, `HandleClient`, `DispatchPacket`, `Stop` | one client, every shard |
| `ShardingPolicy`, `TablePrefixTransform` | number of shards | `GetShardId`; `Transform`, `InDomain` | RocksDB uses the latter |
| `KvWorker` | a socket, the shared store | `HandleClient`, `Stop` | a proxy worker (or a client), RocksDB |
| `Packet` and subclasses (`protocol/packet.cc`) | the encoded packet | constructors, accessors, factories | |
| RDMA transport (`rdma/`) | per connection a `Context` with two buffers, queues and a poller thread; per object `mr_sent_`, `mr_received_` | handlers of connection events and of work completions, `PostSend`, `PostReceive` | its peer, by RDMA sends; constructed by nothing yet |
| RDMA request handlers (`server/*_request_handler.cc`) | the store, or a client's socket | `HandleReadCompletion` | called by the transport |

What is hard about it:

* **Start-up** is a distributed agreement. Opening the store, reading or saving
  the id and finding the InfiniBand address may each fail at any rank; all
  ranks must then take the same way out. All point-to-point messages carry tag
  0, so only their order tells them apart; whether `MPI_Send` buffers is up to
  the MPI library; the job may die at any point and start again from the disk.
* **The wire format** has a size in front of a packet, but readers do not use
  it: the end of a packet is a `read()` shorter than `kMaxNetPacketSize`.
* **Keys and sizes** are read off bytes: the shard of a key is a number parsed
  out of it, and every field of a packet lies behind strings of any length.
* **RDMA** has two threads per connection that share one buffer to send from
  and one to receive into, and an adapter that uses both behind their backs.
* **Serving** has one thread per connection at the proxy and at every shard,
  one store per shard under all of them, shards and clients that vanish, and
  descriptors that are never closed.

What makes the parts correct: at start-up, agreement, a single proxy with a
routing table that fits the shard ids, matched messages, ids that survive
relaunches, and no rank waiting for ever; on the wire, packets that are read
whole, reads that return, losses that are noticed; when serving, every response
belonging to its command and telling the truth about the store (one store, to
its users), clean connections between commands, and an answer to everyone; in
bytes, packets that are understood as they were meant, within their bounds; with
RDMA, ends that can always receive and send only once connected.
`PROJECT.json` lists the hazards line by line with the properties aimed at each.

## Modules

### `Launcher` (start-up)

Every rank is a process with a program counter; each action is one MPI or
RocksDB call with the computation up to the next. `chan` holds the messages
sent and not received per pair of ranks, `bcast` the value each collective
call's root has put in. MPI is external and is modelled from its use: in-order
delivery per pair, and a broadcast that non-roots wait for. A failing call is a
nondeterministic outcome, and `eager`, chosen once, says whether this MPI
library's `MPI_Send` buffers or waits for its receiver. `Relaunch` restarts every process from its
constructor at any moment, keeping `stored` and `hostname_file`: this is both
the regular restart and the crash of the job (an MPI job whose process dies is
ended as a whole). `DirectPut` is a client of a shard that stores under the key
`shard_id`, which lies in the same key space as the data; it takes a client
that can build a packet (see `null_buf` below). The history `tampered` records
that it has happened: a launch on foreign ids may wait for a rank that never
sends, so the properties that such an id breaks are stated for untampered
stores, while agreement and usable stores hold in any case. A client may also
store what is no number (`NoNumber`): `stoi` then throws in the next launch and
the rank is gone (`StoiThrows`) before it has reported an id.

Addresses are abstracted to the rank they belong to, `Garbage` stands for an
uninitialised buffer, and `id_to_rank` keeps the ids that are ever looked up,
with 0 for a missing one as `operator[]` gives.

### `Protocol` (packets over TCP)

One server answers one reader, directly or through a proxy. A TCP stream is
three positions (written, arrived, read): the content of bytes plays no part
in framing. Whether there is a proxy is chosen once (`forwarded`). Actions are single `read()` and `write()` calls. `Segmented` says
whether TCP may deliver part of a write; joining several writes is always
possible. The histories `ends`, `cut` and `got` record where packets end and
where each reading call stopped; the code has no such variables and no action
looks at them.

### `KVStore` (what the service promises)

An abstract specification with no proxy, no connections and no threads: one
store, whose keys lie in several parts. A call is applied once at every part it
concerns, in one step between call and return; `Get`, `Put` and `Delete` concern
one part and are therefore linearizable, `GetAll` sees each part at a moment of
its own, and may lack keys of a part whose list was cut short (the history `cut`
of its result says so; the client is not told). Any other call may fail; what a
call yields may get lost, part by part; and one that is given up may still be
applied, but never twice, never later than the client's next call, and never with
an answer that is another call's.

### `ShardedKV` (clients, proxy, shards)

Composes the client's `Connection`, `Server::Accept`, one
`ShardingProxyWorker` per client and one `KvWorker` per connection of a shard.
Packets travel whole; what that takes is the subject of `Protocol`. Requests
carry a number that only properties read. A `KvWorker` applies a command to
RocksDB (`HandleClient`) and sends the response in a later step (`SendResponse`;
`reply` is the response in between), so that a shard may die with a command
applied and not answered. RocksDB may fail at any command; an iterator that fails
is not noticed (`kv_worker.cc:80` never reads its `status()`), so that a `GetAll`
answers OK with any part of the keys. Its response carries `cut`, for the
properties only. `Prefixes` are sets of data keys: what the launcher's own key
`shard_id` does to `GetAll` is the subject of `Request`. Shards die, the proxy
dies, clients quit or are killed while they wait; a write to a peer that is gone
is lost, fails, or raises SIGPIPE (`server/main.cc` installs a handler for SIGSEGV
only), which ends the writing process, proxy or shard. When the accept loop ends, `Run` calls
`MPI_Finalize` and returns; since an MPI library may or may not wait for the
shards there, `Leave` may or may not happen.

`ShardedKV` implements `KVStore` (property `ImplementsKVStore`). The refinement
mapping reads the abstract state off the concrete one: the store is every key at
the shard it is looked up at; the work still to do is the command on its way to
the proxy or to a shard; the answers are the responses a shard is about to send,
those on their way to a proxy worker and, for `GetAll`, the keys it has collected from the shards before
`target`; the result is the response on its way to the client. The locals of a
round of the worker's loop are reset at its end (`RoundEnds`), since the code
declares them inside the loop.

**`Repairs`.** Three defects keep the committed code from answering a single
request. They are modelled as they are in the source. The constant `Repairs`
names those taken as corrected, so that the rest of the code can be checked at
all:

| repair | the code as committed | where it shows |
|---|---|---|
| `null_buf` | `Packet(size, nullptr)` writes through a null pointer (`packet.cc:28`) | run `service_as_committed`: no client survives its first command |
| `connect_test` | `server_fd << 0` for `server_fd < 0` (`sharding_proxy_worker.cc:18`) | every connection that succeeds is taken for a failure; hidden behind `null_buf` in `service_as_committed` |
| `shard_index` | `shard_servers_[shard_id - 1]` with ids from 0 (`sharding_proxy_worker.cc:36`) | as the mutant of `Dispatched` it leaves the client of the first key waiting |
| `reg_mr` (module `Rdma`) | `ERROR_IF_NON_ZERO` around the pointer `ibv_reg_mr` returns (`rdma_connection.cc:145`) | `BuildContext` fails with its thread running, so no RDMA connection comes about |

`Repairs = {}` is the code as committed. The passing runs of `ShardedKV` and
`Rdma` are statements about the repaired code, and should be read as such.

### `Packet`, `Keys`, `CInts` (pure functions) and `Request` (their composition)

`Packet` holds the constructors and the readers of `packet.cc` on sequences of
bytes: a constructor yields the size it declares and the bytes it writes, which
need not agree, and a reader reports how far it looked. Sizes are 32 bits wide.
`Keys` holds
`ExtractKey` with `stoul`, `GetShardId`, and `TablePrefixTransform` on strings;
`CInts` the remainder and the conversion to `int` of C++, with the widths of
`int` and `unsigned long` as constants.

`Request` sends one request at a time through client, proxy and shards: encoded,
decoded at the proxy to find the shard, decoded at the shard, applied, answered,
and passed back, for `GetAll` through a second encoding. A key that `stoul`
refuses ends the proxy (`dead`), one whose id is negative leads outside
`shard_servers_` (`lost`). RocksDB's iterator is external: with a prefix
extractor set (`server_launcher.cc:72`) it promises the keys that agree with the
prefix on `Transform` and may or may not visit others (`Visible`), in the order
of their bytes (`Sorted`: the i-th key is the one with i - 1 before it) from
`Seek` on (`Sought`). It may fail after any number of keys, and the response is
then OK with the keys before (`CutShort`); the history `cut` holds the shards
where this happened. Every shard's store begins with the key `shard_id` that
`ShakeHands` has put there (`server_launcher.cc:130`), the one a `GetAll` of a
prefix of it finds at every shard. Clients may name it, too; it has no number
behind its underscore, so that a `Get`, `Put` or `Delete` of it ends the proxy
before it comes to a shard. The same actions stand for `KvWorker` and for
`KvRequestHandler`, whose `switch` is the same.

### `Rdma` (the RDMA transport)

Event thread and poller of every end are processes; `events` is the queue of the
connection manager, `posted`, `sends` and `cq` the queues of a queue pair.
`librdmacm` and the adapter are external and modelled from their use: a send is
transmitted when the peer has a receive posted, out of the buffer as it is *at
that moment*. `OnConnection` and `SendMr` are three steps (set `connected`, copy
the mr, post), the branch on `mr_received_` two, so that the poller can run in
between. What the handlers do is the constant `HandlerResults`: an answer, a
size without an answer (`ShardingProxyRequestHandler` writes to its client and
returns the number of bytes), nothing, eof or an error, which dereferences a
null pointer. A function without a `return` (`PostSend`) may end the process.
`ibv_post_send` may fail: for the mr the error is logged and no more (`SendMr`, with
the history `mr_refused`), for an answer it is ignored. A poller ends when
`ibv_get_cq_event` or `ibv_req_notify_cq` fails (`PollerEnds`), and its connection
stays up.
Deleting a `Context` whose thread is joinable always does.

### `MC*` and `*Proofs`

`MCLauncher`, `MCProtocol`, `MCShardedKV`, `MCRequest`, `MCRdma` name the values
the configurations give to constants. The theorems are in `LauncherProofs`
(agreement, stores, ids) and `HandshakeProofs` (the messages of the handshake)
about `Launcher`, and in `ProtocolProofs`, `ShardedKVProofs`, `RdmaProofs`,
`PacketProofs`, `KeysProofs` and `RequestProofs` about the module in the name.
Operators commented *Mutant* are plausible mistakes in the definition that
follows them; `PROJECT.json` pairs each with the property that catches it.

## Runs

| run | states | shows |
|---|---|---|
| `launch` | 140 thousand | agreement and usable stores, whatever clients have stored; and on untampered stores one proxy, routing table, matched messages, nothing left over, ids preserved, and every launch decides, with both kinds of `MPI_Send` |
| `protocol` | 32 thousand | whole packets, whole forwards and answers, direct and through a proxy; noticed losses, direct |
| `service` | 1.08 million | one key-value store (`KVStore`), which includes that a key is looked up where it was stored; own answers, clean connections, no worker that gives up on its client while all shards live |
| `service_served` | 58 thousand | everyone accepted is answered; types and the descriptor count, at its limit and with a negative shard id |
| `request` | 66 thousand | commands understood, packets within their bounds, truthful answers, a `GetAll` that is exact but for iterators that fail, a shard for every key of the intended form |
| `rdma` | 191 thousand | ends that can receive, sends only when connected, both ends receive unless a post fails or a poller ends, no endless spin |

Violation runs, each a disagreement between the code and its own text (the
quotations are in `PROJECT.json`):

| run | property refuted | what happens |
|---|---|---|
| `protocol_segmented` | `WholePackets` | a packet that TCP delivers in parts is taken for whole at the first short `read()` |
| `protocol_coalesced` | `Answered` | the buffer grows by doubling, so a later `read()` returns the third chunk and the terminator together: not short, and the reader waits for more |
| `protocol_lost` | `LossNoticed` | a proxy worker whose shard is gone leaves its client waiting |
| `service_fds` | `AcceptsMore` | sockets of clients that left are not closed, until `accept` fails for good |
| `service_as_committed` | `NoClientCrash` | the first command of a client writes through a null pointer |
| `rdma_first_message` | `FirstMessageIsMr` | the handler answers the peer's mr as if it were a request, out of the buffer the own mr is sent from, and the answer goes first |

### Bounds

* `WorldSize = 3`: a proxy and two shards are the fewest with an order among
  shards; `MaxLaunches = 2`: a launch on what an earlier one, complete or cut
  short, left on disk. The theorems have no such bounds.
* `K = 3` with sizes up to `3K - 1`: below, at and above one and two chunks,
  and a chunk boundary that differs from 1. At `3K` and above
  `protocol_coalesced` shows the failure. Three packets: what one leaves behind
  the next one finds.
* Two clients, two shards, two keys that belong to different shards and share a
  table, one value, three commands: a write, a concurrent one and a read; one
  crash. The clients are symmetric (no action or property orders them);
  symmetry is used for safety only. Absence of a key is the second value.
* `FdLimits = {3, 6}`: 3 descriptors hold one client with its two shards, 6
  hold two.
* `IntMax = 7`, `ULongMax = 63`: one- and two-digit numbers reach every outcome
  of `stoul` and of the conversion to `int`. Keys with a plain number, two
  underscores, a minus sign, a number beyond each width, and no underscore;
  prefixes in and out of the transform's domain, the empty one and one of
  `shard_id` included. Three
  shards and four requests: two keys written, one changed, one read.
* `MaxLength` (1 GiB) bounds the strings of `Request`: two of them and the other
  fields of a packet fit into the `uint32_t` sizes. The theorems need it, the
  runs are far below.
* One RDMA client in `rdma`: its properties are about the ends of one
  connection, and a second client multiplies the states beyond reach.
  `rdma_first_message` has two. Two answers; `MaxRecvWr = 2`, so that the
  receive queue fills up (each completed send posts one receive too many).

Deadlock checking is off where the system may stop: in all runs of `ShardedKV`,
`Request` and `Rdma` (clients need not ask again, workers and processes end); in
`launch` (after the last launch all ranks have settled, and on foreign ids a
launch may hang in `MPI_Recv`; that none waits for ever otherwise is
`LaunchDecides`); in `protocol`, `protocol_coalesced` and `protocol_lost` (the
server may stop; that readers are not left waiting is `Answered` and
`LossNoticedDirect`).

### Fairness

Weak fairness for every step of a rank (`Launcher`), of server, proxy and
reader and of TCP (`Protocol`), of every thread (`ShardedKV`, `Rdma`) and of the
adapter (`Rdma`): a process that can go on is scheduled, an MPI call that can
complete completes, TCP and the adapter deliver while both ends live. Nothing forces a client to ask, a process to
die or a job to be relaunched. Weak fairness is enough since each of these
steps, once possible, stays possible until taken or until its process ends.

## Proofs

`LauncherProofs`, for every `WorldSize`, both kinds of `MPI_Send`, any number of
launches and any `ClientIds`:

* `TypeCorrect`: `Spec => []TypeOK`. `TypeOK` needs the bound of the receive
  loops (`LoopBound`: inside `RecvIp` the loop variable is below `WorldSize`)
  to be inductive, because the loops index `id_to_rank` with it.
* `Agreement`: `Spec => []AllOrNothing`. Two invariants carry it. `Obeyed`:
  a rank past a collective call goes where the broadcast value sends it, and a
  broadcast is never changed. `Roots`: the ranks agree on the proxy after the
  election, and only that rank can still perform the two later broadcasts.
  Serving and exited ranks would then have read different values of one
  broadcast. A rank that `stoi` has ended has reported no id (as rank 0 it has
  collected none), so nobody is past the election.
* `DbNeverNull`: `Spec => []DbUsable`. A rank with no store reports -1
  (`Reports`: in its variable, in the channel, or in what rank 0 has made of
  it), -1 is absorbing in the election, so past a successful election every
  store is open.
* `IdsPreserved`: `Spec => ShardIdPreserved`, from `OwnId`: as long as no store
  is tampered with, what is stored is the rank itself. With a tampered store it
  does not hold: a client's `Put` under `shard_id` is the id of the next launch,
  whose `ShakeHands` then saves the rank over it (`server_launcher.cc:130`).

`HandshakeProofs`, in the same generality, on stores that no client has tampered
with (foreign ids break all four):

* `OneProxy`, `TableInOrder`, `ReceivesMatch`, `ChannelsDrained`:
  `Spec => []SingleProxy`, `[]RoutingTable`, `[]MatchedReceives`,
  `[]NothingLeftOver`. The inductive invariant is `HandshakeInv`: the invariants
  of `LauncherProofs` and, while untampered, `Shaken`. Its core is `Wires`, which
  says for every rank and place of rank 0 what exactly the channel between them
  holds; with one tag for all messages, a receive is met by the right message
  because nothing older is left. `Elected` adds that rank 0 is the proxy,
  `OwnIds` that ids are ranks, `Addresses` how far the table is filled, `Quiet`
  that other channels are empty, `Roles` who serves as what.

`ProtocolProofs`, for every `K`, set of sizes, with and without a proxy, with
and without segmentation:

* `TypeCorrect`: `Spec => []TypeOK`, with the order read <= arrived <= written.
* `RoomForAChunk`: `Spec => []ReadRoom`. Inductive invariant: while reading,
  `size + buf_len = capacity`, `capacity >= K`, and a buffer with less than `K`
  bytes of room holds at least `K` bytes, so that doubling makes room for a
  chunk.

* `PacketsWhole`, `ForwardsWhole`: `Framed => (Spec => []WholePackets)` and the
  same for `WholeForwards`. `Framed` is what the code relies on without saying
  so: TCP does not split a write, and packets are shorter than three chunks of
  more than one byte. It cannot be dropped: `protocol_segmented` refutes
  `WholePackets` without its first half, `protocol_coalesced` shows readers that
  wait for ever without its second. The invariant `FrameInv` places every
  position of a stream at a multiple of `K` from the start of the packet or at
  its end, and says which of the three loops (write, forward, read) is where.

`ShardedKVProofs`, for any clients, keys, values, shards and `Repairs`, and
whichever processes die:

* `ServiceTypes`, `AnswersPaired`, `RoundsLeaveNothing`: `Spec => []TypeOK`,
  `[]OwnAnswer`, `[]CleanConnections`. The invariant is `PairInv`. Neither of the
  two is inductive alone: a response is the client's own because the worker that
  forwards it found its connections clean, and they are clean because every
  round takes what it has sent for. `PairInv` says, for every place of a
  worker's program, which shards may hold the command or the response of its
  packet (one, for `Forwarding`; one after the other, for `GetAll`), that a
  connection holds at most one of a command, a response about to be sent and a
  response (`Routed`), and that packet, request and response belong to what the
  client waits for.
* `EveryCommandDispatched`: `AllPlaced => (Spec => []Dispatched)`. `AllPlaced` (the
  index repaired, no negative number in a key) is needed: without it the
  committed index and a negative id leave a client waiting.
* `ServiceIsAStore`: `Spec => ImplementsKVStore`, the refinement. Under `PairInv`,
  `Invoke` is the store's call, `HandleClient` of a shard its step at one part
  (`SendResponse` then changes nothing the store has, or with the shard's end loses
  the answer), a forwarded response or the end of a `GetAll` its answer, the
  client's reading of it the return, end of file or leaving giving up; what dies
  loses calls or answers (`Lose`); every other step changes nothing the store has.
  That a list is whole unless its `cut` says otherwise is carried from the shard's
  response through `Collect` to the result. `KVStore` has no fairness, so this is
  the whole of the refinement.

`RdmaProofs`, for any clients, results of handlers, receive queue and repairs:

* `RdmaTypes`, `AlwaysReceiving`, `SendsAfterConnect`: `Spec => []TypeOK`,
  `[]ReceiveReady`, `[]SentConnected`. The invariant `SetUpInv` follows a
  connection through its set-up: the events under way are those its ends expect,
  each once (`EventsOK`, `OneAtATime`); nothing completes while the connection is
  being set up (`Idle`), and no receive fails before it is down (`Errors`); an
  end that is built can receive (`BuiltReady`); a connection that is up has both ends built (`LinksBuilt`).

`PacketProofs`, for all byte strings whose packet fits into a `uint32_t` size:

* `KeyCommandRead`, `PutCommandRead`, `GetResponseRead`, `PutResponseRead`: what
  the factories of `packet.cc` read is what the constructors wrote, and they
  look no further than the packet's end.
* `GetAllResponseRead`: the same for any sequence of keys, if the status message
  has at most four bytes. `GetAllResponsePacket` computes its size without the
  message but counts four bytes for the number of keys twice; the theorem shows
  that this is enough for the "OK" the workers answer with, and how far it goes.

`KeysProofs`, for all strings:

* `PrefixShared`: a key that starts with a prefix in the domain of
  `TablePrefixTransform` is in it, too, and both have the same transform: the
  first underscore of the prefix is the first one of the key. This is what makes
  the iteration of `GetAll` safe under the prefix extractor. That a string with
  an underscore has a first one is the well-foundedness of `<` on `Nat`.
* Lemmas on the order of the keys, for `GetAll`: `Before` is irreflexive,
  transitive and total, `Seek(prefix)` skips no key that starts with the prefix
  (`SeekReaches`), and between `prefix` and such a key all keys start with it
  (`PrefixTogether`), so that the loop may stop at the first that does not.
* Lemmas for `RequestProofs`: digits that an `unsigned long` can hold are read as
  their value, and a number that an `int` can hold leads to a shard.

`RequestProofs`, for any number of shards, any set of keys, values and messages,
and any widths of the integers:

* `RequestTypes`, `CommandsUnderstood`, `AnswersTruthful`, `PlainKeysFindShards`:
  `Spec => []TypeOK`, `[]Understood`, `[]Truthful`, `[]PlainKeysServed`. The
  invariant `RequestInv` adds to the types that every key that has a shard has
  its last value there (`Current`), and where the command or its answer is, as
  the bytes its constructor made (`Journey`). The theorems of `PacketProofs` turn
  those bytes into what is read.
* `PacketsWithin`, `GetAllComplete`: `AllKeysFit => (Spec => []WithinPackets)` and
  the same for `GetAllExact`. `AllKeysFit` says that there are finitely many keys
  and that any list with every key at most once, and `shard_id` at most once per
  shard, makes a response whose size is below 2^32; a longer one wraps the `uint32_t` in front of the packet and the
  number and sizes of its strings, and nothing in the code looks for that. Every
  deployment whose keys, with four bytes for each and 14 more, stay below 4 GiB
  satisfies it.
  The invariant `ListInv` adds to `RequestInv` that a key is stored at no shard
  but its own (`Sharded`, of which only `shard_id` is exempt), without which two
  shards could list the same key, and that a shard that has handled a `GetAll` has
  answered with a list of its keys with the prefix, each at most once, and with all
  of them unless its iterator failed (`Listing`, `ListOf`). The argument: a set of keys has as many ranks as members, so
  `Sorted` lists each once and in order (`SortedKeys`, an injection of a finite
  set into one of its size); the loop of `KvWorker` takes the keys with the prefix
  out of it and no other (`IterateLists`), also out of what the prefix extractor
  leaves visible (`ShardLists`, with `PrefixShared`); what a failing iterator leaves
  is the start of such a list (`StartOfList`); the proxy reads back each list
  (`GetAllResponseRead`); and lists one behind the other name a key as often as
  there are lists that name it (`TimesTogether`), for a client's key at most one, by
  `Sharded`, and by `Current` one if it was written and not deleted; for `shard_id`
  all those whose iterator did not fail before it (`ListsCounted`).

Where a proof needs induction over data (digits of a number, strings of a
packet) it takes a least counterexample in a set of numbers, by the
well-foundedness of `<` on `Nat` (lemma `Upward` of `PacketProofs`); the library's
induction theorems have an operator as a parameter, which the provers cannot
instantiate.

The assumptions are the named `ASSUME`s of `Launcher`, `Protocol`, `Keys`,
`ShardedKV`, `Rdma` and `Request`; TLC evaluates them in the runs. They say that
bounds are numbers, that `None`, `Throws` and other sentinels are no data, that
strings are sequences of bytes of at most 1 GiB, that RocksDB's error messages
are not empty and that the launcher has stored some id.

Only model-checked: the liveness properties (`LaunchDecides`, `Answered`,
`LossNoticedDirect`, `Served`, `Exchanged`, `SpinEnds`); liveness under fairness
is out of the prover's reach. Every invariant and action property of a passing
run, and the refinement, is a theorem.

## Not modelled

* A request handler and the RDMA transport in one state space: no `main` or
  class brings them together, and what a handler does with a message that is no
  request is undefined.
* Packets with an unknown op code, which no client sends.
* `Server::Stop` and the workers' `Stop`: the singleton `Server` is never
  deleted, so a running program never calls them.
* Short `write()`s on blocking sockets; RocksDB's internals (a call happens at
  one moment and may fail); memory; logging; the terminal.
* A shard's own accept loop and descriptors; a shard's worker that ends once the
  proxy is gone, which nobody observes (that the shard finishes the command at hand,
  and may end by SIGPIPE when it answers, is in `ShardedKV`).

## Plan

Every component with behaviour of its own has a module, and every safety property
of a passing run a theorem. Proved with a hypothesis are `PacketsWhole` and
`ForwardsWhole` (`Framed`), `EveryCommandDispatched` (`AllPlaced`), and
`PacketsWithin` and `GetAllComplete` (`AllKeysFit`). A change to the code that
removes the reason for one (readers that use the size in front of a packet, an
index that is checked, a size that is compared with the `uint32_t` limit) should
change the model and drop the hypothesis. Beyond that, the violation runs are to
become passing ones as the code they are about is corrected.
