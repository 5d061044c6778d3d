------------------------------ MODULE Protocol ------------------------------
(***************************************************************************)
(* How packets travel over TCP (src/protocol/protocol.cc).                 *)
(*                                                                         *)
(* A packet has no delimiter that its reader looks at: SendPacket writes   *)
(* chunks of kMaxNetPacketSize bytes and a shorter last one, and readers   *)
(* take a read() that returns less than kMaxNetPacketSize bytes for the    *)
(* end.  This module follows the responses of one server: written by       *)
(* SendPacket, passed on by ForwardPacket when a sharding proxy sits in    *)
(* between, read by ReadWholePacket.  The reader asks for the next one     *)
(* only after the last call returned, as Connection does.                  *)
(*                                                                         *)
(* Bytes are not told apart: a TCP stream is three positions in it, up to  *)
(* where it was written, has arrived, and was read.                        *)
(***************************************************************************)
EXTENDS Naturals, Sequences

CONSTANTS
  K,           \* kMaxNetPacketSize
  Sizes,       \* sizes of the packets (ToBinary().size_)
  Segmented,   \* TRUE: TCP may split writes; FALSE: it only joins them
  MaxPackets   \* bound: number of responses asked for

ASSUME KAssumption == K \in Nat \ {0}
ASSUME SizesAssumption == Sizes \subseteq Nat \ {0}
ASSUME SegmentedAssumption == Segmented \in BOOLEAN
ASSUME MaxPacketsAssumption == MaxPackets \in Nat

\* Stream 1 leaves the server; stream 2 leaves the proxy.
Streams == {1, 2}

VARIABLES
  forwarded,   \* a sharding proxy passes the responses on (never changes)
  asked,       \* requests made by the reader
  served,      \* requests taken up by the server
  relayed,     \* requests passed on by the proxy
  sending,     \* the server is in SendPacket
  left,        \* data.size_: bytes of its packet not written yet
  alive,       \* the server's end of stream 1 is open
  written, arrived, consumed,   \* per stream: positions
  breaks,      \* per stream: the positions at which a write ended
  forwarding,  \* the proxy's worker: "idle", "read", "write" or "stopped"
  chunk,       \* bytes_read in ForwardPacket
  reading,     \* the reader: "idle", "read" or "eof"
  size, capacity, buf_len,      \* of buf in ReadWholePacket
  ends,        \* history: where each packet ends in stream 1
  cut,         \* history: where each ForwardPacket stopped reading
  got          \* history: where each ReadWholePacket stopped reading

server == <<served, sending, left, alive, ends>>
proxy == <<forwarded, relayed, forwarding, chunk, cut>>
reader == <<asked, reading, size, capacity, buf_len, got>>
streams == <<written, arrived, consumed, breaks>>
vars == <<server, proxy, reader, streams>>

\* The stream the client reads.
Last == IF forwarded THEN 2 ELSE 1

Init ==
  /\ forwarded \in BOOLEAN
  /\ asked = 0 /\ served = 0 /\ relayed = 0
  /\ sending = FALSE /\ left = 0 /\ alive = TRUE
  /\ written = [s \in Streams |-> 0] /\ arrived = [s \in Streams |-> 0]
  /\ consumed = [s \in Streams |-> 0] /\ breaks = [s \in Streams |-> {}]
  /\ forwarding = "idle" /\ chunk = 0
  /\ reading = "idle" /\ size = 0 /\ capacity = 0 /\ buf_len = 0
  /\ ends = <<>> /\ cut = <<>> /\ got = <<>>

-----------------------------------------------------------------------------
(* TCP. *)

Write(s, n) ==
  /\ written' = [written EXCEPT ![s] = @ + n]
  /\ breaks' = [breaks EXCEPT ![s] = @ \cup {written[s] + n}]
  /\ UNCHANGED <<arrived, consumed>>

\* Some of what was written becomes available to read().
Arrive(s) ==
  /\ \E n \in (arrived[s] + 1)..written[s] :
       /\ Segmented \/ n \in breaks[s]
       /\ arrived' = [arrived EXCEPT ![s] = n]
  /\ UNCHANGED <<server, proxy, reader, written, consumed, breaks>>

Min(a, b) == IF a <= b THEN a ELSE b
Max(a, b) == IF a >= b THEN a ELSE b

\* Mutant: read() is taken to fill the buffer.
ReadableFull(s, limit) == limit

\* What read(s, ..., limit) returns; it blocks while this is 0.
Readable(s, limit) == Min(limit, arrived[s] - consumed[s])

Read(s, n) ==
  /\ n > 0
  /\ consumed' = [consumed EXCEPT ![s] = @ + n]
  /\ UNCHANGED <<written, arrived, breaks>>

\* read() returns 0: the writer is gone and everything was read.
AtEof(s) == s = 1 /\ ~alive /\ consumed[s] = written[s]

-----------------------------------------------------------------------------
(* SendPacket at the server, one write at a time. *)

StartSend ==
  /\ alive /\ ~sending
  /\ served < (IF forwarded THEN relayed ELSE asked)
  /\ \E n \in Sizes : left' = n
  /\ sending' = TRUE /\ served' = served + 1
  /\ UNCHANGED <<alive, ends, proxy, reader, streams>>

\* SendPacket returns: the packet ends where its last write ended.
Sent == sending' = FALSE /\ ends' = Append(ends, written'[1])

WriteFull ==
  /\ alive /\ sending /\ left >= K
  /\ Write(1, K)
  /\ left' = left - K
  /\ UNCHANGED <<served, sending, alive, ends, proxy, reader>>

WriteRest ==
  /\ alive /\ sending /\ left > 0 /\ left < K
  /\ Write(1, left) /\ Sent
  /\ left' = 0
  /\ UNCHANGED <<served, alive, proxy, reader>>

\* Mutant: nothing is sent after the last full chunk.
TerminatorForgotten == 0

\* The '\0' after a packet whose size is a multiple of kMaxNetPacketSize.
Terminator == 1

WriteTerminator ==
  /\ alive /\ sending /\ left = 0
  /\ Write(1, Terminator) /\ Sent
  /\ UNCHANGED <<served, left, alive, proxy, reader>>

\* The server's process dies; its kernel closes the connection.
Die ==
  /\ alive /\ alive' = FALSE
  /\ UNCHANGED <<served, sending, left, ends, proxy, reader, streams>>

-----------------------------------------------------------------------------
(* ForwardPacket at the proxy. *)

\* Mutant: a chunk that fills the buffer ends the packet.
ShortOrFull(rc) == rc <= K

\* rc < kMaxNetPacketSize: the end of the packet.
Short(rc) == rc < K

\* DispatchPacket sends the request on and calls ForwardPacket.
Relay ==
  /\ forwarded /\ forwarding = "idle" /\ relayed < asked
  /\ relayed' = relayed + 1 /\ forwarding' = "read"
  /\ UNCHANGED <<forwarded, chunk, cut, server, reader, streams>>

ForwardRead ==
  /\ forwarding = "read"
  /\ chunk' = Readable(1, K)
  /\ Read(1, chunk')
  /\ forwarding' = "write"
  /\ UNCHANGED <<forwarded, relayed, cut, server, reader>>

ForwardWrite ==
  /\ forwarding = "write"
  /\ Write(2, chunk)
  /\ \/ /\ Short(chunk)
        /\ forwarding' = "idle" /\ cut' = Append(cut, consumed[1])
     \/ /\ ~Short(chunk)
        /\ forwarding' = "read" /\ UNCHANGED cut
  /\ UNCHANGED <<forwarded, relayed, chunk, server, reader>>

\* Status::Eof: HandleClient leaves its loop; it closes no descriptor.
ForwardEof ==
  /\ forwarding = "read" /\ AtEof(1)
  /\ forwarding' = "stopped"
  /\ UNCHANGED <<forwarded, relayed, chunk, cut, server, reader, streams>>

-----------------------------------------------------------------------------
(* ReadWholePacket at the client. *)

Ask ==
  /\ reading = "idle" /\ asked < MaxPackets
  /\ asked' = asked + 1 /\ reading' = "read"
  /\ size' = 0 /\ capacity' = K /\ buf_len' = K
  /\ UNCHANGED <<got, server, proxy, streams>>

\* Mutant: the buffer is grown to its size instead of twice its size.
RoomDoublingForgotten(n, cap) == Max(cap, n)

\* buf.reserve(buf.size() * 2)
Reserve(n, cap) == Max(cap, n * 2)

NewCapacity == IF buf_len < K THEN Reserve(size, capacity) ELSE capacity
Room == IF buf_len < K THEN NewCapacity - size ELSE buf_len

ReadChunk ==
  LET rc == Readable(Last, Room)
  IN /\ reading = "read"
     /\ Read(Last, rc)
     /\ capacity' = NewCapacity
     /\ size' = size + rc /\ buf_len' = Room - rc
     /\ \/ /\ Short(rc)
           /\ reading' = "idle" /\ got' = Append(got, consumed'[Last])
        \/ /\ ~Short(rc)
           /\ UNCHANGED <<reading, got>>
     /\ UNCHANGED <<asked, server, proxy>>

\* Mutant: a read() of 0 bytes is tried again.
ReadEofRetried ==
  /\ reading = "read" /\ AtEof(Last)
  /\ UNCHANGED vars

ReadEof ==
  /\ reading = "read" /\ AtEof(Last)
  /\ reading' = "eof" /\ size' = 0
  /\ UNCHANGED <<asked, capacity, buf_len, got, server, proxy, streams>>

-----------------------------------------------------------------------------

ServerStep == StartSend \/ WriteFull \/ WriteRest \/ WriteTerminator
ProxyStep == Relay \/ ForwardRead \/ ForwardWrite \/ ForwardEof
ReaderStep == ReadChunk \/ ReadEof

Next ==
  \/ ServerStep \/ Die
  \/ ProxyStep
  \/ Ask \/ ReaderStep
  \/ \E s \in Streams : Arrive(s)

Spec == Init /\ [][Next]_vars

\* The processes and the network go on; nothing makes a server die or a
\* client ask.
FairSpec ==
  /\ Spec
  /\ WF_vars(ServerStep) /\ WF_vars(ProxyStep) /\ WF_vars(ReaderStep)
  /\ \A s \in Streams : WF_vars(Arrive(s))

-----------------------------------------------------------------------------
(* Properties. *)

\* Counters and positions are naturals and come in the order they are made in.
TypeOK ==
  /\ forwarded \in BOOLEAN
  /\ asked \in Nat /\ served \in Nat /\ relayed \in Nat
  /\ sending \in BOOLEAN /\ left \in Nat /\ alive \in BOOLEAN
  /\ written \in [Streams -> Nat] /\ arrived \in [Streams -> Nat]
  /\ consumed \in [Streams -> Nat]
  /\ \A s \in Streams : consumed[s] <= arrived[s] /\ arrived[s] <= written[s]
  /\ breaks \in [Streams -> SUBSET Nat]
  /\ forwarding \in {"idle", "read", "write", "stopped"} /\ chunk \in Nat
  /\ reading \in {"idle", "read", "eof"}
  /\ size \in Nat /\ capacity \in Nat /\ buf_len \in Nat
  /\ ends \in Seq(Nat) /\ cut \in Seq(Nat) /\ got \in Seq(Nat)

\* ReadWholePacket never calls read() with room for less than a full chunk, and
\* never past the capacity of buf: the buffer is grown in time.
ReadRoom ==
  reading = "read" => /\ Room >= K
                      /\ size + Room <= NewCapacity

\* What ReadWholePacket returns is exactly the packet that was sent, no part of
\* it and nothing of the next: the n-th call stops where the n-th packet ends.
WholePackets ==
  \A n \in 1..Len(got) : n <= Len(ends) /\ got[n] = ends[n]

\* The same of ForwardPacket: the proxy leaves nothing of one response in the
\* connection to the shard for the next request to find.
WholeForwards ==
  \A n \in 1..Len(cut) : n <= Len(ends) /\ cut[n] = ends[n]

\* Every call of ReadWholePacket returns, unless the server dies in between.
Answered == []((reading = "read") => <>(reading # "read" \/ ~alive))

\* A client whose server is lost gets to know: ReadWholePacket returns.
LossNoticed == []((reading = "read" /\ ~alive) => <>(reading # "read"))

\* The same of a client that talks to its server directly.
LossNoticedDirect == ~forwarded => LossNoticed
=============================================================================
