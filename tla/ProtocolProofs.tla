--------------------------- MODULE ProtocolProofs ---------------------------
(***************************************************************************)
(* Proofs about Protocol, for every kMaxNetPacketSize, every set of packet *)
(* sizes, and any way TCP splits or joins what is written; that packets    *)
(* stay whole, for packets below three chunks on a TCP that only joins.    *)
(***************************************************************************)
EXTENDS Protocol, TLAPS

USE DEF server, proxy, reader, streams

\* buf in ReadWholePacket: the part that is read plus the part that is left is
\* its capacity, and a part too small for a chunk is one that doubling makes
\* large enough.
Buffer ==
  reading = "read" => /\ size + buf_len = capacity
                      /\ buf_len >= K \/ size >= K

Inv == TypeOK /\ Buffer

\* A read() returns no more than was asked for and than has arrived.
LEMMA ReadableFacts ==
  ASSUME TypeOK, NEW s \in Streams, NEW limit \in Nat
  PROVE  /\ Readable(s, limit) \in Nat
         /\ Readable(s, limit) <= limit
         /\ consumed[s] + Readable(s, limit) <= arrived[s]
BY DEF TypeOK, Readable, Min

\* The stream the client reads is one of the two.
LEMMA StreamFacts == 1 \in Streams /\ 2 \in Streams /\ Last \in Streams
BY DEF Streams, Last

\* A write moves only the end of its stream.
LEMMA WriteType ==
  ASSUME TypeOK, NEW s \in Streams, NEW n \in Nat, Write(s, n)
  PROVE  /\ written' \in [Streams -> Nat] /\ breaks' \in [Streams -> SUBSET Nat]
         /\ arrived' = arrived /\ consumed' = consumed
         /\ \A t \in Streams : consumed'[t] <= arrived'[t] /\ arrived'[t] <= written'[t]
<1>1. written' = [written EXCEPT ![s] = @ + n] /\ arrived' = arrived /\ consumed' = consumed
  BY DEF Write
<1>2. written[s] + n \in Nat /\ breaks[s] \cup {written[s] + n} \in SUBSET Nat
  BY DEF TypeOK
<1>3. breaks' = [breaks EXCEPT ![s] = @ \cup {written[s] + n}]
  BY DEF Write
<1>4. breaks' \in [Streams -> SUBSET Nat]
  BY <1>2, <1>3 DEF TypeOK
<1>5. written' \in [Streams -> Nat]
  BY <1>1, <1>2 DEF TypeOK
<1>6. \A t \in Streams : consumed'[t] <= arrived'[t] /\ arrived'[t] <= written'[t]
  <2> TAKE t \in Streams
  <2>1. written'[t] = written[t] \/ written'[t] = written[t] + n
    BY <1>1 DEF TypeOK
  <2>2. /\ consumed[t] \in Nat /\ arrived[t] \in Nat /\ written[t] \in Nat
        /\ consumed[t] <= arrived[t] /\ arrived[t] <= written[t]
    BY DEF TypeOK
  <2> QED BY <1>1, <2>1, <2>2
<1> QED BY <1>1, <1>4, <1>5, <1>6

\* A read moves only the read position, and not past what has arrived.
LEMMA ReadType ==
  ASSUME TypeOK, NEW s \in Streams, NEW n \in Nat, Read(s, n),
         consumed[s] + n <= arrived[s]
  PROVE  /\ consumed' \in [Streams -> Nat]
         /\ written' = written /\ arrived' = arrived /\ breaks' = breaks
         /\ \A t \in Streams : consumed'[t] <= arrived'[t] /\ arrived'[t] <= written'[t]
         /\ n > 0
BY DEF Read, TypeOK

\* The room ReadWholePacket makes.
LEMMA RoomFacts ==
  ASSUME Inv, reading = "read"
  PROVE  /\ Room \in Nat /\ Room >= K /\ NewCapacity \in Nat
         /\ size + Room = NewCapacity
<1>1. size \in Nat /\ capacity \in Nat /\ buf_len \in Nat /\ K \in Nat
  BY KAssumption DEF Inv, TypeOK
<1>2. size + buf_len = capacity /\ (buf_len >= K \/ size >= K)
  BY DEF Inv, Buffer
<1>3. CASE buf_len >= K
  BY <1>1, <1>2, <1>3 DEF Room, NewCapacity
<1>4. CASE buf_len < K
  <2>1. size >= K /\ capacity <= size * 2
    BY <1>1, <1>2, <1>4
  <2>2. NewCapacity = size * 2
    BY <1>1, <1>4, <2>1 DEF NewCapacity, Reserve, Max
  <2> QED BY <1>1, <1>4, <2>1, <2>2 DEF Room
<1> QED BY <1>1, <1>3, <1>4

\* Every step preserves the types and the shape of the buffer.
LEMMA InvStep == Inv /\ [Next]_vars => Inv'
<1> SUFFICES ASSUME Inv, [Next]_vars PROVE Inv'
  OBVIOUS
<1> USE StreamFacts DEF Inv
<1>1. CASE StartSend
  BY <1>1, SizesAssumption DEF StartSend, TypeOK, Buffer
<1>2. CASE WriteFull
  <2>1. left' \in Nat /\ Write(1, K) /\ K \in Nat
    BY <1>2, KAssumption DEF WriteFull, TypeOK
  <2> QED BY <1>2, <2>1, WriteType DEF WriteFull, TypeOK, Buffer
<1>3. CASE WriteRest
  <2>1. Write(1, left) /\ left \in Nat
    BY <1>3 DEF WriteRest, TypeOK
  <2>2. written' \in [Streams -> Nat] /\ ends' = Append(ends, written'[1])
    BY <1>3, <2>1, WriteType DEF WriteRest, Sent
  <2>3. ends' \in Seq(Nat)
    BY <2>2 DEF TypeOK
  <2> QED BY <1>3, <2>1, <2>3, WriteType DEF WriteRest, Sent, TypeOK, Buffer
<1>4. CASE WriteTerminator
  <2>1. Write(1, Terminator) /\ Terminator \in Nat
    BY <1>4 DEF WriteTerminator, Terminator
  <2>2. written' \in [Streams -> Nat] /\ ends' = Append(ends, written'[1])
    BY <1>4, <2>1, WriteType DEF WriteTerminator, Sent
  <2>3. ends' \in Seq(Nat)
    BY <2>2 DEF TypeOK
  <2> QED BY <1>4, <2>1, <2>3, WriteType DEF WriteTerminator, Sent, TypeOK, Buffer
<1>5. CASE Die
  BY <1>5 DEF Die, TypeOK, Buffer
<1>6. CASE Relay
  BY <1>6 DEF Relay, TypeOK, Buffer
<1>7. CASE ForwardRead
  <2>1. /\ chunk' \in Nat /\ Read(1, chunk')
        /\ consumed[1] + chunk' <= arrived[1]
    BY <1>7, ReadableFacts, KAssumption DEF ForwardRead
  <2> QED BY <1>7, <2>1, ReadType DEF ForwardRead, TypeOK, Buffer
<1>8. CASE ForwardWrite
  <2>1. Write(2, chunk) /\ chunk \in Nat
    BY <1>8 DEF ForwardWrite, TypeOK
  <2>2. cut' \in Seq(Nat)
    <3>1. cut \in Seq(Nat) /\ consumed[1] \in Nat
      BY DEF TypeOK
    <3>2. cut' = cut \/ cut' = Append(cut, consumed[1])
      BY <1>8 DEF ForwardWrite
    <3>3. Append(cut, consumed[1]) \in Seq(Nat)
      BY <3>1
    <3> QED BY ONLY <3>1, <3>2, <3>3
  <2>3. /\ forwarding' \in {"idle", "read", "write", "stopped"}
        /\ UNCHANGED <<forwarded, relayed, chunk, server, reader>>
    BY <1>8 DEF ForwardWrite
  <2> QED BY <2>1, <2>2, <2>3, WriteType DEF TypeOK, Buffer
<1>9. CASE ForwardEof
  BY <1>9 DEF ForwardEof, TypeOK, Buffer
<1>10. CASE Ask
  <2>1. TypeOK'
    <3>1. /\ asked' = asked + 1 /\ size' = 0 /\ capacity' = K /\ buf_len' = K
          /\ reading' = "read"
          /\ UNCHANGED <<got, server, proxy, streams>>
      BY <1>10 DEF Ask
    <3>2. asked' \in Nat /\ size' \in Nat /\ capacity' \in Nat /\ buf_len' \in Nat
      BY <3>1, KAssumption DEF TypeOK
    <3> QED BY <3>1, <3>2 DEF TypeOK, server, proxy, streams
  <2>2. Buffer'
    BY <1>10, KAssumption DEF Ask, Buffer
  <2> QED BY <2>1, <2>2
<1>11. CASE ReadChunk
  <2> DEFINE rc == Readable(Last, Room)
  <2>1. /\ Room \in Nat /\ Room >= K /\ NewCapacity \in Nat
        /\ size + Room = NewCapacity
    BY <1>11, RoomFacts DEF ReadChunk
  <2>2. rc \in Nat /\ rc <= Room /\ consumed[Last] + rc <= arrived[Last]
    BY <2>1, ReadableFacts
  <2>3. /\ consumed' \in [Streams -> Nat] /\ rc > 0
        /\ written' = written /\ arrived' = arrived /\ breaks' = breaks
        /\ \A t \in Streams : consumed'[t] <= arrived'[t] /\ arrived'[t] <= written'[t]
    BY <1>11, <2>2, ReadType DEF ReadChunk
  <2>4. capacity' = NewCapacity /\ size' = size + rc /\ buf_len' = Room - rc
    BY <1>11 DEF ReadChunk
  <2>5. got' \in Seq(Nat) /\ reading' \in {"idle", "read", "eof"}
    <3>1. got \in Seq(Nat) /\ reading \in {"idle", "read", "eof"} /\ consumed'[Last] \in Nat
      BY <2>3 DEF TypeOK
    <3>2. \/ got' = got /\ reading' = reading
          \/ got' = Append(got, consumed'[Last]) /\ reading' = "idle"
      BY <1>11 DEF ReadChunk
    <3>3. Append(got, consumed'[Last]) \in Seq(Nat)
      BY <3>1
    <3> QED BY ONLY <3>1, <3>2, <3>3
  <2> HIDE DEF rc
  <2>6. size' \in Nat /\ capacity' \in Nat /\ buf_len' \in Nat
    BY <2>1, <2>2, <2>4 DEF TypeOK
  <2>7. TypeOK'
    BY <1>11, <2>3, <2>5, <2>6 DEF ReadChunk, TypeOK
  <2>8. Buffer'
    <3>1. reading' = "read" => rc >= K
      BY <1>11, <2>2, KAssumption DEF ReadChunk, Short, rc
    <3>2. size' + buf_len' = capacity' /\ (rc >= K => size' >= K)
      BY <2>1, <2>2, <2>4, KAssumption DEF TypeOK
    <3> QED BY <3>1, <3>2 DEF Buffer
  <2> QED BY <2>7, <2>8
<1>12. CASE ReadEof
  BY <1>12 DEF ReadEof, TypeOK, Buffer
<1>13. ASSUME NEW s \in Streams, Arrive(s) PROVE Inv'
  <2>1. PICK n \in (arrived[s] + 1)..written[s] : arrived' = [arrived EXCEPT ![s] = n]
    BY <1>13 DEF Arrive
  <2>2. arrived[s] \in Nat /\ written[s] \in Nat
    BY DEF TypeOK
  <2>3. n \in Nat /\ arrived[s] <= n /\ n <= written[s]
    BY <2>1, <2>2
  <2>4. arrived' \in [Streams -> Nat] /\ written' = written /\ consumed' = consumed
    BY <1>13, <2>1, <2>3 DEF Arrive, TypeOK
  <2>5. \A t \in Streams : consumed'[t] <= arrived'[t] /\ arrived'[t] <= written'[t]
    <3>1. ASSUME NEW t \in Streams
          PROVE  consumed'[t] <= arrived'[t] /\ arrived'[t] <= written'[t]
      <4>1. /\ consumed[t] \in Nat /\ arrived[t] \in Nat /\ written[t] \in Nat
            /\ consumed[t] <= arrived[t] /\ arrived[t] <= written[t]
        BY DEF TypeOK
      <4>2. arrived'[t] = IF t = s THEN n ELSE arrived[t]
        BY <2>1 DEF TypeOK
      <4> QED BY ONLY <2>3, <2>4, <4>1, <4>2
    <3> QED BY <3>1
  <2> QED BY <1>13, <2>4, <2>5 DEF Arrive, TypeOK, Buffer
<1>14. CASE UNCHANGED vars
  BY <1>14 DEF vars, TypeOK, Buffer
<1> QED
  BY <1>1, <1>2, <1>3, <1>4, <1>5, <1>6, <1>7, <1>8, <1>9, <1>10, <1>11, <1>12,
     <1>13, <1>14
  DEF Next, ServerStep, ProxyStep, ReaderStep

\* Nothing was written and nobody reads at first.
LEMMA InvInit == Init => Inv
<1> SUFFICES ASSUME Init PROVE Inv
  OBVIOUS
<1>1. /\ written \in [Streams -> Nat] /\ arrived \in [Streams -> Nat]
      /\ consumed \in [Streams -> Nat]
      /\ \A s \in Streams : consumed[s] <= arrived[s] /\ arrived[s] <= written[s]
  BY DEF Init
<1>2. breaks \in [Streams -> SUBSET Nat]
  BY DEF Init
<1>3. ends \in Seq(Nat) /\ cut \in Seq(Nat) /\ got \in Seq(Nat)
  BY DEF Init
<1>4. Buffer
  BY DEF Init, Buffer
<1> QED BY <1>1, <1>2, <1>3, <1>4 DEF Init, Inv, TypeOK

\* Type correctness: in particular nothing is read before it has arrived.
THEOREM TypeCorrect == Spec => []TypeOK
<1>1. Init => Inv
  BY InvInit
<1> QED BY <1>1, InvStep, PTL DEF Spec, Inv

\* The loop of ReadWholePacket grows its buffer in time, whatever sizes read()
\* returns: read() is never called with room for less than a chunk, which would
\* make a chunk in the middle of a packet look like its last one.
THEOREM RoomForAChunk == Spec => []ReadRoom
<1>1. Init => Inv
  BY InvInit
<1>2. Inv => ReadRoom
  <2> SUFFICES ASSUME Inv, reading = "read"
               PROVE  Room >= K /\ size + Room <= NewCapacity
    BY DEF ReadRoom
  <2> QED BY RoomFacts DEF Inv, TypeOK
<1> QED BY <1>1, <1>2, InvStep, PTL DEF Spec
-----------------------------------------------------------------------------
(* Packets below three chunks on a network that does not split writes. *)

\* TCP delivers what one write wrote at once, and packets are small.
Framed == ~Segmented /\ K > 1 /\ \A n \in Sizes : n < 3 * K

\* Where the packet of this round begins, in every stream in use.
Base == IF Len(got) = 0 THEN 0 ELSE got[Len(got)]

\* A position after some full chunks of a packet that begins at b.
Mark(b, p) == p = b \/ p = b + K \/ p = b + 2 * K

\* A stream holds no more than the packet of this round, and what is available
\* to read ends with a chunk.
Track(s) ==
  /\ Base <= consumed[s] /\ written[s] < Base + 3 * K
  /\ Mark(Base, arrived[s]) \/ arrived[s] = written[s]
  /\ \A b \in breaks[s] : /\ b <= written[s]
                          /\ b <= Base \/ Mark(Base, b) \/ b = written[s]

\* SendPacket: the packet of this round is to come, is being written or is whole.
Sending ==
  /\ Len(ends) = IF sending THEN served - 1 ELSE served
  /\ Len(ends) = Len(got) \/ Len(ends) = Len(got) + 1
  /\ sending => Len(ends) = Len(got) /\ written[1] + left < Base + 3 * K
  /\ Len(ends) = Len(got) => Mark(Base, written[1])
  /\ Len(ends) = Len(got) /\ ~sending => written[1] = Base
  /\ Len(ends) = Len(got) + 1 =>
       ~Mark(Base, written[1]) /\ ends[Len(ends)] = written[1]

\* ForwardPacket: the same of what the proxy has passed on.
Passing ==
  /\ relayed <= asked
  /\ Len(cut) = IF forwarding = "idle" THEN relayed ELSE relayed - 1
  /\ Len(cut) = Len(got) \/ Len(cut) = Len(got) + 1
  /\ forwarding # "idle" => Len(cut) = Len(got)
  /\ Len(cut) = Len(got) => Mark(Base, written[2])
  /\ Len(cut) = Len(got) /\ forwarding # "write" =>
       Mark(Base, consumed[1]) /\ written[2] = consumed[1]
  /\ Len(cut) = Len(got) /\ forwarding = "idle" => consumed[1] = Base
  /\ forwarding = "write" =>
       /\ consumed[1] = written[2] + chunk
       /\ \/ chunk = K /\ Mark(Base, consumed[1])
          \/ 0 < chunk /\ chunk < K /\ consumed[1] = written[1] /\ Len(ends) = Len(got) + 1
  /\ Len(cut) = Len(got) + 1 =>
       /\ Len(ends) = Len(got) + 1
       /\ written[2] = consumed[1] /\ consumed[1] = written[1]
       /\ ~Mark(Base, written[2])

Forwarding == IF forwarded THEN Passing ELSE forwarding = "idle"

\* ReadWholePacket: whole chunks have been read, and there is room for one more.
Reading ==
  /\ asked = IF reading = "idle" THEN Len(got) ELSE Len(got) + 1
  /\ reading = "idle" => consumed[Last] = Base
  /\ reading = "read" => /\ Mark(Base, consumed[Last])
                         /\ size = consumed[Last] - Base
                         /\ buf_len = IF size = 0 THEN K ELSE 0

FrameInv ==
  /\ Inv /\ Track(1) /\ (forwarded => Track(2))
  /\ Sending /\ Forwarding /\ Reading
  /\ WholePackets /\ WholeForwards

\* Full chunks fit into a packet at most twice, and a read() that is given room
\* for one returns a full one or all the rest.
LEMMA NextChunk ==
  ASSUME K > 1, NEW b \in Nat, NEW con \in Nat, NEW arr \in Nat, NEW wri \in Nat,
         NEW limit \in Nat, NEW rc \in Nat,
         b <= con, con <= arr, arr <= wri, wri < b + 3 * K,
         Mark(b, con), Mark(b, arr) \/ arr = wri,
         limit = K \/ (limit = 2 * K /\ con = b + 2 * K),
         rc = Min(limit, arr - con), rc > 0
  PROVE  \/ rc = K /\ Mark(b, con + rc)
         \/ rc < K /\ con + rc = wri /\ ~Mark(b, wri)
BY KAssumption DEF Mark, Min

\* The positions of a stream, and where the packet of the round begins.
LEMMA FrameFacts ==
  ASSUME TypeOK
  PROVE  /\ Base \in Nat /\ Len(got) \in Nat /\ Len(ends) \in Nat /\ Len(cut) \in Nat
         /\ \A s \in Streams : /\ written[s] \in Nat /\ arrived[s] \in Nat
                               /\ consumed[s] \in Nat /\ breaks[s] \subseteq Nat
                               /\ consumed[s] <= arrived[s] /\ arrived[s] <= written[s]
         /\ K \in Nat /\ left \in Nat /\ chunk \in Nat /\ size \in Nat /\ buf_len \in Nat
         /\ served \in Nat /\ relayed \in Nat /\ asked \in Nat
<1>1. got \in Seq(Nat) /\ ends \in Seq(Nat) /\ cut \in Seq(Nat)
  BY DEF TypeOK
<1>2. Len(got) \in Nat /\ Len(ends) \in Nat /\ Len(cut) \in Nat
  BY <1>1
<1>3. Base \in Nat
  <2>1. CASE Len(got) = 0
    BY <2>1 DEF Base
  <2>2. CASE Len(got) # 0
    <3>1. Len(got) \in 1..Len(got)
      BY <1>2, <2>2
    <3>2. got[Len(got)] \in Nat
      BY <1>1, <3>1
    <3> QED BY <2>2, <3>2 DEF Base
  <2> QED BY <2>1, <2>2
<1> QED BY <1>2, <1>3, KAssumption DEF TypeOK

\* A write extends a stream that holds full chunks only.
LEMMA WriteTrack ==
  ASSUME TypeOK, NEW s \in Streams, NEW n \in Nat, Track(s), Write(s, n),
         Mark(Base, written[s]), written[s] + n < Base + 3 * K, UNCHANGED got
  PROVE  /\ Track(s)' /\ written'[s] = written[s] + n
         /\ \A t \in Streams : t # s => (Track(t) => Track(t)') /\ written'[t] = written[t]
         /\ consumed' = consumed /\ arrived' = arrived /\ Base' = Base
<1>1. /\ written' = [written EXCEPT ![s] = @ + n]
      /\ breaks' = [breaks EXCEPT ![s] = @ \cup {written[s] + n}]
      /\ arrived' = arrived /\ consumed' = consumed
  BY DEF Write
<1>2. Base' = Base
  BY DEF Base
<1>3. written'[s] = written[s] + n /\ breaks'[s] = breaks[s] \cup {written[s] + n}
  BY <1>1 DEF TypeOK
<1>4. \A t \in Streams : t # s => written'[t] = written[t] /\ breaks'[t] = breaks[t]
  BY <1>1 DEF TypeOK
<1>5. PICK b \in Nat : b = Base
  BY FrameFacts
<1>6. /\ written[s] \in Nat /\ arrived[s] \in Nat /\ breaks[s] \subseteq Nat
      /\ arrived[s] <= written[s]
  BY FrameFacts
<1>7. Track(s)'
  <2>1. Mark(b, arrived'[s])
    BY <1>1, <1>5 DEF Track
  <2>2. \A p \in breaks'[s] : p <= written'[s] /\ (p <= b \/ Mark(b, p) \/ p = written'[s])
    BY <1>3, <1>5, <1>6 DEF Track
  <2>3. b <= consumed'[s] /\ written'[s] < b + 3 * K
    BY <1>1, <1>3, <1>5 DEF Track
  <2>4. b = Base'
    BY <1>2, <1>5
  <2> QED BY <2>1, <2>2, <2>3, <2>4 DEF Track, Mark
<1>8. \A t \in Streams : t # s => (Track(t) => Track(t)')
  BY <1>1, <1>2, <1>4 DEF Track, Mark
<1> QED BY <1>1, <1>2, <1>3, <1>4, <1>7, <1>8

\* Nothing but the histories and the streams matters to a stream.
LEMMA TrackKeeps ==
  ASSUME NEW s \in Streams, Track(s), UNCHANGED <<got, written, arrived, breaks>>,
         consumed'[s] = consumed[s] \/ (consumed[s] <= consumed'[s] /\ Base <= consumed'[s])
  PROVE  Track(s)'
<1>1. Base' = Base
  BY DEF Base
<1> QED BY <1>1 DEF Track, Mark

\* Positions and sizes.
LEMMA Sums ==
  /\ \A a, b, d \in Nat : b <= a => a <= a + d /\ b <= a + d
  /\ \A a, b, d, e \in Nat : a = b - d => b = d + a /\ a + e = (b + e) - d
  /\ \A a, b \in Nat : a <= b /\ b <= a => a = b
  /\ \A a, x, y \in Nat : x < y => a + x < a + y
  /\ \A a, x \in Nat : 0 < x => a < a + x
OBVIOUS

\* The chunks of a packet, counted from where it begins.
LEMMA MarkSizes ==
  /\ \A a, b, m \in Nat :
       a = m - b /\ a # 0 /\ Mark(b, m) => a = K \/ a = 2 * K
  /\ \A b, m \in Nat : m = b + 2 * K => ~Mark(b, m + K)
<1>1. K \in Nat /\ K > 0
  BY KAssumption
<1> QED BY <1>1 DEF Mark

\* From one full chunk to the next, and into one.
LEMMA MarkFacts ==
  ASSUME NEW b \in Nat, NEW p \in Nat, NEW n \in Nat, Mark(b, p)
  PROVE  /\ p + K < b + 3 * K => Mark(b, p + K)
         /\ 0 < n /\ n < K => ~Mark(b, p + n) /\ p + n < b + 3 * K
BY KAssumption DEF Mark

\* The server begins the packet of this round.
LEMMA StartKeeps ==
  ASSUME Framed, FrameInv, Inv', StartSend
  PROVE  FrameInv'
<1> USE DEF FrameInv, Inv
<1>0. /\ Base \in Nat /\ Len(got) \in Nat /\ Len(ends) \in Nat /\ Len(cut) \in Nat
      /\ written[1] \in Nat /\ consumed[1] \in Nat /\ written[2] \in Nat /\ K \in Nat
      /\ left \in Nat /\ chunk \in Nat /\ size \in Nat /\ buf_len \in Nat
      /\ served \in Nat /\ relayed \in Nat /\ asked \in Nat
      /\ 1 \in Streams /\ 2 \in Streams
  BY StreamFacts, FrameFacts
<1> USE <1>0
<1>1. /\ UNCHANGED <<alive, ends, proxy, reader, streams>>
      /\ ~sending /\ sending' = TRUE /\ served' = served + 1
      /\ served < (IF forwarded THEN relayed ELSE asked)
  BY DEF StartSend
<1>2. left' \in Nat /\ left' < 3 * K
  <2>1. left' \in Sizes
    BY DEF StartSend
  <2> QED BY <2>1, SizesAssumption DEF Framed
<1>3. Base' = Base /\ Last' = Last
  BY <1>1 DEF Base, Last
<1>4. Len(ends) = Len(got) /\ written[1] = Base
  <2>1. Len(ends) = served /\ served < asked
    BY <1>1 DEF Sending, Forwarding, Passing
  <2> QED BY <1>1, <2>1 DEF Sending, Reading
<1>5. Sending'
  <2>1. written[1] + left' < Base + 3 * K
    <3>1. 3 * K \in Nat
      OBVIOUS
    <3> QED BY <1>2, <1>4, <3>1, Sums
  <2>2. Len(ends) = served' - 1
    BY <1>1 DEF Sending
  <2>3. Mark(Base, written[1])
    BY <1>4 DEF Mark
  <2> QED BY <1>1, <1>3, <1>4, <2>1, <2>2, <2>3 DEF Sending, Mark
<1>6. Track(1)' /\ (forwarded => Track(2)')
  BY <1>1, TrackKeeps
<1>7. Forwarding' /\ Reading' /\ WholePackets' /\ WholeForwards'
  BY <1>1, <1>3 DEF Forwarding, Passing, Mark, Reading, WholePackets, WholeForwards
<1> QED BY <1>1, <1>5, <1>6, <1>7

\* The server writes a full chunk.
LEMMA FullKeeps ==
  ASSUME Framed, FrameInv, Inv', WriteFull
  PROVE  FrameInv'
<1> USE DEF FrameInv, Inv
<1>0. /\ Base \in Nat /\ Len(got) \in Nat /\ Len(ends) \in Nat /\ Len(cut) \in Nat
      /\ written[1] \in Nat /\ consumed[1] \in Nat /\ written[2] \in Nat /\ K \in Nat
      /\ left \in Nat /\ chunk \in Nat /\ size \in Nat /\ buf_len \in Nat
      /\ served \in Nat /\ relayed \in Nat /\ asked \in Nat
      /\ 1 \in Streams /\ 2 \in Streams
  BY StreamFacts, FrameFacts
<1> USE <1>0
<1>1. /\ UNCHANGED <<served, sending, alive, ends, proxy, reader>>
      /\ sending /\ left >= K /\ left' = left - K /\ Write(1, K)
  BY DEF WriteFull
<1>2. /\ Len(ends) = Len(got) /\ Mark(Base, written[1])
      /\ written[1] + left < Base + 3 * K
  BY <1>1 DEF Sending
<1>3. written[1] + K < Base + 3 * K
  BY <1>1, <1>2
<1>4. /\ Track(1)' /\ written'[1] = written[1] + K /\ Base' = Base
      /\ (Track(2) => Track(2)') /\ written'[2] = written[2]
      /\ consumed' = consumed /\ arrived' = arrived
  BY <1>1, <1>2, <1>3, WriteTrack DEF Streams
<1>5. Last' = Last
  BY <1>1 DEF Last
<1>6. Sending'
  <2>1. Mark(Base, written'[1]) /\ written'[1] + left' < Base + 3 * K
    <3>1. Mark(Base, written'[1])
      BY <1>2, <1>3, <1>4, MarkFacts
    <3>2. written'[1] + left' = written[1] + left
      BY ONLY <1>0, <1>1, <1>4
    <3> QED BY <1>2, <3>1, <3>2
  <2> QED BY <1>1, <1>2, <1>4, <2>1 DEF Sending, Mark
<1>7. Forwarding'
  BY <1>1, <1>2, <1>4 DEF Forwarding, Passing, Mark
<1>8. Reading' /\ WholePackets' /\ WholeForwards'
  BY <1>1, <1>4, <1>5 DEF Mark, Reading, WholePackets, WholeForwards
<1> QED BY <1>1, <1>4, <1>6, <1>7, <1>8

\* The server writes what is left, or the byte behind full chunks: the packet is
\* whole and ends within a chunk.
LEMMA RestKeeps ==
  ASSUME Framed, FrameInv, Inv', WriteRest \/ WriteTerminator
  PROVE  FrameInv'
<1> USE DEF FrameInv, Inv
<1>0. /\ Base \in Nat /\ Len(got) \in Nat /\ Len(ends) \in Nat /\ Len(cut) \in Nat
      /\ written[1] \in Nat /\ consumed[1] \in Nat /\ written[2] \in Nat /\ K \in Nat
      /\ left \in Nat /\ chunk \in Nat /\ size \in Nat /\ buf_len \in Nat
      /\ served \in Nat /\ relayed \in Nat /\ asked \in Nat
      /\ 1 \in Streams /\ 2 \in Streams
  BY StreamFacts, FrameFacts
<1> USE <1>0
<1>1. PICK n \in Nat :
        /\ 0 < n /\ n < K /\ n <= left + 1 /\ Write(1, n)
        /\ n = left \/ left = 0
  BY DEF WriteRest, WriteTerminator, Terminator, Framed
<1>2. /\ UNCHANGED <<served, alive, proxy, reader>> /\ sending
      /\ sending' = FALSE /\ ends' = Append(ends, written'[1])
  BY DEF WriteRest, WriteTerminator, Sent
<1>3. /\ Len(ends) = Len(got) /\ Mark(Base, written[1])
      /\ written[1] + left < Base + 3 * K
  BY <1>2 DEF Sending
<1>4. written[1] + n < Base + 3 * K
  BY <1>1, <1>3, MarkFacts
<1>5. /\ Track(1)' /\ written'[1] = written[1] + n /\ Base' = Base
      /\ (Track(2) => Track(2)') /\ written'[2] = written[2]
      /\ consumed' = consumed /\ arrived' = arrived
  BY <1>1, <1>2, <1>3, <1>4, WriteTrack DEF Streams
<1>6. Last' = Last
  BY <1>2 DEF Last
<1>7. /\ Len(ends') = Len(ends) + 1 /\ ends'[Len(ends')] = written'[1]
      /\ \A i \in 1..Len(ends) : ends'[i] = ends[i]
  BY <1>2, <1>5 DEF TypeOK
<1>8. Sending'
  <2>1. ~Mark(Base, written'[1])
    BY <1>1, <1>3, <1>5, MarkFacts
  <2>2. Len(ends') = Len(got) + 1 /\ Len(ends') = served
    BY <1>2, <1>3, <1>7 DEF Sending
  <2> QED BY <1>2, <1>5, <1>7, <2>1, <2>2 DEF Sending, Mark
<1>9. Forwarding'
  BY <1>2, <1>3, <1>5, <1>7 DEF Forwarding, Passing, Mark
<1>10. Reading'
  BY <1>2, <1>5, <1>6 DEF Mark, Reading
<1>11. WholePackets'
  BY <1>2, <1>7 DEF WholePackets
<1>12. WholeForwards'
  BY <1>2, <1>7 DEF WholeForwards
<1> QED BY <1>2, <1>5, <1>8, <1>9, <1>10, <1>11, <1>12

\* The server dies, the proxy passes the request on or finds the server gone, or
\* the client does.
LEMMA ControlKeeps ==
  ASSUME Framed, FrameInv, Inv', Die \/ Relay \/ ForwardEof \/ ReadEof \/ UNCHANGED vars
  PROVE  FrameInv'
<1> USE DEF FrameInv, Inv
<1>0. /\ Base \in Nat /\ Len(got) \in Nat /\ Len(ends) \in Nat /\ Len(cut) \in Nat
      /\ written[1] \in Nat /\ consumed[1] \in Nat /\ written[2] \in Nat /\ K \in Nat
      /\ left \in Nat /\ chunk \in Nat /\ size \in Nat /\ buf_len \in Nat
      /\ served \in Nat /\ relayed \in Nat /\ asked \in Nat
      /\ 1 \in Streams /\ 2 \in Streams
  BY StreamFacts, FrameFacts
<1> USE <1>0
<1>1. /\ UNCHANGED <<served, sending, left, ends, forwarded, chunk, cut, asked, got, streams>>
      /\ \/ UNCHANGED <<reading, size, buf_len>>
         \/ reading = "read" /\ reading' = "eof"
      /\ \/ UNCHANGED <<relayed, forwarding>>
         \/ /\ forwarded /\ forwarding = "idle" /\ relayed < asked
            /\ forwarding' = "read" /\ relayed' = relayed + 1
         \/ forwarding = "read" /\ forwarding' = "stopped" /\ relayed' = relayed
  BY DEF Die, Relay, ForwardEof, ReadEof, vars
<1>2. Base' = Base /\ Last' = Last
  BY <1>1 DEF Base, Last
<1>3. Sending'
  BY <1>1, <1>2 DEF Sending, Mark
<1>4. Track(1)' /\ (forwarded => Track(2)')
  BY <1>1, TrackKeeps
<1>5. Reading' /\ WholePackets' /\ WholeForwards'
  BY <1>1, <1>2 DEF Mark, Reading, WholePackets, WholeForwards
<1>6. Forwarding'
  <2>1. CASE UNCHANGED <<relayed, forwarding>>
    BY <1>1, <1>2, <2>1 DEF Forwarding, Passing, Mark
  <2>2. CASE /\ forwarded /\ forwarding = "idle" /\ relayed < asked
             /\ forwarding' = "read" /\ relayed' = relayed + 1
    <3>1. Passing /\ Len(cut) = relayed /\ asked <= Len(got) + 1
      BY <2>2 DEF Forwarding, Passing, Reading
    <3>2. Len(cut) = Len(got)
      BY <2>2, <3>1 DEF Passing
    <3>3. relayed' <= asked /\ Len(cut) = relayed' - 1
      BY <2>2, <3>1
    <3> QED BY <1>1, <1>2, <2>2, <3>1, <3>2, <3>3 DEF Forwarding, Passing, Mark
  <2>3. CASE forwarding = "read" /\ forwarding' = "stopped" /\ relayed' = relayed
    BY <1>1, <1>2, <2>3 DEF Forwarding, Passing, Mark
  <2> QED BY <1>1, <2>1, <2>2, <2>3
<1> QED BY <1>1, <1>3, <1>4, <1>5, <1>6

\* The same of a stream.
LEMMA ChunkRead ==
  ASSUME TypeOK, K > 1, NEW s \in Streams, Track(s), Mark(Base, consumed[s]),
         NEW limit \in Nat, limit = K \/ (limit = 2 * K /\ consumed[s] = Base + 2 * K),
         NEW rc \in Nat, rc = Readable(s, limit), rc > 0
  PROVE  \/ rc = K /\ Mark(Base, consumed[s] + rc)
         \/ rc < K /\ consumed[s] + rc = written[s] /\ ~Mark(Base, written[s])
<1>1. PICK b \in Nat, con \in Nat, arr \in Nat, wri \in Nat :
        b = Base /\ con = consumed[s] /\ arr = arrived[s] /\ wri = written[s]
  BY FrameFacts
<1>2. con <= arr /\ arr <= wri
  BY <1>1, FrameFacts
<1>3. /\ b <= con /\ wri < b + 3 * K
      /\ Mark(b, con) /\ (Mark(b, arr) \/ arr = wri) /\ rc = Min(limit, arr - con)
      /\ limit = K \/ (limit = 2 * K /\ con = b + 2 * K)
  BY <1>1 DEF Track, Readable
<1>4. \/ rc = K /\ Mark(b, con + rc)
      \/ rc < K /\ con + rc = wri /\ ~Mark(b, wri)
  BY <1>2, <1>3, NextChunk
<1> QED BY <1>1, <1>4

\* The proxy reads a full chunk or all the rest of the packet.
LEMMA ForwardReadKeeps ==
  ASSUME Framed, FrameInv, Inv', ForwardRead
  PROVE  FrameInv'
<1> USE DEF FrameInv, Inv
<1>0. /\ Base \in Nat /\ Len(got) \in Nat /\ Len(ends) \in Nat /\ Len(cut) \in Nat
      /\ written[1] \in Nat /\ arrived[1] \in Nat /\ consumed[1] \in Nat
      /\ written[2] \in Nat /\ arrived[2] \in Nat /\ consumed[2] \in Nat
      /\ consumed[1] <= arrived[1] /\ arrived[1] <= written[1]
      /\ consumed[2] <= arrived[2] /\ arrived[2] <= written[2]
      /\ left \in Nat /\ chunk \in Nat /\ size \in Nat /\ buf_len \in Nat
      /\ served \in Nat /\ relayed \in Nat /\ asked \in Nat /\ K \in Nat
      /\ 1 \in Streams /\ 2 \in Streams
  BY StreamFacts, FrameFacts
<1> USE <1>0
<1>1. /\ UNCHANGED <<forwarded, relayed, cut, server, reader, written, arrived, breaks>>
      /\ forwarding = "read" /\ forwarding' = "write"
      /\ chunk' = Min(K, arrived[1] - consumed[1]) /\ chunk' > 0
      /\ consumed' = [consumed EXCEPT ![1] = @ + chunk']
  BY DEF ForwardRead, Readable, Read
<1>2. consumed'[1] = consumed[1] + chunk' /\ consumed'[2] = consumed[2] /\ chunk' \in Nat
  BY <1>1 DEF TypeOK
<1>3. forwarded /\ Passing /\ Len(cut) = Len(got) /\ Mark(Base, consumed[1])
  BY <1>1 DEF Forwarding, Passing
<1>4. Base' = Base /\ Last' = Last /\ Last = 2
  BY <1>1, <1>3 DEF Base, Last
<1>5. \/ chunk' = K /\ Mark(Base, consumed'[1])
      \/ chunk' < K /\ consumed'[1] = written[1] /\ ~Mark(Base, written[1])
  <2>1. PICK rc \in Nat : rc = chunk'
    BY <1>2
  <2>2. rc = Readable(1, K) /\ rc > 0 /\ K > 1
    BY <1>1, <2>1 DEF Readable, Framed
  <2>3. \/ rc = K /\ Mark(Base, consumed[1] + rc)
        \/ rc < K /\ consumed[1] + rc = written[1] /\ ~Mark(Base, written[1])
    BY <1>3, <2>2, ChunkRead
  <2> QED BY <1>2, <2>1, <2>3
<1>6. Passing'
  <2>1. written[2] = consumed[1] /\ Mark(Base, written[2])
    BY <1>1, <1>3 DEF Passing
  <2>2. consumed'[1] = written[2] + chunk'
    BY <1>2, <2>1
  <2>3. ~Mark(Base, written[1]) => Len(ends) = Len(got) + 1
    BY DEF Sending
  <2>4. relayed <= asked /\ Len(cut) = relayed - 1
    BY <1>1, <1>3 DEF Passing
  <2> QED BY <1>1, <1>3, <1>4, <1>5, <2>1, <2>2, <2>3, <2>4 DEF Passing, Mark
<1>7. Track(1)' /\ Track(2)'
  <2>1. consumed[1] <= consumed'[1] /\ Base <= consumed'[1]
    <3>1. Base <= consumed[1]
      BY DEF Track
    <3> QED BY <1>2, <3>1, Sums
  <2> QED BY <1>1, <1>2, <1>3, <2>1, TrackKeeps
<1>8. Sending' /\ Reading' /\ WholePackets' /\ WholeForwards'
  BY <1>1, <1>2, <1>4 DEF Sending, Mark, Reading, WholePackets, WholeForwards
<1> QED BY <1>1, <1>3, <1>6, <1>7, <1>8 DEF Forwarding

\* The proxy writes what it has read; after a short chunk its round is over, and
\* the packet has been read to its end.
LEMMA ForwardWriteKeeps ==
  ASSUME Framed, FrameInv, Inv', ForwardWrite
  PROVE  FrameInv'
<1> USE DEF FrameInv, Inv
<1>0. /\ Base \in Nat /\ Len(got) \in Nat /\ Len(ends) \in Nat /\ Len(cut) \in Nat
      /\ written[1] \in Nat /\ arrived[1] \in Nat /\ consumed[1] \in Nat
      /\ written[2] \in Nat /\ arrived[2] \in Nat /\ consumed[2] \in Nat
      /\ consumed[1] <= arrived[1] /\ arrived[1] <= written[1]
      /\ consumed[2] <= arrived[2] /\ arrived[2] <= written[2]
      /\ left \in Nat /\ chunk \in Nat /\ size \in Nat /\ buf_len \in Nat
      /\ served \in Nat /\ relayed \in Nat /\ asked \in Nat /\ K \in Nat
      /\ 1 \in Streams /\ 2 \in Streams
  BY StreamFacts, FrameFacts
<1> USE <1>0
<1>1. /\ UNCHANGED <<forwarded, relayed, chunk, server, reader>>
      /\ forwarding = "write" /\ Write(2, chunk)
      /\ \/ chunk < K /\ forwarding' = "idle" /\ cut' = Append(cut, consumed[1])
         \/ ~(chunk < K) /\ forwarding' = "read" /\ cut' = cut
  BY DEF ForwardWrite, Short
<1>2. /\ forwarded /\ Passing /\ Len(cut) = Len(got) /\ Mark(Base, written[2])
      /\ consumed[1] = written[2] + chunk
  BY <1>1 DEF Forwarding, Passing
<1>3. consumed[1] < Base + 3 * K
  BY DEF Track
<1>4. /\ Track(2)' /\ Track(1)' /\ written'[2] = consumed[1] /\ Base' = Base
      /\ written'[1] = written[1] /\ consumed' = consumed /\ arrived' = arrived
  BY <1>1, <1>2, <1>3, WriteTrack DEF Streams
<1>5. Last' = Last
  BY <1>1 DEF Last
<1>6. Sending' /\ Reading' /\ WholePackets'
  BY <1>1, <1>4, <1>5 DEF Sending, Mark, Reading, WholePackets
<1>7. CASE chunk < K /\ forwarding' = "idle" /\ cut' = Append(cut, consumed[1])
  <2>1. consumed[1] = written[1] /\ Len(ends) = Len(got) + 1
    BY <1>1, <1>2, <1>7 DEF Passing
  <2>2. ~Mark(Base, written[1]) /\ ends[Len(ends)] = written[1]
    BY <2>1 DEF Sending
  <2>3. /\ Len(cut') = Len(cut) + 1 /\ cut'[Len(cut')] = consumed[1]
        /\ \A i \in 1..Len(cut) : cut'[i] = cut[i]
    BY <1>7 DEF TypeOK
  <2>4. relayed <= asked /\ Len(cut') = relayed
    BY <1>1, <1>2, <2>3 DEF Passing
  <2>5. Passing'
    BY <1>1, <1>2, <1>4, <1>7, <2>1, <2>2, <2>3, <2>4 DEF Passing, Mark
  <2>6. WholeForwards'
    <3> SUFFICES ASSUME NEW n \in 1..Len(cut')
                 PROVE  n <= Len(ends) /\ cut'[n] = ends[n]
      BY <1>1 DEF WholeForwards
    <3>1. CASE n \in 1..Len(cut)
      BY <2>3, <3>1 DEF WholeForwards
    <3>2. CASE n = Len(cut')
      BY <1>2, <2>1, <2>2, <2>3, <3>2
    <3> QED BY <2>3, <3>1, <3>2
  <2> QED BY <1>1, <1>2, <1>4, <1>6, <2>5, <2>6 DEF Forwarding
<1>8. CASE ~(chunk < K) /\ forwarding' = "read" /\ cut' = cut
  <2>1. chunk = K /\ Mark(Base, consumed[1])
    BY <1>1, <1>2, <1>8 DEF Passing
  <2>2. relayed <= asked /\ Len(cut) = relayed - 1
    BY <1>1, <1>2 DEF Passing
  <2>3. Passing'
    BY <1>1, <1>2, <1>4, <1>8, <2>1, <2>2 DEF Passing, Mark
  <2>4. WholeForwards'
    BY <1>1, <1>8 DEF WholeForwards
  <2> QED BY <1>1, <1>2, <1>4, <1>6, <2>3, <2>4 DEF Forwarding
<1> QED BY <1>1, <1>7, <1>8

\* The client asks for the next packet.
LEMMA AskKeeps ==
  ASSUME Framed, FrameInv, Inv', Ask
  PROVE  FrameInv'
<1> USE DEF FrameInv, Inv
<1>0. /\ Base \in Nat /\ Len(got) \in Nat /\ Len(ends) \in Nat /\ Len(cut) \in Nat
      /\ written[1] \in Nat /\ arrived[1] \in Nat /\ consumed[1] \in Nat
      /\ written[2] \in Nat /\ arrived[2] \in Nat /\ consumed[2] \in Nat
      /\ consumed[1] <= arrived[1] /\ arrived[1] <= written[1]
      /\ consumed[2] <= arrived[2] /\ arrived[2] <= written[2]
      /\ left \in Nat /\ chunk \in Nat /\ size \in Nat /\ buf_len \in Nat
      /\ served \in Nat /\ relayed \in Nat /\ asked \in Nat /\ K \in Nat
      /\ 1 \in Streams /\ 2 \in Streams
  BY StreamFacts, FrameFacts
<1> USE <1>0
<1>1. /\ UNCHANGED <<got, server, proxy, streams>>
      /\ reading = "idle" /\ reading' = "read" /\ asked' = asked + 1
      /\ size' = 0 /\ buf_len' = K
  BY DEF Ask
<1>2. Base' = Base /\ Last' = Last
  BY <1>1 DEF Base, Last
<1>3. Sending' /\ WholePackets' /\ WholeForwards'
  BY <1>1, <1>2 DEF Sending, Mark, WholePackets, WholeForwards
<1>4. Track(1)' /\ (forwarded => Track(2)')
  BY <1>1, TrackKeeps
<1>5. Reading'
  BY <1>1, <1>2 DEF Reading, Mark
<1>6. Forwarding'
  <2>1. relayed <= asked => relayed <= asked'
    BY <1>1
  <2> QED BY <1>1, <1>2, <2>1 DEF Forwarding, Passing, Mark
<1> QED BY <1>1, <1>3, <1>4, <1>5, <1>6

\* What was written by some of the writes becomes available.
LEMMA ArriveKeeps ==
  ASSUME Framed, FrameInv, Inv', NEW s \in Streams, Arrive(s)
  PROVE  FrameInv'
<1> USE DEF FrameInv, Inv
<1>0. /\ Base \in Nat /\ Len(got) \in Nat /\ Len(ends) \in Nat /\ Len(cut) \in Nat
      /\ written[1] \in Nat /\ arrived[1] \in Nat /\ consumed[1] \in Nat
      /\ written[2] \in Nat /\ arrived[2] \in Nat /\ consumed[2] \in Nat
      /\ consumed[1] <= arrived[1] /\ arrived[1] <= written[1]
      /\ consumed[2] <= arrived[2] /\ arrived[2] <= written[2]
      /\ left \in Nat /\ chunk \in Nat /\ size \in Nat /\ buf_len \in Nat
      /\ served \in Nat /\ relayed \in Nat /\ asked \in Nat /\ K \in Nat
      /\ 1 \in Streams /\ 2 \in Streams
  BY StreamFacts, FrameFacts
<1> USE <1>0
<1>1. /\ UNCHANGED <<server, proxy, reader, written, consumed, breaks>>
      /\ \E n \in (arrived[s] + 1)..written[s] :
           n \in breaks[s] /\ arrived' = [arrived EXCEPT ![s] = n]
  BY DEF Arrive, Framed
<1>2. Base' = Base /\ Last' = Last
  BY <1>1 DEF Base, Last
<1>3. PICK n \in (arrived[s] + 1)..written[s] :
        n \in breaks[s] /\ arrived' = [arrived EXCEPT ![s] = n]
  BY <1>1
<1>4. ASSUME NEW t \in Streams, Track(t)
      PROVE  Track(t)'
  <2>1. CASE t # s
    <3>1. arrived'[t] = arrived[t]
      BY <1>3, <2>1 DEF TypeOK
    <3> QED BY <1>1, <1>2, <1>4, <3>1 DEF Track, Mark
  <2>2. CASE t = s
    <3>1. arrived'[s] = n
      BY <1>3 DEF TypeOK
    <3>2. n > Base
      <4>1. Base <= consumed[s] /\ consumed[s] <= arrived[s]
            /\ consumed[s] \in Nat /\ arrived[s] \in Nat /\ written[s] \in Nat
        BY <1>4, <2>2, FrameFacts DEF Track
      <4> QED BY <1>0, <1>3, <4>1
    <3>3. n \in Nat
      BY <1>3, FrameFacts
    <3>4. Mark(Base, n) \/ n = written[s]
      BY <1>3, <1>4, <2>2, <3>2, <3>3 DEF Track
    <3> QED BY <1>1, <1>2, <1>4, <2>2, <3>1, <3>4 DEF Track, Mark
  <2> QED BY <2>1, <2>2
<1>5. Sending' /\ Forwarding' /\ Reading' /\ WholePackets' /\ WholeForwards'
  BY <1>1, <1>2 DEF Sending, Forwarding, Passing, Reading, Mark, WholePackets, WholeForwards
<1> QED BY <1>1, <1>4, <1>5

\* The client reads a full chunk and goes on, or all the rest of the packet: then
\* its round is over, and so are those of the server and of the proxy.
LEMMA ReadChunkKeeps ==
  ASSUME Framed, FrameInv, Inv', ReadChunk
  PROVE  FrameInv'
<1> USE DEF FrameInv, Inv
<1>0. /\ Base \in Nat /\ Len(got) \in Nat /\ Len(ends) \in Nat /\ Len(cut) \in Nat
      /\ written[1] \in Nat /\ arrived[1] \in Nat /\ consumed[1] \in Nat
      /\ written[2] \in Nat /\ arrived[2] \in Nat /\ consumed[2] \in Nat
      /\ consumed[1] <= arrived[1] /\ arrived[1] <= written[1]
      /\ consumed[2] <= arrived[2] /\ arrived[2] <= written[2]
      /\ left \in Nat /\ chunk \in Nat /\ size \in Nat /\ buf_len \in Nat
      /\ served \in Nat /\ relayed \in Nat /\ asked \in Nat /\ K \in Nat
      /\ 1 \in Streams /\ 2 \in Streams
  BY StreamFacts, FrameFacts
<1> USE <1>0
<1>1. reading = "read" /\ Last \in Streams
  BY StreamFacts DEF ReadChunk
<1>2. /\ Room \in Nat /\ Room >= K
      /\ Room = K \/ (Room = 2 * K /\ consumed[Last] = Base + 2 * K)
      /\ size = 0 \/ Room = K \/ size = 2 * K
  <2>1. Room \in Nat /\ Room >= K /\ size + buf_len = capacity
    BY <1>1, RoomFacts DEF Buffer
  <2>2. consumed[Last] \in Nat
    BY <1>1, FrameFacts
  <2>3. /\ Mark(Base, consumed[Last]) /\ size = consumed[Last] - Base
        /\ buf_len = IF size = 0 THEN K ELSE 0
    BY <1>1 DEF Reading
  <2>4. CASE size = 0
    <3>1. Room = K
      BY <2>3, <2>4 DEF Room
    <3> QED BY <2>1, <2>4, <3>1
  <2>5. CASE size # 0
    <3>1. K > 0 /\ (size = K \/ size = 2 * K)
      <4>1. PICK a, b, m \in Nat : a = size /\ b = Base /\ m = consumed[Last]
        BY <2>2
      <4>2. a = m - b /\ a # 0 /\ Mark(b, m)
        BY <2>3, <2>5, <4>1
      <4>3. a = K \/ a = 2 * K
        BY <4>2, MarkSizes
      <4> QED BY <4>1, <4>3, KAssumption
    <3>2. buf_len = 0 /\ capacity = size
      BY <2>1, <2>3, <2>5
    <3>3. NewCapacity = size * 2
      BY <3>1, <3>2 DEF NewCapacity, Reserve, Max
    <3>4. Room = size
      BY <3>1, <3>2, <3>3 DEF Room
    <3>5. size = 2 * K => consumed[Last] = Base + 2 * K
      <4>1. PICK a, b, m \in Nat : a = size /\ b = Base /\ m = consumed[Last]
        BY <2>2
      <4>2. a = m - b
        BY <2>3, <4>1
      <4>3. m = b + a
        BY <4>2, Sums
      <4> QED BY <4>1, <4>3
    <3> QED BY <2>1, <3>1, <3>4, <3>5
  <2> QED BY <2>4, <2>5
<1>3. PICK rc \in Nat : rc = Readable(Last, Room)
  BY <1>1, <1>2, ReadableFacts
<1>4. /\ UNCHANGED <<asked, server, proxy, written, arrived, breaks>>
      /\ rc > 0 /\ consumed' = [consumed EXCEPT ![Last] = @ + rc]
      /\ size' = size + rc /\ buf_len' = Room - rc
      /\ \/ rc < K /\ reading' = "idle" /\ got' = Append(got, consumed'[Last])
         \/ ~(rc < K) /\ reading' = "read" /\ got' = got
  BY <1>1, <1>3 DEF ReadChunk, Read, Short
<1>5. /\ consumed'[Last] = consumed[Last] + rc
      /\ \A s \in Streams : s # Last => consumed'[s] = consumed[s]
  BY <1>1, <1>4 DEF TypeOK
<1>6. Last' = Last /\ Track(Last)
  BY <1>4 DEF Last
<1>7. \/ rc = K /\ Mark(Base, consumed'[Last])
      \/ rc < K /\ consumed'[Last] = written[Last] /\ ~Mark(Base, written[Last])
  <2>1. Mark(Base, consumed[Last]) /\ K > 1
    BY <1>1 DEF Reading, Framed
  <2>2. PICK s \in Streams, limit \in Nat : s = Last /\ limit = Room
    BY <1>1, <1>2
  <2>3. /\ Track(s) /\ Mark(Base, consumed[s]) /\ rc = Readable(s, limit)
        /\ limit = K \/ (limit = 2 * K /\ consumed[s] = Base + 2 * K)
    BY <1>2, <1>3, <1>6, <2>1, <2>2
  <2>4. \/ rc = K /\ Mark(Base, consumed[s] + rc)
        \/ rc < K /\ consumed[s] + rc = written[s] /\ ~Mark(Base, written[s])
    BY <1>4, <2>1, <2>3, ChunkRead
  <2> QED BY <1>5, <2>2, <2>4
<1>8. CASE rc = K
  <2>1. got' = got /\ reading' = "read" /\ Base' = Base
    BY <1>4, <1>8 DEF Base
  <2>2. Mark(Base, consumed'[Last])
    BY <1>7, <1>8
  <2>3. Reading'
    <3>1. consumed[Last] \in Nat
      BY <1>1, FrameFacts
    <3>2. size' = consumed'[Last] - Base
      <4>1. size = consumed[Last] - Base
        BY <1>1 DEF Reading
      <4>2. PICK a, b, m \in Nat : a = size /\ b = Base /\ m = consumed[Last]
        BY <3>1
      <4>3. a + rc = (m + rc) - b
        BY <4>1, <4>2, Sums
      <4> QED BY <1>4, <1>5, <4>2, <4>3
    <3>3. size' # 0 /\ buf_len' = 0
      <4>1. Room = K
        <5>1. Room = 2 * K => ~Mark(Base, consumed[Last] + K)
          <6>1. PICK b, m \in Nat : b = Base /\ m = consumed[Last]
            BY <3>1
          <6>2. m = b + 2 * K => ~Mark(b, m + K)
            BY MarkSizes
          <6>3. Room = 2 * K => m = b + 2 * K
            BY <1>2, <6>1, KAssumption
          <6> QED BY <6>1, <6>2, <6>3
        <5> QED BY <1>2, <1>5, <1>8, <2>2, <5>1
      <4> QED BY <1>4, <1>8, <4>1, KAssumption
    <3>4. asked = Len(got) + 1
      BY <1>1 DEF Reading
    <3> QED BY <1>4, <1>6, <2>1, <2>2, <3>2, <3>3, <3>4 DEF Reading, Mark
  <2>4. Track(1)' /\ (forwarded => Track(2)')
    <3>1. ASSUME NEW s \in Streams, Track(s)
          PROVE  Track(s)'
      <4>1. consumed[s] \in Nat
        BY FrameFacts
      <4>2. consumed'[s] = consumed[s] \/ (consumed[s] <= consumed'[s] /\ Base <= consumed'[s])
        <5>1. consumed'[s] = consumed[s] \/ consumed'[s] = consumed[s] + rc
          BY <1>5
        <5>2. Base <= consumed[s]
          BY <3>1 DEF Track
        <5> QED BY <4>1, <5>1, <5>2, Sums
      <4> QED BY <1>4, <2>1, <3>1, <4>2, TrackKeeps
    <3> QED BY <3>1
  <2>5. Sending' /\ WholePackets' /\ WholeForwards'
    BY <1>4, <2>1 DEF Sending, Mark, WholePackets, WholeForwards
  <2>6. Forwarding'
    <3>1. forwarded => consumed'[1] = consumed[1]
      BY <1>5 DEF Last
    <3> QED BY <1>4, <2>1, <3>1 DEF Forwarding, Passing, Mark
  <2> QED BY <1>4, <2>3, <2>4, <2>5, <2>6
<1>9. CASE rc < K
  <2>1. /\ got' = Append(got, written[Last]) /\ reading' = "idle"
        /\ consumed'[Last] = written[Last] /\ ~Mark(Base, written[Last])
    BY <1>4, <1>7, <1>9
  <2>2. /\ Len(got') = Len(got) + 1 /\ got'[Len(got')] = written[Last]
        /\ \A i \in 1..Len(got) : got'[i] = got[i]
    <3>1. got \in Seq(Nat) /\ written[Last] \in Nat
      BY <1>1, FrameFacts DEF TypeOK
    <3> QED BY <2>1, <3>1
  <2>3. Base' = written[Last]
    BY <2>2 DEF Base
  <2>4. /\ Len(ends) = Len(got) + 1 /\ written[Last] = written[1]
        /\ consumed'[1] = written[1] /\ consumed'[Last] = written[Last]
        /\ forwarded => Len(cut) = Len(got) + 1 /\ forwarding = "idle"
    <3>1. CASE forwarded
      <4>1. Last = 2 /\ Passing /\ consumed'[1] = consumed[1]
        BY <1>5, <3>1 DEF Last, Forwarding
      <4>2. Len(cut) = Len(got) + 1
        BY <2>1, <4>1 DEF Passing
      <4> QED BY <2>1, <3>1, <4>1, <4>2 DEF Passing
    <3>2. CASE ~forwarded
      <4>1. Last = 1
        BY <3>2 DEF Last
      <4> QED BY <2>1, <3>2, <4>1 DEF Sending
    <3> QED BY <3>1, <3>2
  <2>5. Mark(Base', written[1]) /\ ends[Len(ends)] = written[1] /\ ~sending
    BY <2>3, <2>4 DEF Mark, Sending
  <2>6. Sending'
    BY <1>4, <2>2, <2>3, <2>4, <2>5 DEF Sending, Mark
  <2>7. Reading'
    <3>1. asked = Len(got) + 1
      BY <1>1 DEF Reading
    <3> QED BY <1>4, <1>6, <2>1, <2>2, <2>3, <3>1 DEF Reading
  <2>8. Forwarding'
    <3>1. CASE forwarded
      <4>1. /\ relayed <= asked /\ Len(cut) = relayed /\ written[2] = written[1]
            /\ consumed[1] = written[1] /\ consumed'[1] = written[1]
        BY <2>4, <3>1 DEF Forwarding, Passing
      <4>2. Passing'
        BY <1>4, <2>2, <2>3, <2>4, <2>5, <3>1, <4>1 DEF Passing, Mark
      <4> QED BY <1>4, <3>1, <4>2 DEF Forwarding
    <3>2. CASE ~forwarded
      BY <1>4, <3>2 DEF Forwarding
    <3> QED BY <3>1, <3>2
  <2>9. WholePackets'
    <3> SUFFICES ASSUME NEW n \in 1..Len(got')
                 PROVE  n <= Len(ends) /\ got'[n] = ends[n]
      BY <1>4 DEF WholePackets
    <3>1. CASE n \in 1..Len(got)
      BY <2>2, <3>1 DEF WholePackets
    <3>2. CASE n = Len(got')
      BY <2>2, <2>4, <2>5, <3>2
    <3> QED BY <2>2, <3>1, <3>2
  <2>10. WholeForwards'
    BY <1>4 DEF WholeForwards
  <2>11. ASSUME NEW s \in Streams, Track(s), consumed'[s] = written[s],
                written[s] = written[Last]
         PROVE  Track(s)'
    <3>1. /\ written[s] \in Nat /\ arrived[s] \in Nat /\ breaks[s] \subseteq Nat
          /\ consumed'[s] <= arrived'[s] /\ arrived'[s] <= written'[s]
      BY FrameFacts DEF TypeOK
    <3>2. arrived'[s] = written'[s] /\ written'[s] = written[s] /\ breaks'[s] = breaks[s]
      <4>1. /\ written[s] <= arrived[s] /\ arrived[s] <= written[s]
            /\ arrived'[s] = arrived[s] /\ written'[s] = written[s]
        BY <1>4, <2>11, <3>1
      <4> QED BY <1>4, <3>1, <4>1, Sums
    <3>3. written[s] < written[s] + 3 * K
      <4>1. 3 * K \in Nat /\ 0 < 3 * K
        BY KAssumption
      <4> QED BY <3>1, <4>1, Sums
    <3>4. \A b \in breaks[s] : b <= written[s]
      BY <2>11 DEF Track
    <3> QED BY <2>3, <2>11, <3>1, <3>2, <3>3, <3>4 DEF Track
  <2>12. Track(1)' /\ (forwarded => Track(2)')
    <3>1. Track(1)'
      BY <2>4, <2>11
    <3>2. forwarded => Last = 2
      BY DEF Last
    <3> QED BY <2>4, <2>11, <3>1, <3>2
  <2> QED BY <1>4, <2>6, <2>7, <2>8, <2>9, <2>10, <2>12
<1> QED BY <1>7, <1>8, <1>9

\* No step leaves the invariant.
LEMMA FrameStep ==
  ASSUME Framed, FrameInv, [Next]_vars
  PROVE  FrameInv'
<1>1. Inv'
  BY InvStep DEF FrameInv
<1>2. CASE ServerStep \/ Die \/ ProxyStep \/ Ask \/ ReaderStep \/ UNCHANGED vars
  BY <1>1, <1>2, StartKeeps, FullKeeps, RestKeeps, ControlKeeps, ForwardReadKeeps,
     ForwardWriteKeeps, AskKeeps, ReadChunkKeeps
  DEF ServerStep, ProxyStep, ReaderStep
<1>3. CASE \E s \in Streams : Arrive(s)
  BY <1>1, <1>3, ArriveKeeps
<1> QED BY <1>2, <1>3 DEF Next

\* At first nothing has been sent.
LEMMA FrameInit == Init => FrameInv
<1> SUFFICES ASSUME Init
             PROVE  FrameInv
  OBVIOUS
<1>1. Inv
  BY InvInit
<1>2. Base = 0 /\ Last \in Streams /\ K \in Nat /\ K > 0
  BY StreamFacts, KAssumption DEF Init, Base
<1>3. \A s \in Streams : consumed[s] = 0 /\ written[s] = 0 /\ arrived[s] = 0 /\ breaks[s] = {}
  BY DEF Init
<1>4. Track(1) /\ Track(2)
  BY <1>2, <1>3, StreamFacts DEF Track, Mark
<1>5. Sending /\ Forwarding /\ Reading
  BY <1>2, <1>3, StreamFacts DEF Init, Sending, Forwarding, Passing, Reading, Mark
<1>6. WholePackets /\ WholeForwards
  BY DEF Init, WholePackets, WholeForwards
<1> QED BY <1>1, <1>4, <1>5, <1>6 DEF FrameInv

\* While TCP delivers every write at once or joined with others, and packets are
\* shorter than three chunks, ReadWholePacket returns exactly the packets that
\* were sent, with a proxy in between or without.
THEOREM PacketsWhole == Framed => (Spec => []WholePackets)
<1> SUFFICES ASSUME Framed
             PROVE  Spec => []WholePackets
  OBVIOUS
<1>1. FrameInv /\ [Next]_vars => FrameInv'
  BY FrameStep
<1>2. FrameInv => WholePackets
  BY DEF FrameInv
<1> QED BY <1>1, <1>2, FrameInit, PTL DEF Spec

\* And ForwardPacket stops reading exactly where a response ends, so that nothing
\* of it is left for the next request.
THEOREM ForwardsWhole == Framed => (Spec => []WholeForwards)
<1> SUFFICES ASSUME Framed
             PROVE  Spec => []WholeForwards
  OBVIOUS
<1>1. FrameInv /\ [Next]_vars => FrameInv'
  BY FrameStep
<1>2. FrameInv => WholeForwards
  BY DEF FrameInv
<1> QED BY <1>1, <1>2, FrameInit, PTL DEF Spec
=============================================================================
