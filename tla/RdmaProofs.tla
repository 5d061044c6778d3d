----------------------------- MODULE RdmaProofs -----------------------------
(***************************************************************************)
(* Proofs about Rdma, for every set of clients, whatever the handlers      *)
(* return, with and without the repair of BuildContext, and for every      *)
(* length of the receive queues.                                           *)
(***************************************************************************)
EXTENDS Rdma, TLAPS

\* The groups of variables in the UNCHANGED conjuncts are always expanded.
USE DEF cm, queues, buffers, mrs

-----------------------------------------------------------------------------
(* The inductive invariant. *)

\* The connection of client c has been accepted, refused or lost: it is no
\* longer being set up.
Past(c) == link[c] \in {"up", "down"}

\* What the state is like as long as an event waits for its owner.
EventOK(o, type, e) ==
  /\ Owner(e) = o
  /\ type \in {"ADDR_RESOLVED", "ROUTE_RESOLVED"} =>
       o \in Clients /\ link[e[1]] = "none"
  /\ type = "ROUTE_RESOLVED" => built[e]
  /\ type = "CONNECT_REQUEST" => o = "server" /\ link[e[1]] = "requested"
  /\ type \in {"ESTABLISHED", "DISCONNECTED"} => Past(e[1])

\* x is somewhere in the queue s.
In(s, x) == \E i \in 1..Len(s) : s[i] = x

EventsOK ==
  \A o \in Objects, type \in EventTypes, e \in Ends :
    In(events[o], <<type, e>>) => EventOK(o, type, e)

\* A client that sets up its connection has one event at a time, and the server
\* is asked once.
OneAtATime ==
  /\ \A c \in Clients :
       /\ link[c] = "none" => Len(events[c]) <= 1
       /\ thread[c] = "idle" => events[c] = <<>> /\ link[c] = "none"
  /\ \A i, j \in 1..Len(events["server"]) :
       events["server"][i] = events["server"][j]
         /\ events["server"][i][1] = "CONNECT_REQUEST" => i = j

\* Nothing is sent or received while the connection is being set up.
Idle ==
  \A e \in Ends :
    connected[e] \/ cq[e] # <<>> \/ poller[e] \notin {"poll", "ended"} => Past(e[1])

\* The event thread in SendMr still has the event in hand.
InSendMr ==
  \A o \in Objects : alive[o] /\ thread[o] \in {"copy", "post"} =>
    /\ events[o] # <<>> /\ Head(events[o])[1] = "ESTABLISHED"
    /\ connected[EventEnd(o)]

\* Receives fail only on a connection that is down.
Errors ==
  \A e \in Ends : \A i \in 1..Len(cq[e]) : cq[e][i] = "error" => link[e[1]] = "down"

\* An end with a Context has a receive, or a completion that leads to one, until
\* its connection is down.
Ready(e) == posted[e] > 0 \/ cq[e] # <<>> \/ poller[e] # "poll"
BuiltReady == \A e \in Ends : built[e] /\ link[e[1]] # "down" => Ready(e)

LinksBuilt ==
  \A c \in Clients :
    /\ link[c] \in {"requested", "up"} => built[<<c, "client">>]
    /\ link[c] = "up" => built[<<c, "server">>]

SetUpInv ==
  /\ TypeOK /\ EventsOK /\ OneAtATime /\ Idle /\ InSendMr /\ Errors
  /\ BuiltReady /\ LinksBuilt /\ SentConnected

-----------------------------------------------------------------------------
(* Ends and event queues. *)

Events == EventTypes \X Ends
Queues == [Objects -> Seq(Events)]

\* An end, its owner and its peer.
LEMMA EndFacts ==
  /\ "server" \in Objects /\ \A c \in Clients : c \in Objects /\ c # "server"
  /\ \A c \in Clients : /\ <<c, "client">> \in Ends /\ <<c, "server">> \in Ends
                        /\ Owner(<<c, "client">>) = c
                        /\ Owner(<<c, "server">>) = "server"
  /\ \A e \in Ends : /\ e[1] \in Clients /\ e[2] \in {"client", "server"}
                     /\ e = <<e[1], e[2]>>
                     /\ Owner(e) \in Objects /\ Peer(e) \in Ends
                     /\ Peer(e)[1] = e[1] /\ Owner(Peer(e)) # Owner(e)
                     /\ Owner(e) = "server" => e = <<e[1], "server">>
                     /\ Owner(e) # "server" =>
                          Owner(e) = e[1] /\ e = <<e[1], "client">>
BY ClientsAssumption DEF Objects, Ends, Owner, Peer

\* Appending to a queue keeps what is in it, in its place.
LEMMA AppendFacts ==
  ASSUME NEW S, NEW s \in Seq(S), NEW t \in Seq(S)
  PROVE  /\ s \o t \in Seq(S) /\ Len(s \o t) = Len(s) + Len(t)
         /\ \A i \in 1..Len(s) : (s \o t)[i] = s[i]
         /\ \A i \in 1..Len(s \o t) :
              \/ i \in 1..Len(s) /\ (s \o t)[i] = s[i]
              \/ /\ i \notin 1..Len(s) /\ i - Len(s) \in 1..Len(t)
                 /\ (s \o t)[i] = t[i - Len(s)]
         /\ s # <<>> => s \o t # <<>> /\ Head(s \o t) = Head(s)
<1>1. s \o t \in Seq(S) /\ Len(s \o t) = Len(s) + Len(t)
  OBVIOUS
<1>2. \A i \in 1..Len(s \o t) :
        (s \o t)[i] = IF i <= Len(s) THEN s[i] ELSE t[i - Len(s)]
  OBVIOUS
<1>3. Len(s) \in Nat /\ Len(t) \in Nat
  OBVIOUS
<1>4. \A i \in 1..Len(s) : (s \o t)[i] = s[i]
  BY <1>1, <1>2, <1>3
<1>5. s # <<>> => s \o t # <<>> /\ Head(s \o t) = Head(s)
  <2> SUFFICES ASSUME s # <<>> PROVE s \o t # <<>> /\ Head(s \o t) = Head(s)
    OBVIOUS
  <2>1. 1 \in 1..Len(s)
    BY <1>3
  <2> QED BY <1>1, <1>3, <1>4, <2>1
<1> QED BY <1>1, <1>2, <1>3, <1>4, <1>5

\* Taking the head off a queue moves the others up.
LEMMA TailFacts ==
  ASSUME NEW S, NEW s \in Seq(S), s # <<>>
  PROVE  /\ Tail(s) \in Seq(S) /\ Len(Tail(s)) = Len(s) - 1 /\ Len(s) >= 1
         /\ Head(s) = s[1] /\ Head(s) \in S
         /\ \A i \in 1..Len(Tail(s)) : i + 1 \in 1..Len(s) /\ Tail(s)[i] = s[i + 1]
OBVIOUS

\* Events are sent to one or two objects, one event each.
LEMMA NoticeFacts ==
  ASSUME TypeOK
  PROVE  /\ \A o \in Objects, x \in Events : Only(o, x) \in Queues
         /\ \A type \in EventTypes, e \in Ends : Both(type, e) \in Queues
         /\ \A o \in Objects : Hangup(o) \in Queues
<1>1. \A x \in Events : <<x>> \in Seq(Events)
  OBVIOUS
<1>2. \A o \in Objects, x \in Events : Only(o, x) \in Queues
  BY <1>1 DEF Only, Queues
<1>3. \A type \in EventTypes, e \in Ends : Both(type, e) \in Queues
  <2> SUFFICES ASSUME NEW type \in EventTypes, NEW e \in Ends
               PROVE  Both(type, e) \in Queues
    OBVIOUS
  <2>1. <<type, e>> \in Events /\ <<type, Peer(e)>> \in Events
    BY EndFacts DEF Events
  <2> QED BY <1>1, <2>1 DEF Both, Queues
<1>4. ASSUME NEW o \in Objects PROVE Hangup(o) \in Queues
  <2>1. ASSUME NEW p \in Objects PROVE Hangup(o)[p] \in Seq(Events)
    <3> DEFINE c == IF p = "server" THEN o ELSE p
               told == IF link[c] = "up" THEN "DISCONNECTED" ELSE "ERROR"
               x == <<told, <<c, IF p = c THEN "client" ELSE "server">> >>
    <3>1. Hangup(o)[p] \in {<<>>, <<x>>}
      BY DEF Hangup
    <3>2. CASE p = o \/ (o # "server" /\ p # "server")
      BY <3>2 DEF Hangup
    <3>3. CASE p # o /\ ~(o # "server" /\ p # "server")
      <4>1. c \in Clients
        BY <3>3 DEF Objects
      <4>2. x \in Events
        BY <4>1, EndFacts DEF Events, EventTypes
      <4>3. <<>> \in Seq(Events)
        OBVIOUS
      <4> HIDE DEF x
      <4> QED BY <1>1, <3>1, <4>2, <4>3
    <3> QED BY <3>2, <3>3
  <2> QED BY <2>1 DEF Hangup, Queues
<1> QED BY <1>2, <1>3, <1>4

\* Notify appends to every queue.
LEMMA NotifyFacts ==
  ASSUME NEW q \in Queues, NEW more \in Queues
  PROVE  /\ Notify(q, more) \in Queues
         /\ \A o \in Objects : Notify(q, more)[o] = q[o] \o more[o]
BY DEF Notify, Queues

\* The head event of an object that handles it.
LEMMA PendingFacts ==
  ASSUME TypeOK, NEW o \in Objects, events[o] # <<>>
  PROVE  /\ Taken(o) \in Queues
         /\ Taken(o)[o] = Tail(events[o])
         /\ \A p \in Objects \ {o} : Taken(o)[p] = events[p]
         /\ EventEnd(o) \in Ends /\ Head(events[o])[1] \in EventTypes
         /\ Head(events[o]) = <<Head(events[o])[1], EventEnd(o)>>
<1>1. events \in Queues
  BY DEF TypeOK, Queues, Events
<1>2. events[o] \in Seq(Events)
  BY <1>1 DEF Queues
<1>3. Tail(events[o]) \in Seq(Events) /\ Head(events[o]) \in Events
  BY <1>2, TailFacts
<1> QED BY <1>1, <1>3 DEF Taken, Queues, EventEnd, Events

-----------------------------------------------------------------------------
(* Type correctness. *)

\* A process that ends leaves well-typed queues.
LEMMA DiesType ==
  ASSUME TypeOK, NEW o \in Objects, Dies(o, events)
  PROVE  /\ alive' \in [Objects -> BOOLEAN] /\ events' \in Queues
         /\ link' \in [Clients -> {"none", "requested", "up", "down"}]
<1>1. events \in Queues /\ Hangup(o) \in Queues
  BY NoticeFacts DEF TypeOK, Queues, Events
<1>2. Notify(events, Hangup(o)) \in Queues
  BY <1>1, NotifyFacts
<1>3. events' \in Queues
  BY <1>2 DEF Dies, Queues
<1> QED BY <1>3 DEF Dies, LinksDown, TypeOK

\* Posting a receive keeps to the length of the queue.
LEMMA PostReceiveType ==
  ASSUME TypeOK, NEW e \in Ends, PostReceive(e)
  PROVE  /\ posted' \in [Ends -> 0..MaxRecvWr]
         /\ posted'[e] > 0 /\ \A f \in Ends \ {e} : posted'[f] = posted[f]
<1>1. posted[e] \in 0..MaxRecvWr /\ MaxRecvWr \in Nat /\ MaxRecvWr > 0
  BY BoundsAssumption DEF TypeOK
<1>2. (IF posted[e] < MaxRecvWr THEN posted[e] + 1 ELSE posted[e]) \in 1..MaxRecvWr
  BY <1>1
<1> QED BY <1>1, <1>2 DEF PostReceive, TypeOK

\* Every step of a connection manager's thread keeps every variable within its
\* type; SendMr takes off an event that is there.
LEMMA EventType ==
  ASSUME TypeOK, InSendMr,
         \/ \E c \in Clients : Connect(c) \/ Disconnect(c)
         \/ \E o \in Objects : EventStep(o)
  PROVE  TypeOK'
<1>0. events \in Queues /\ 1 \in 0..MaxRecvWr
  BY BoundsAssumption DEF TypeOK, Queues, Events
<1>q. ASSUME events' \in Queues
      PROVE  events' \in [Objects -> Seq(EventTypes \X Ends)]
  BY <1>q DEF Queues, Events
<1>1. ASSUME NEW c \in Clients, Connect(c) PROVE TypeOK'
  <2>1. PICK type \in {"ADDR_RESOLVED", "ERROR"} :
          events' = Notify(events, Only(c, <<type, <<c, "client">> >>))
    BY <1>1 DEF Connect
  <2>2. <<type, <<c, "client">> >> \in Events /\ c \in Objects
    BY EndFacts DEF Events, EventTypes
  <2>3. events' \in Queues
    BY <1>0, <2>1, <2>2, NoticeFacts, NotifyFacts
  <2>4. thread' \in [Objects -> {"idle", "wait", "copy", "post", "returned"}]
    BY <1>1 DEF Connect, TypeOK
  <2> QED BY <1>1, <1>q, <2>3, <2>4 DEF Connect, TypeOK
<1>2. ASSUME NEW c \in Clients, Disconnect(c) PROVE TypeOK'
  BY <1>2, <1>q, DiesType, EndFacts DEF Disconnect, TypeOK
<1>3. ASSUME NEW o \in Objects, OnConnection(o) PROVE TypeOK'
  BY <1>3 DEF OnConnection, SetConnected, TypeOK
<1>4. ASSUME NEW o \in Objects, CopyMr(o) PROVE TypeOK'
  BY <1>4 DEF CopyMr, TypeOK, Contents
<1>5. ASSUME NEW o \in Objects, SendMr(o) PROVE TypeOK'
  <2>0. events[o] # <<>>
    BY <1>5 DEF SendMr, InSendMr
  <2>1. sends' \in [Ends -> Nat]
    <3>1. EventEnd(o) \in Ends
      BY <2>0, PendingFacts
    <3>2. sends' = sends \/ sends' = [sends EXCEPT ![EventEnd(o)] = @ + 1]
      BY <1>5 DEF SendMr
    <3>3. sends \in [Ends -> Nat] /\ sends[EventEnd(o)] + 1 \in Nat
      BY <3>1 DEF TypeOK
    <3> QED BY <3>2, <3>3
  <2>2. /\ thread' \in [Objects -> {"idle", "wait", "copy", "post", "returned"}]
        /\ mr_refused' \in [Ends -> BOOLEAN]
    BY <1>5 DEF SendMr, Resumes, TypeOK
  <2>3. CASE events' = Taken(o) /\ UNCHANGED <<alive, link>>
    <3>1. events' \in Queues
      BY <2>0, <2>3, PendingFacts
    <3> QED BY <1>5, <1>q, <2>1, <2>2, <2>3, <3>1 DEF SendMr, TypeOK
  <2>4. CASE Dies(o, events)
    BY <1>5, <1>q, <2>1, <2>2, <2>4, DiesType DEF SendMr, TypeOK
  <2> QED BY <1>5, <2>3, <2>4 DEF SendMr
<1>6. ASSUME NEW o \in Objects, OnDisconnect(o) PROVE TypeOK'
  BY <1>6, <1>q, DiesType DEF OnDisconnect, TypeOK
<1>7. ASSUME NEW c \in Clients, OnAddressResolved(c) PROVE TypeOK'
  <2>0. c \in Objects /\ events[c] # <<>> /\ <<c, "client">> \in Ends
    BY <1>7, EndFacts DEF OnAddressResolved, Pending
  <2>1. Taken(c) \in Queues
    BY <2>0, PendingFacts
  <2>2. CASE BuildFails(c)
    <3>1. thread' \in [Objects -> {"idle", "wait", "copy", "post", "returned"}]
      BY <2>2 DEF BuildFails, TypeOK
    <3>2. CASE Dies(c, events)
      BY <1>7, <1>q, <2>0, <2>2, <3>1, <3>2, DiesType
      DEF OnAddressResolved, BuildFails, TypeOK
    <3>3. CASE events' = Taken(c) /\ UNCHANGED <<alive, link>>
      BY <1>7, <1>q, <2>1, <2>2, <3>1, <3>3 DEF OnAddressResolved, BuildFails, TypeOK
    <3> QED BY <2>2, <3>2, <3>3 DEF BuildFails
  <2>3. CASE ~BuildFails(c)
    <3>1. PICK type \in {"ROUTE_RESOLVED", "ERROR"} :
            events' = Notify(Taken(c), Only(c, <<type, <<c, "client">> >>))
      BY <1>7, <2>3 DEF OnAddressResolved
    <3>2. <<type, <<c, "client">> >> \in Events
      BY <2>0 DEF Events, EventTypes
    <3>3. events' \in Queues
      BY <2>0, <2>1, <3>1, <3>2, NoticeFacts, NotifyFacts
    <3>4. posted' \in [Ends -> 0..MaxRecvWr] /\ built' \in [Ends -> BOOLEAN]
      BY <1>0, <1>7, <2>3 DEF OnAddressResolved, Build, TypeOK
    <3> QED BY <1>7, <1>q, <2>3, <3>3, <3>4 DEF OnAddressResolved, TypeOK
  <2> QED BY <2>2, <2>3
<1>8. ASSUME NEW c \in Clients, OnRouteResolved(c) PROVE TypeOK'
  <2>0. c \in Objects /\ events[c] # <<>> /\ "server" \in Objects
    BY <1>8, EndFacts DEF OnRouteResolved, Pending
  <2>1. Taken(c) \in Queues
    BY <2>0, PendingFacts
  <2>2. /\ <<"CONNECT_REQUEST", <<c, "server">> >> \in Events
        /\ <<"ERROR", <<c, "client">> >> \in Events
    BY EndFacts DEF Events, EventTypes
  <2>3. PICK o \in Objects, x \in Events : events' = Notify(Taken(c), Only(o, x))
    BY <1>8, <2>0, <2>2 DEF OnRouteResolved
  <2>4. events' \in Queues
    BY <2>1, <2>3, NoticeFacts, NotifyFacts
  <2>5. link' \in [Clients -> {"none", "requested", "up", "down"}]
    BY <1>8 DEF OnRouteResolved, TypeOK
  <2> QED BY <1>8, <1>q, <2>4, <2>5 DEF OnRouteResolved, TypeOK
<1>9. ASSUME NEW c \in Clients, OnError(c) PROVE TypeOK'
  <2>1. events' \in Queues
    BY <1>9, PendingFacts, EndFacts DEF OnError, Pending
  <2> QED BY <1>9, <1>q, <2>1 DEF OnError, TypeOK
<1>10. ASSUME OnConnectRequest PROVE TypeOK'
  <2>e. PICK e : e = EventEnd("server")
    OBVIOUS
  <2>0. /\ e \in Ends /\ e[1] \in Clients /\ e[1] \in Objects
        /\ "server" \in Objects /\ Taken("server") \in Queues
    BY <1>10, <2>e, PendingFacts, EndFacts DEF OnConnectRequest, Pending
  <2>1. CASE Dies("server", events) /\ UNCHANGED <<thread, built, posted>>
    BY <1>10, <1>q, <2>0, <2>1, DiesType DEF OnConnectRequest, TypeOK
  <2>2. CASE /\ events' = Notify(Taken("server"), Only(e[1], <<"ERROR", Peer(e)>>))
             /\ link' = [link EXCEPT ![e[1]] = "down"]
             /\ UNCHANGED <<alive, thread, built, posted>>
    <3>1. <<"ERROR", Peer(e)>> \in Events
      BY <2>0, EndFacts DEF Events, EventTypes
    <3>2. events' \in Queues
      BY <2>0, <2>2, <3>1, NoticeFacts, NotifyFacts
    <3> QED BY <1>10, <1>q, <2>2, <3>2 DEF OnConnectRequest, TypeOK
  <2>3. CASE /\ Build(e) /\ events' = Notify(Taken("server"), Both("ESTABLISHED", e))
             /\ link' = [link EXCEPT ![e[1]] = "up"] /\ UNCHANGED <<alive, thread>>
    <3>1. events' \in Queues
      <4>1. "ESTABLISHED" \in EventTypes
        BY DEF EventTypes
      <4> QED BY <2>0, <2>3, <4>1, NoticeFacts, NotifyFacts
    <3>2. posted' \in [Ends -> 0..MaxRecvWr] /\ built' \in [Ends -> BOOLEAN]
      BY <1>0, <2>3 DEF Build, TypeOK
    <3> QED BY <1>10, <1>q, <2>3, <3>1, <3>2 DEF OnConnectRequest, TypeOK
  <2> QED BY <1>10, <2>e, <2>1, <2>2, <2>3 DEF OnConnectRequest
<1> QED
  BY <1>1, <1>2, <1>3, <1>4, <1>5, <1>6, <1>7, <1>8, <1>9, <1>10 DEF EventStep

\* So does every step of the adapter and of a thread that polls.
LEMMA PollType ==
  ASSUME TypeOK, NEW e \in Ends, Transmit(e) \/ Flush(e) \/ PollerStep(e)
  PROVE  TypeOK'
<1>q. ASSUME events' \in Queues
      PROVE  events' \in [Objects -> Seq(EventTypes \X Ends)]
  BY <1>q DEF Queues, Events
<1>0. /\ Peer(e) \in Ends /\ Owner(e) \in Objects /\ e[1] \in Clients
      /\ cq[e] \in Seq({"recv", "send", "error"}) /\ posted[e] \in 0..MaxRecvWr
      /\ Peer(e) # e /\ posted[Peer(e)] \in 0..MaxRecvWr /\ sends[e] \in Nat
  BY EndFacts DEF TypeOK
<1>c. ASSUME cq[e] # <<>>, cq' = [cq EXCEPT ![e] = Tail(@)]
      PROVE  cq' \in [Ends -> Seq({"recv", "send", "error"})]
  <2>1. Tail(cq[e]) \in Seq({"recv", "send", "error"})
    BY <1>0, <1>c
  <2> QED BY <1>c, <2>1 DEF TypeOK
<1>1. CASE Transmit(e)
  <2>1. sends' \in [Ends -> Nat]
    BY <1>0, <1>1 DEF Transmit, TypeOK
  <2>2. posted' \in [Ends -> 0..MaxRecvWr]
    <3>1. posted[Peer(e)] - 1 \in 0..MaxRecvWr
      BY <1>0, <1>1, BoundsAssumption DEF Transmit
    <3> QED BY <1>0, <1>1, <3>1 DEF Transmit, TypeOK
  <2>3. local_buffer' \in [Ends -> Contents]
    BY <1>0, <1>1 DEF Transmit, TypeOK
  <2>4. cq' \in [Ends -> Seq({"recv", "send", "error"})]
    <3>1. \A f \in Ends : /\ Append(cq[f], "recv") \in Seq({"recv", "send", "error"})
                          /\ Append(cq[f], "send") \in Seq({"recv", "send", "error"})
      BY DEF TypeOK
    <3> QED BY <1>0, <1>1, <3>1 DEF Transmit, TypeOK
  <2> QED BY <1>1, <2>1, <2>2, <2>3, <2>4 DEF Transmit, TypeOK
<1>2. CASE Flush(e)
  <2>1. posted' \in [Ends -> 0..MaxRecvWr]
    <3>1. posted[e] - 1 \in 0..MaxRecvWr
      BY <1>0, <1>2, BoundsAssumption DEF Flush
    <3> QED BY <1>2, <3>1 DEF Flush, TypeOK
  <2>2. cq' \in [Ends -> Seq({"recv", "send", "error"})]
    <3>1. Append(cq[e], "error") \in Seq({"recv", "send", "error"})
      BY <1>0
    <3> QED BY <1>2, <3>1 DEF Flush, TypeOK
  <2> QED BY <1>2, <2>1, <2>2 DEF Flush, TypeOK
<1>3. CASE PollError(e)
  <2>1. cq' \in [Ends -> Seq({"recv", "send", "error"})]
    BY <1>3, <1>c DEF PollError, Polls
  <2> QED BY <1>3, <2>1 DEF PollError, TypeOK
<1>4. CASE PollRecv(e)
  <2>1. cq' \in [Ends -> Seq({"recv", "send", "error"})]
    BY <1>4, <1>c DEF PollRecv, Polls
  <2>2. poller' \in [Ends -> {"poll", "first", "handle", "send", "ended"}]
    BY <1>4 DEF PollRecv, TypeOK
  <2> QED BY <1>4, <2>1, <2>2 DEF PollRecv, TypeOK
<1>5. CASE CopyPeerMr(e)
  BY <1>0, <1>5 DEF CopyPeerMr, Received, TypeOK
<1>6. CASE HandleReadCompletion(e)
  <2>1. PICK result \in HandlerResults :
       \/ /\ result = "nothing"
          /\ PostReceive(e) /\ poller' = [poller EXCEPT ![e] = "poll"]
          /\ UNCHANGED <<alive, events, link, remote_buffer, answers>>
       \/ /\ result \in {"data", "unwritten"} /\ answers < MaxAnswers
          /\ answers' = answers + 1
          /\ remote_buffer' = [remote_buffer EXCEPT ![e] = Written(e, result)]
          /\ poller' = [poller EXCEPT ![e] = "send"]
          /\ UNCHANGED <<alive, events, link, posted>>
       \/ /\ result = "eof"
          /\ poller' = [poller EXCEPT ![e] = "poll"]
          /\ link' = [link EXCEPT ![e[1]] = "down"]
          /\ events' = IF link[e[1]] = "down" THEN events
                       ELSE Notify(events, Both("DISCONNECTED", e))
          /\ UNCHANGED <<alive, posted, remote_buffer, answers>>
       \/ /\ result = "err" /\ Dies(Owner(e), events)
          /\ UNCHANGED <<poller, posted, remote_buffer, answers>>
    BY <1>6 DEF HandleReadCompletion
  <2>2. poller' \in [Ends -> {"poll", "first", "handle", "send", "ended"}]
    BY <2>1 DEF TypeOK
  <2>3. posted' \in [Ends -> 0..MaxRecvWr]
    BY <2>1, PostReceiveType DEF TypeOK
  <2>4. answers' \in 0..MaxAnswers /\ remote_buffer' \in [Ends -> Contents]
    <3>1. answers \in Nat /\ answers <= MaxAnswers /\ MaxAnswers \in Nat
      BY BoundsAssumption DEF TypeOK
    <3>2. answers' \in 0..MaxAnswers
      BY <1>6, <2>1, <3>1 DEF TypeOK
    <3>3. Written(e, result) \in Contents
      BY DEF TypeOK, Written, Contents
    <3>4. \/ remote_buffer' = remote_buffer
          \/ remote_buffer' = [remote_buffer EXCEPT ![e] = Written(e, result)]
      BY <2>1
    <3> HIDE DEF Written
    <3> QED BY <3>2, <3>3, <3>4 DEF TypeOK
  <2>5. events \in Queues
    BY DEF TypeOK, Queues, Events
  <2>6. events' \in Queues /\ alive' \in [Objects -> BOOLEAN]
        /\ link' \in [Clients -> {"none", "requested", "up", "down"}]
    <3>1. CASE Dies(Owner(e), events)
      BY <1>0, <3>1, DiesType
    <3>2. CASE UNCHANGED <<alive, events, link>>
      BY <2>5, <3>2 DEF TypeOK
    <3>3. CASE /\ events' = IF link[e[1]] = "down" THEN events
                            ELSE Notify(events, Both("DISCONNECTED", e))
               /\ link' = [link EXCEPT ![e[1]] = "down"] /\ UNCHANGED alive
      <4>1. Notify(events, Both("DISCONNECTED", e)) \in Queues
        BY <2>5, NoticeFacts, NotifyFacts DEF EventTypes
      <4> QED BY <2>5, <3>3, <4>1 DEF TypeOK
    <3> QED BY <2>1, <3>1, <3>2, <3>3
  <2> QED BY <1>6, <1>q, <2>2, <2>3, <2>4, <2>6 DEF HandleReadCompletion, TypeOK
<1>7. CASE PostSend(e)
  <2>0. PostReceive(e) /\ (sends' = sends \/ sends' = [sends EXCEPT ![e] = @ + 1])
    BY <1>7 DEF PostSend
  <2>1. sends' \in [Ends -> Nat] /\ posted' \in [Ends -> 0..MaxRecvWr]
    <3>1. posted' \in [Ends -> 0..MaxRecvWr]
      BY <2>0, PostReceiveType
    <3>2. sends[e] + 1 \in Nat /\ sends \in [Ends -> Nat]
      BY <1>0 DEF TypeOK
    <3> QED BY <2>0, <3>1, <3>2
  <2>2. poller' \in [Ends -> {"poll", "first", "handle", "send", "ended"}]
    BY <1>7 DEF PostSend, TypeOK
  <2>3. CASE UNCHANGED <<alive, events, link>>
    BY <1>7, <2>1, <2>2, <2>3 DEF PostSend, TypeOK
  <2>4. CASE Dies(Owner(e), events)
    BY <1>0, <1>7, <1>q, <2>1, <2>2, <2>4, DiesType DEF PostSend, TypeOK
  <2> QED BY <1>7, <2>3, <2>4 DEF PostSend
<1>8. CASE PollSend(e)
  <2>1. cq' \in [Ends -> Seq({"recv", "send", "error"})]
    BY <1>8, <1>c DEF PollSend, Polls
  <2>2. posted' \in [Ends -> 0..MaxRecvWr] /\ mr_sent_' \in [Objects -> BOOLEAN]
    BY <1>8, PostReceiveType DEF PollSend, TypeOK
  <2> QED BY <1>8, <2>1, <2>2 DEF PollSend, TypeOK
<1> QED
  BY <1>1, <1>2, <1>3, <1>4, <1>5, <1>6, <1>7, <1>8 DEF PollerStep

-----------------------------------------------------------------------------
(* How events and connections go on. *)

\* The server's requests stay different ones when the head is taken off, and
\* when events are added that are no requests, or are new ones.
Distinct(s) ==
  \A i, j \in 1..Len(s) : s[i] = s[j] /\ s[i][1] = "CONNECT_REQUEST" => i = j

\* No request to connect is twice among the events behind the first.
LEMMA DistinctTail ==
  ASSUME NEW s \in Seq(Events), s # <<>>, Distinct(s)
  PROVE  Distinct(Tail(s))
<1> SUFFICES ASSUME NEW i \in 1..Len(Tail(s)), NEW j \in 1..Len(Tail(s)),
                    Tail(s)[i] = Tail(s)[j], Tail(s)[i][1] = "CONNECT_REQUEST"
             PROVE  i = j
  BY DEF Distinct
<1>1. /\ i + 1 \in 1..Len(s) /\ Tail(s)[i] = s[i + 1]
      /\ j + 1 \in 1..Len(s) /\ Tail(s)[j] = s[j + 1]
  BY TailFacts
<1>2. i + 1 = j + 1
  BY <1>1 DEF Distinct
<1> QED BY <1>2

\* None is twice when events without one, or a new one, are added.
LEMMA DistinctAppend ==
  ASSUME NEW s \in Seq(Events), NEW t \in Seq(Events), Distinct(s),
         \/ \A i \in 1..Len(t) : t[i][1] # "CONNECT_REQUEST"
         \/ Len(t) <= 1 /\ \A i \in 1..Len(s), j \in 1..Len(t) : s[i] # t[j]
  PROVE  Distinct(s \o t)
<1> SUFFICES ASSUME NEW i \in 1..Len(s \o t), NEW j \in 1..Len(s \o t),
                    (s \o t)[i] = (s \o t)[j], (s \o t)[i][1] = "CONNECT_REQUEST"
             PROVE  i = j
  BY DEF Distinct
<1>1. /\ Len(s \o t) = Len(s) + Len(t) /\ Len(s) \in Nat /\ Len(t) \in Nat
      /\ \/ i \in 1..Len(s) /\ (s \o t)[i] = s[i]
         \/ /\ i \notin 1..Len(s) /\ i - Len(s) \in 1..Len(t)
            /\ (s \o t)[i] = t[i - Len(s)]
      /\ \/ j \in 1..Len(s) /\ (s \o t)[j] = s[j]
         \/ /\ j \notin 1..Len(s) /\ j - Len(s) \in 1..Len(t)
            /\ (s \o t)[j] = t[j - Len(s)]
  BY AppendFacts
<1>2. CASE \A k \in 1..Len(t) : t[k][1] # "CONNECT_REQUEST"
  BY <1>1, <1>2 DEF Distinct
<1>3. CASE /\ Len(t) <= 1 /\ \A k \in 1..Len(s), l \in 1..Len(t) : s[k] # t[l]
  <2>1. \/ i \in 1..Len(s) /\ j \in 1..Len(s)
        \/ i - Len(s) \in 1..Len(t) /\ j - Len(s) \in 1..Len(t)
    BY <1>1, <1>3
  <2>2. CASE i \in 1..Len(s) /\ j \in 1..Len(s)
    BY <1>1, <2>2 DEF Distinct
  <2>3. CASE i - Len(s) \in 1..Len(t) /\ j - Len(s) \in 1..Len(t)
    BY <1>1, <1>3, <2>3
  <2> QED BY <2>1, <2>2, <2>3
<1> QED BY <1>2, <1>3

\* What is in a queue that others are joined to or shortened from.
LEMMA InFacts ==
  ASSUME NEW s \in Seq(Events), NEW t \in Seq(Events)
  PROVE  /\ \A x : In(s \o t, x) <=> In(s, x) \/ In(t, x)
         /\ \A x : s # <<>> /\ In(Tail(s), x) => In(s, x)
         /\ s # <<>> => In(s, Head(s))
         /\ \A x, y : In(<<x>>, y) <=> x = y
         /\ \A x : ~In(<<>>, x)
<1>1. ASSUME NEW x PROVE In(s \o t, x) <=> In(s, x) \/ In(t, x)
  <2>1. ASSUME In(s \o t, x) PROVE In(s, x) \/ In(t, x)
    <3>1. PICK i \in 1..Len(s \o t) : (s \o t)[i] = x
      BY <2>1 DEF In
    <3>2. \/ i \in 1..Len(s) /\ (s \o t)[i] = s[i]
          \/ i - Len(s) \in 1..Len(t) /\ (s \o t)[i] = t[i - Len(s)]
      BY AppendFacts
    <3> QED BY <3>1, <3>2 DEF In
  <2>2. ASSUME In(s, x) PROVE In(s \o t, x)
    <3>1. PICK i \in 1..Len(s) : s[i] = x
      BY <2>2 DEF In
    <3>2. i \in 1..Len(s \o t) /\ (s \o t)[i] = s[i]
      OBVIOUS
    <3> QED BY <3>1, <3>2 DEF In
  <2>3. ASSUME In(t, x) PROVE In(s \o t, x)
    <3>1. PICK i \in 1..Len(t) : t[i] = x
      BY <2>3 DEF In
    <3>2. i + Len(s) \in 1..Len(s \o t) /\ (s \o t)[i + Len(s)] = t[i]
      OBVIOUS
    <3> QED BY <3>1, <3>2 DEF In
  <2> QED BY <2>1, <2>2, <2>3
<1>2. ASSUME NEW x, s # <<>>, In(Tail(s), x) PROVE In(s, x)
  BY <1>2, TailFacts DEF In
<1>3. ASSUME s # <<>> PROVE In(s, Head(s))
  <2>1. 1 \in 1..Len(s) /\ s[1] = Head(s)
    BY <1>3, TailFacts
  <2> QED BY <2>1 DEF In
<1>4. \A x, y : In(<<x>>, y) <=> x = y
  BY DEF In
<1>5. \A x : ~In(<<>>, x)
  BY DEF In
<1> QED BY <1>1, <1>2, <1>3, <1>4, <1>5

\* What is added to a queue of events goes behind its head.
LEMMA HeadFacts ==
  ASSUME NEW s \in Seq(Events), NEW t \in Seq(Events)
  PROVE  /\ Len(s \o t) = Len(s) + Len(t)
         /\ s # <<>> => s \o t # <<>> /\ Head(s \o t) = Head(s)
BY AppendFacts

\* Nothing is added to a queue, or something to an empty one.
LEMMA EmptyFacts ==
  /\ \A s \in Seq(Events) : s \o <<>> = s /\ <<>> \o s = s
  /\ \A x : Len(<<x>>) = 1 /\ \A i \in 1..1 : <<x>>[i] = x
OBVIOUS

\* The queues of the next state when some events are added to q.
LEMMA NotifyIn ==
  ASSUME NEW q \in Queues, NEW more \in Queues, events' = Notify(q, more),
         NEW o \in Objects
  PROVE  /\ \A x : In(events'[o], x) <=> In(q[o], x) \/ In(more[o], x)
         /\ q[o] # <<>> => events'[o] # <<>> /\ Head(events'[o]) = Head(q[o])
         /\ Len(events'[o]) = Len(q[o]) + Len(more[o])
<1>1. events'[o] = q[o] \o more[o] /\ q[o] \in Seq(Events) /\ more[o] \in Seq(Events)
  BY NotifyFacts DEF Queues
<1>2. \A x : In(q[o] \o more[o], x) <=> In(q[o], x) \/ In(more[o], x)
  BY <1>1, InFacts
<1>3. /\ q[o] # <<>> => /\ q[o] \o more[o] # <<>>
                       /\ Head(q[o] \o more[o]) = Head(q[o])
      /\ Len(q[o] \o more[o]) = Len(q[o]) + Len(more[o])
  BY <1>1, HeadFacts
<1> QED BY <1>1, <1>2, <1>3

-----------------------------------------------------------------------------
(* A process that ends. *)

\* Where a connection may go in one step: none, requested, up, down, and down
\* from anywhere.
LinkMoves(c) ==
  \/ link'[c] = link[c] \/ link'[c] = "down"
  \/ link[c] = "none" /\ link'[c] = "requested" /\ built'[<<c, "client">>]
  \/ link[c] = "requested" /\ link'[c] = "up" /\ built'[<<c, "server">>]

\* Who is told that an end has gone, and of what.
LEMMA HangupFacts ==
  ASSUME TypeOK, NEW o \in Objects, NEW p \in Objects
  PROVE  /\ \A type \in EventTypes, e \in Ends :
              In(Hangup(o)[p], <<type, e>>) =>
                /\ p # o /\ Owner(e) = p /\ o \in {e[1], "server"}
                /\ type \in {"DISCONNECTED", "ERROR"}
                /\ link[e[1]] # "none"
         /\ p \in Clients /\ link[p] = "none" => Hangup(o)[p] = <<>>
         /\ \A i \in 1..Len(Hangup(o)[p]) : Hangup(o)[p][i][1] # "CONNECT_REQUEST"
<1> DEFINE c == IF p = "server" THEN o ELSE p
           told == IF link[c] = "up" THEN "DISCONNECTED" ELSE "ERROR"
           e == <<c, IF p = c THEN "client" ELSE "server">>
<1>1. CASE \/ p = o \/ (o # "server" /\ p # "server")
           \/ ~(link[c] = "up" \/ (link[c] = "requested" /\ o = "server"))
  <2>1. Hangup(o)[p] = <<>>
    BY <1>1 DEF Hangup
  <2>2. \A x : ~In(<<>>, x)
    BY DEF In
  <2> QED BY <2>1, <2>2
<1>2. CASE /\ p # o /\ (o = "server" \/ p = "server")
           /\ link[c] = "up" \/ (link[c] = "requested" /\ o = "server")
  <2>1. Hangup(o)[p] = << <<told, e>> >>
    BY <1>2 DEF Hangup
  <2>2. c \in Clients /\ e \in Ends /\ Owner(e) = p /\ o \in {e[1], "server"}
        /\ e[1] = c /\ (p \in Clients => c = p)
    BY <1>2, EndFacts DEF Objects
  <2>3. link[c] # "none" /\ told \in {"DISCONNECTED", "ERROR"}
    BY <1>2
  <2> HIDE DEF c, told, e
  <2>4. \A x : In(<< <<told, e>> >>, x) => x = <<told, e>>
    BY DEF In
  <2>5. /\ Len(<< <<told, e>> >>) = 1
        /\ \A i \in 1..1 : << <<told, e>> >>[i][1] = told
    OBVIOUS
  <2>6. \A i \in 1..Len(Hangup(o)[p]) : Hangup(o)[p][i][1] # "CONNECT_REQUEST"
    BY <2>1, <2>3, <2>5
  <2>7. ASSUME NEW type \in EventTypes, NEW f \in Ends,
               In(Hangup(o)[p], <<type, f>>)
        PROVE  type = told /\ f = e
    BY <2>1, <2>4, <2>7
  <2> QED BY <1>2, <2>2, <2>3, <2>6, <2>7
<1> QED BY <1>1, <1>2

\* The death of a process leaves the others' events as they should be, when a
\* client does not die with its request on its way to the server.
LEMMA DiesKeeps ==
  ASSUME TypeOK, EventsOK, OneAtATime, InSendMr, NEW o \in Objects,
         Dies(o, events), o \in Clients => link[o] # "requested",
         UNCHANGED <<built, connected>>,
         \A p \in Objects : p # o => thread'[p] = thread[p],
         thread'[o] = "idle" => thread[o] = "idle"
  PROVE  /\ EventsOK' /\ OneAtATime' /\ InSendMr'
         /\ \A c \in Clients : LinkMoves(c)
<1> DEFINE more == Hangup(o)
<1>1. events \in Queues /\ more \in Queues
  BY NoticeFacts DEF TypeOK, Queues, Events
<1>2. /\ events'[o] = <<>> /\ alive'[o] = FALSE
      /\ \A p \in Objects : p # o => /\ alive'[p] = alive[p]
                                     /\ events'[p] = events[p] \o more[p]
  BY <1>1, NotifyFacts DEF Dies, TypeOK, Queues
<1>3. \A c \in Clients :
        link'[c] = IF o \in {c, "server"} /\ link[c] # "none" THEN "down" ELSE link[c]
  BY DEF Dies, LinksDown
<1> HIDE DEF more
<1>4. \A c \in Clients : LinkMoves(c)
  BY <1>3 DEF LinkMoves
<1>5. ASSUME NEW p \in Objects, p # o
      PROVE  /\ \A x : In(events'[p], x) <=> In(events[p], x) \/ In(more[p], x)
             /\ events[p] # <<>> => /\ events'[p] # <<>>
                                    /\ Head(events'[p]) = Head(events[p])
             /\ events[p] \in Seq(Events) /\ more[p] \in Seq(Events)
  <2>1. events[p] \in Seq(Events) /\ more[p] \in Seq(Events)
    BY <1>1 DEF Queues
  <2>2. \A x : In(events[p] \o more[p], x) <=> In(events[p], x) \/ In(more[p], x)
    BY <2>1, InFacts
  <2>3. events[p] # <<>> => /\ events[p] \o more[p] # <<>>
                            /\ Head(events[p] \o more[p]) = Head(events[p])
    BY <2>1, HeadFacts
  <2> QED BY <1>2, <1>5, <2>1, <2>2, <2>3
<1>6. EventsOK'
  <2> SUFFICES ASSUME NEW p \in Objects, NEW type \in EventTypes, NEW e \in Ends,
                      In(events'[p], <<type, e>>)
               PROVE  EventOK(p, type, e)'
    BY DEF EventsOK
  <2>1. p # o
    BY <1>2 DEF In
  <2>2. CASE In(events[p], <<type, e>>)
    <3>1. EventOK(p, type, e)
      BY <2>2 DEF EventsOK
    <3>2. e[1] \in Clients
      BY EndFacts
    <3>3. \/ link'[e[1]] = link[e[1]]
          \/ link'[e[1]] = "down" /\ link[e[1]] # "none"
      BY <1>3, <3>2
    <3>4. type = "CONNECT_REQUEST" => link'[e[1]] = link[e[1]]
      BY <1>3, <2>1, <3>1, <3>2 DEF EventOK
    <3> QED BY <3>1, <3>3, <3>4 DEF EventOK, Past
  <2>3. CASE In(more[p], <<type, e>>)
    <3>1. /\ Owner(e) = p /\ o \in {e[1], "server"} /\ link[e[1]] # "none"
          /\ type \in {"DISCONNECTED", "ERROR"}
      BY <2>3, HangupFacts DEF more
    <3>2. link'[e[1]] = "down"
      BY <1>3, <3>1, EndFacts
    <3> QED BY <3>1, <3>2 DEF EventOK, Past
  <2> QED BY <1>5, <2>1, <2>2, <2>3
<1>7. OneAtATime'
  <2>1. ASSUME NEW c \in Clients
        PROVE  /\ link'[c] = "none" => Len(events'[c]) <= 1
               /\ thread'[c] = "idle" => events'[c] = <<>> /\ link'[c] = "none"
    <3>0. c \in Objects /\ (thread'[c] = "idle" => thread[c] = "idle")
      BY EndFacts
    <3>1. CASE c = o
      <4>1. Len(<<>>) <= 1
        OBVIOUS
      <4> QED BY <1>2, <1>3, <3>0, <3>1, <4>1 DEF OneAtATime
    <3>2. CASE c # o
      <4>1. link[c] = "none" => events'[c] = events[c]
        <5>1. link[c] = "none" => more[c] = <<>>
          BY <3>0, HangupFacts DEF more
        <5>2. events[c] \in Seq(Events)
          BY <1>5, <3>0, <3>2
        <5>3. events[c] \o <<>> = events[c]
          BY <5>2
        <5> QED BY <1>2, <3>0, <3>2, <5>1, <5>3
      <4>2. link'[c] = "none" <=> link[c] = "none"
        BY <1>3
      <4> QED BY <3>0, <4>1, <4>2 DEF OneAtATime
    <3> QED BY <3>1, <3>2
  <2>2. Distinct(events'["server"])
    <3>1. CASE o = "server"
      BY <1>2, <3>1 DEF Distinct
    <3>2. CASE o # "server"
      <4>1. Distinct(events["server"])
        BY DEF OneAtATime, Distinct
      <4>2. \A i \in 1..Len(more["server"]) : more["server"][i][1] # "CONNECT_REQUEST"
        BY HangupFacts, EndFacts DEF more
      <4>3. /\ events["server"] \in Seq(Events) /\ more["server"] \in Seq(Events)
            /\ events'["server"] = events["server"] \o more["server"]
        BY <1>2, <1>5, <3>2, EndFacts
      <4> QED BY <4>1, <4>2, <4>3, DistinctAppend
    <3> QED BY <3>1, <3>2
  <2> QED BY <2>1, <2>2 DEF OneAtATime, Distinct
<1>8. InSendMr'
  <2> SUFFICES ASSUME NEW p \in Objects, alive'[p], thread'[p] \in {"copy", "post"}
               PROVE  /\ events'[p] # <<>> /\ Head(events'[p])[1] = "ESTABLISHED"
                      /\ connected'[Head(events'[p])[2]]
    BY DEF InSendMr, EventEnd
  <2>1. p # o
    BY <1>2
  <2>2. /\ events[p] # <<>> /\ Head(events[p])[1] = "ESTABLISHED"
        /\ connected[Head(events[p])[2]]
    BY <1>2, <2>1 DEF InSendMr, EventEnd
  <2> QED BY <1>5, <2>1, <2>2
<1> QED BY <1>4, <1>6, <1>7, <1>8

-----------------------------------------------------------------------------
(* The event threads. *)

\* The queues of the next state are q with more events behind: the conditions
\* under which they are as they should be.
LEMMA NotifyKeeps ==
  ASSUME TypeOK, EventsOK, OneAtATime, InSendMr,
         NEW q \in Queues, NEW more \in Queues, events' = Notify(q, more),
         \A o \in Objects, type \in EventTypes, e \in Ends :
           In(q[o], <<type, e>>) =>
             In(events[o], <<type, e>>)
               /\ (EventOK(o, type, e) => EventOK(o, type, e)'),
         \A o \in Objects, type \in EventTypes, e \in Ends :
           In(more[o], <<type, e>>) => EventOK(o, type, e)',
         Distinct(q["server"] \o more["server"]),
         \A o \in Objects : alive'[o] /\ thread'[o] \in {"copy", "post"} =>
           alive[o] /\ thread[o] \in {"copy", "post"} /\ q[o] = events[o],
         \A e \in Ends : connected[e] => connected'[e],
         \A c \in Clients :
           /\ link'[c] = "none" => \/ q[c] = <<>> /\ Len(more[c]) <= 1
                                   \/ more[c] = <<>> /\ Len(q[c]) <= 1
           /\ thread'[c] = "idle" =>
                q[c] = <<>> /\ more[c] = <<>> /\ link'[c] = "none"
  PROVE  EventsOK' /\ OneAtATime' /\ InSendMr'
<1>0. ASSUME NEW o \in Objects
      PROVE  /\ Len(events'[o]) = Len(q[o]) + Len(more[o])
             /\ q[o] # <<>> => events'[o] # <<>> /\ Head(events'[o]) = Head(q[o])
  <2>1. Notify(q, more)[o] = q[o] \o more[o]
    BY NotifyFacts
  <2>2. q[o] \in Seq(Events) /\ more[o] \in Seq(Events)
    BY DEF Queues
  <2>3. /\ Len(q[o] \o more[o]) = Len(q[o]) + Len(more[o])
        /\ q[o] # <<>> => /\ q[o] \o more[o] # <<>>
                         /\ Head(q[o] \o more[o]) = Head(q[o])
    BY <2>2, HeadFacts
  <2>4. events'[o] = q[o] \o more[o]
    BY <2>1
  <2> QED BY <2>3, <2>4
<1>1. EventsOK'
  <2> SUFFICES ASSUME NEW o \in Objects, NEW type \in EventTypes, NEW e \in Ends,
                      In(events'[o], <<type, e>>)
               PROVE  EventOK(o, type, e)'
    BY DEF EventsOK
  <2>1. In(q[o], <<type, e>>) \/ In(more[o], <<type, e>>)
    BY NotifyIn
  <2>2. In(events[o], <<type, e>>) => EventOK(o, type, e)
    BY DEF EventsOK
  <2> QED BY <2>1, <2>2
<1>2. OneAtATime'
  <2>1. \A o \in Objects : events'[o] = q[o] \o more[o]
    BY NotifyFacts
  <2>2. ASSUME NEW c \in Clients
        PROVE  /\ link'[c] = "none" => Len(events'[c]) <= 1
               /\ thread'[c] = "idle" => events'[c] = <<>> /\ link'[c] = "none"
    <3>1. c \in Objects
      BY EndFacts
    <3>2. q[c] \in Seq(Events) /\ more[c] \in Seq(Events)
      BY <3>1 DEF Queues
    <3>3. q[c] \o <<>> = q[c] /\ <<>> \o more[c] = more[c]
      BY <3>2, EmptyFacts
    <3>4. events'[c] = q[c] \o more[c]
      BY <2>1, <3>1
    <3>5. CASE q[c] = <<>> /\ Len(more[c]) <= 1
      BY <3>3, <3>4, <3>5
    <3>6. CASE more[c] = <<>> /\ Len(q[c]) <= 1
      BY <3>3, <3>4, <3>6
    <3>7. thread'[c] = "idle" => link'[c] = "none"
      OBVIOUS
    <3>8. CASE link'[c] # "none"
      BY <3>7, <3>8
    <3> QED BY <3>5, <3>6, <3>8
  <2>3. Distinct(events'["server"])
    BY <2>1, EndFacts
  <2> QED BY <2>2, <2>3 DEF OneAtATime, Distinct
<1>3. InSendMr'
  <2> SUFFICES ASSUME NEW p \in Objects, alive'[p], thread'[p] \in {"copy", "post"}
               PROVE  /\ events'[p] # <<>> /\ Head(events'[p])[1] = "ESTABLISHED"
                      /\ connected'[Head(events'[p])[2]]
    BY DEF InSendMr, EventEnd
  <2>1. q[p] = events[p] /\ alive[p] /\ thread[p] \in {"copy", "post"}
    OBVIOUS
  <2>2. /\ events[p] # <<>> /\ Head(events[p])[1] = "ESTABLISHED"
        /\ connected[Head(events[p])[2]]
    BY <2>1 DEF InSendMr, EventEnd
  <2>3. EventEnd(p) \in Ends
    BY <2>2, PendingFacts
  <2>4. connected'[Head(events[p])[2]]
    BY <2>2, <2>3 DEF EventEnd
  <2>5. events'[p] # <<>> /\ Head(events'[p]) = Head(events[p])
    BY <1>0, <2>1, <2>2
  <2> QED BY <2>2, <2>4, <2>5
<1> QED BY <1>1, <1>2, <1>3

\* Nobody is told anything.
Nobody == [o \in Objects |-> <<>>]

\* The queues that Notify is given.
LEMMA QueueFacts ==
  ASSUME TypeOK
  PROVE  /\ events \in Queues /\ Nobody \in Queues
         /\ \A o \in Objects : Nobody[o] = <<>> /\ \A x : ~In(Nobody[o], x)
         /\ \A q \in Queues : Notify(q, Nobody) = q
         /\ \A o \in Objects, p \in Objects : \A x, y :
              In(Only(o, x)[p], y) => p = o /\ y = x
         /\ \A o \in Objects, p \in Objects : \A x :
              /\ Len(Only(o, x)[p]) = IF p = o THEN 1 ELSE 0
              /\ p # o => Only(o, x)[p] = <<>>
         /\ \A type \in EventTypes, e \in Ends, p \in Objects : \A y :
              In(Both(type, e)[p], y) =>
                \/ p = Owner(e) /\ y = <<type, e>>
                \/ p = Owner(Peer(e)) /\ y = <<type, Peer(e)>>
         /\ \A type \in EventTypes, e \in Ends, p \in Objects :
              /\ p \notin {e[1], "server"} => Both(type, e)[p] = <<>>
              /\ \A i \in 1..Len(Both(type, e)[p]) : Both(type, e)[p][i][1] = type
<1>1. events \in Queues /\ Nobody \in Queues
  BY DEF TypeOK, Queues, Events, Nobody
<1>2. \A x : ~In(<<>>, x)
  BY DEF In
<1>3. \A x, y : In(<<x>>, y) => y = x
  BY DEF In
<1>4. ASSUME NEW q \in Queues PROVE Notify(q, Nobody) = q
  <2>1. \A o \in Objects : q[o] \o <<>> = q[o]
    BY DEF Queues
  <2> QED BY <2>1 DEF Notify, Nobody, Queues
<1>5. ASSUME NEW o \in Objects, NEW p \in Objects, NEW x, NEW y, In(Only(o, x)[p], y)
      PROVE  p = o /\ y = x
  <2>1. Only(o, x)[p] = IF p = o THEN <<x>> ELSE <<>>
    BY DEF Only
  <2> QED BY <1>2, <1>3, <1>5, <2>1
<1>6. \A o \in Objects, p \in Objects : \A x :
        /\ Len(Only(o, x)[p]) = IF p = o THEN 1 ELSE 0
        /\ p # o => Only(o, x)[p] = <<>>
  BY DEF Only
<1>7. ASSUME NEW type \in EventTypes, NEW e \in Ends, NEW p \in Objects
      PROVE  /\ \A y : In(Both(type, e)[p], y) =>
                  \/ p = Owner(e) /\ y = <<type, e>>
                  \/ p = Owner(Peer(e)) /\ y = <<type, Peer(e)>>
             /\ p \notin {e[1], "server"} => Both(type, e)[p] = <<>>
             /\ \A i \in 1..Len(Both(type, e)[p]) : Both(type, e)[p][i][1] = type
  <2>1. Both(type, e)[p] = IF p = Owner(e) THEN << <<type, e>> >>
                           ELSE IF p = Owner(Peer(e)) THEN << <<type, Peer(e)>> >>
                           ELSE <<>>
    BY DEF Both
  <2>2. \A x : Len(<<x>>) = 1 /\ \A i \in 1..1 : <<x>>[i] = x
    OBVIOUS
  <2>3. Len(<<>>) = 0
    OBVIOUS
  <2>4. /\ Owner(e) \in {e[1], "server"} /\ Owner(Peer(e)) \in {e[1], "server"}
    BY EndFacts
  <2>5. /\ <<type, e>>[1] = type /\ <<type, Peer(e)>>[1] = type
    OBVIOUS
  <2>6. \A i \in 1..Len(Both(type, e)[p]) : Both(type, e)[p][i][1] = type
    BY <2>1, <2>2, <2>3, <2>5
  <2>7. \A y : In(Both(type, e)[p], y) =>
                  \/ p = Owner(e) /\ y = <<type, e>>
                  \/ p = Owner(Peer(e)) /\ y = <<type, Peer(e)>>
    BY <1>2, <1>3, <2>1
  <2> QED BY <2>1, <2>4, <2>6, <2>7
<1> QED BY <1>1, <1>2, <1>4, <1>5, <1>6, <1>7 DEF Nobody

\* The events and the connections after a step, apart from what is in the
\* buffers and queues of an end.
EventsGoOn ==
  /\ EventsOK' /\ OneAtATime' /\ InSendMr'
  /\ \A c \in Clients : LinkMoves(c)
  /\ \A e \in Ends : built[e] => built'[e]

\* An event that stays when nothing else changes.
LEMMA Unmoved ==
  ASSUME UNCHANGED <<link, built>>, NEW o, NEW type, NEW e
  PROVE  EventOK(o, type, e) => EventOK(o, type, e)'
BY DEF EventOK, Past

\* The head event of o is taken off, and the connections are as they were.
LEMMA TakenKeeps ==
  ASSUME TypeOK, EventsOK, OneAtATime, InSendMr, NEW o \in Objects,
         events[o] # <<>>, events' = Taken(o),
         UNCHANGED <<alive, link, built, connected>>,
         \A p \in Objects : p # o => thread'[p] = thread[p],
         thread'[o] \in {"wait", "returned"}
  PROVE  EventsGoOn
<1>1. PICK q : q = Taken(o)
  OBVIOUS
<1>2. /\ q \in Queues /\ q[o] = Tail(events[o])
      /\ \A p \in Objects \ {o} : q[p] = events[p]
  BY <1>1, PendingFacts
<1>3. Nobody \in Queues /\ events' = Notify(q, Nobody)
  BY <1>1, <1>2, QueueFacts
<1>4. \A p \in Objects : events[p] \in Seq(Events) /\ q[p] \in Seq(Events)
  BY <1>2, QueueFacts DEF Queues
<1>5. \A p \in Objects : \A x : In(q[p], x) => In(events[p], x)
  BY <1>2, <1>4, InFacts
<1>6. \A p \in Objects : Nobody[p] = <<>> /\ q[p] \o Nobody[p] = q[p]
  BY <1>4 DEF Nobody
<1>7. Distinct(q["server"] \o Nobody["server"])
  <2>1. Distinct(events["server"])
    BY DEF OneAtATime, Distinct
  <2>2. Distinct(q["server"])
    <3>1. CASE o = "server"
      BY <1>2, <1>4, <2>1, <3>1, DistinctTail
    <3>2. CASE o # "server"
      BY <1>2, <2>1, <3>2, EndFacts
    <3> QED BY <3>1, <3>2
  <2> QED BY <1>6, <2>2, EndFacts
<1>8. \A p \in Objects : Len(q[p]) <= Len(events[p])
  <2> SUFFICES ASSUME NEW p \in Objects PROVE Len(q[p]) <= Len(events[p])
    OBVIOUS
  <2>1. CASE p = o
    <3>1. Len(Tail(events[o])) <= Len(events[o])
      BY <1>4, TailFacts
    <3> QED BY <1>2, <2>1, <3>1
  <2>2. CASE p # o
    <3>1. q[p] = events[p] /\ Len(events[p]) \in Nat
      BY <1>2, <1>4, <2>2
    <3> QED BY <3>1
  <2> QED BY <2>1, <2>2
<1>9. ASSUME NEW c \in Clients
      PROVE  /\ link'[c] = "none" => Nobody[c] = <<>> /\ Len(q[c]) <= 1
             /\ thread'[c] = "idle" =>
                  q[c] = <<>> /\ Nobody[c] = <<>> /\ link'[c] = "none"
  <2>1. c \in Objects /\ Nobody[c] = <<>>
    BY EndFacts DEF Nobody
  <2>2. Len(events[c]) \in Nat /\ Len(q[c]) \in Nat /\ Len(q[c]) <= Len(events[c])
    BY <1>4, <1>8, <2>1
  <2>3. link[c] = "none" => Len(events[c]) <= 1
    BY DEF OneAtATime
  <2>4. link'[c] = "none" => Len(q[c]) <= 1
    BY <2>2, <2>3
  <2>5. thread'[c] = "idle" => c # o /\ thread[c] = "idle"
    BY <2>1
  <2> QED BY <1>2, <2>1, <2>4, <2>5 DEF OneAtATime
<1>10. \A p \in Objects : alive'[p] /\ thread'[p] \in {"copy", "post"} =>
         alive[p] /\ thread[p] \in {"copy", "post"} /\ q[p] = events[p]
  BY <1>2
<1>11. \A p \in Objects, type \in EventTypes, e \in Ends :
         /\ In(q[p], <<type, e>>) =>
              In(events[p], <<type, e>>)
                /\ (EventOK(p, type, e) => EventOK(p, type, e)')
         /\ In(Nobody[p], <<type, e>>) => EventOK(p, type, e)'
  BY <1>5, Unmoved, QueueFacts
<1>12. EventsOK' /\ OneAtATime' /\ InSendMr'
  BY <1>2, <1>3, <1>7, <1>9, <1>10, <1>11, NotifyKeeps
<1> QED BY <1>12 DEF EventsGoOn, LinkMoves

\* Steps that leave the events and the connections alone.
LEMMA QuietKeeps ==
  ASSUME TypeOK, EventsOK, OneAtATime, InSendMr,
         UNCHANGED <<alive, events, link, built, thread>>,
         \A e \in Ends : connected[e] => connected'[e]
  PROVE  EventsGoOn
<1>1. EventsOK' /\ OneAtATime'
  BY DEF EventsOK, EventOK, Past, OneAtATime
<1>2. InSendMr'
  <2> SUFFICES ASSUME NEW p \in Objects, alive[p], thread[p] \in {"copy", "post"}
               PROVE  /\ events[p] # <<>> /\ Head(events[p])[1] = "ESTABLISHED"
                      /\ connected'[Head(events[p])[2]]
    BY DEF InSendMr, EventEnd
  <2>1. /\ events[p] # <<>> /\ Head(events[p])[1] = "ESTABLISHED"
        /\ connected[Head(events[p])[2]]
    BY DEF InSendMr, EventEnd
  <2>2. EventEnd(p) \in Ends
    BY <2>1, PendingFacts
  <2> QED BY <2>1, <2>2 DEF EventEnd
<1> QED BY <1>1, <1>2 DEF EventsGoOn, LinkMoves

\* The head event of an object is one of its events.
LEMMA HeadOK ==
  ASSUME TypeOK, EventsOK, NEW o \in Objects, events[o] # <<>>
  PROVE  EventOK(o, Head(events[o])[1], EventEnd(o))
<1>1. PICK type, e : type = Head(events[o])[1] /\ e = EventEnd(o)
  OBVIOUS
<1>2. type \in EventTypes /\ e \in Ends /\ Head(events[o]) = <<type, e>>
  BY <1>1, PendingFacts
<1>3. events[o] \in Seq(Events)
  BY QueueFacts DEF Queues
<1>4. In(events[o], <<type, e>>)
  BY <1>2, <1>3, InFacts
<1>5. EventOK(o, type, e)
  BY <1>2, <1>4 DEF EventsOK
<1> QED BY <1>1, <1>5

\* A client that resolves the address has no other event.
LEMMA ResolvingFacts ==
  ASSUME TypeOK, EventsOK, OneAtATime, NEW c \in Clients,
         NEW type \in {"ADDR_RESOLVED", "ROUTE_RESOLVED"}, Pending(c, type)
  PROVE  /\ link[c] = "none" /\ Taken(c) \in Queues /\ Taken(c)[c] = <<>>
         /\ \A p \in Objects \ {c} : Taken(c)[p] = events[p]
         /\ type = "ROUTE_RESOLVED" => built[<<c, "client">>]
         /\ thread[c] = "wait"
<1>1. c \in Objects /\ events[c] # <<>> /\ Head(events[c])[1] = type
      /\ thread[c] = "wait"
  BY EndFacts DEF Pending
<1>2. EventOK(c, type, EventEnd(c)) /\ EventEnd(c) \in Ends
  BY <1>1, HeadOK, PendingFacts
<1>3. EventEnd(c) = <<c, "client">> /\ link[c] = "none"
  BY <1>2, EndFacts DEF EventOK
<1>4. Taken(c)[c] = <<>>
  <2>1. events[c] \in Seq(Events)
    BY <1>1, QueueFacts DEF Queues
  <2>2. Len(events[c]) <= 1
    BY <1>3 DEF OneAtATime
  <2>3. Tail(events[c]) = <<>>
    BY <1>1, <2>1, <2>2
  <2> QED BY <1>1, <2>3, PendingFacts
<1> QED BY <1>1, <1>2, <1>3, <1>4, PendingFacts DEF EventOK

\* q holds events that waited before: those of o without the head, perhaps.
Shortened(q, o) ==
  /\ q \in Queues /\ \A r \in Objects : r # o => q[r] = events[r]
  /\ q[o] = events[o] \/ (events[o] # <<>> /\ q[o] = Tail(events[o]))

\* What was right about the events in q is right after the step.
StillOK(q) ==
  \A r \in Objects, t \in EventTypes, f \in Ends :
    In(q[r], <<t, f>>) /\ EventOK(r, t, f) => EventOK(r, t, f)'

\* p is told something new: a client that is only setting up its connection has
\* nothing else to handle.
MayTell(p, q) ==
  \A c \in Clients : /\ link'[c] = "none" => link[c] = "none"
                     /\ link'[c] = "none" /\ c = p => q[c] = <<>>
                     /\ thread'[c] = "idle" => c # p /\ link'[c] = "none"

\* Only the event thread of o has moved, and not into SendMr.
OnlyThread(o) ==
  /\ \A r \in Objects : r # o => thread'[r] = thread[r]
  /\ thread'[o] \in {"wait", "returned"}

\* One object is told something, and another's head event may be taken off.
LEMMA TellKeeps ==
  ASSUME TypeOK, EventsOK, OneAtATime, InSendMr,
         NEW q, NEW o \in Objects, Shortened(q, o), StillOK(q),
         NEW p \in Objects, NEW type \in EventTypes, NEW e \in Ends,
         events' = Notify(q, Only(p, <<type, e>>)), EventOK(p, type, e)',
         type = "CONNECT_REQUEST" => ~In(q["server"], <<type, e>>),
         MayTell(p, q), OnlyThread(o), UNCHANGED <<alive, connected>>
  PROVE  EventsOK' /\ OneAtATime' /\ InSendMr'
<1> USE DEF Shortened, StillOK, MayTell, OnlyThread
<1>1. PICK more : more = Only(p, <<type, e>>)
  OBVIOUS
<1>2. <<type, e>> \in Events
  BY DEF Events
<1>3. more \in Queues
  BY <1>1, <1>2, NoticeFacts
<1>4. more[p] = << <<type, e>> >> /\ \A r \in Objects : r # p => more[r] = <<>>
  BY <1>1 DEF Only
<1>5. \A r \in Objects, t \in EventTypes, f \in Ends :
        In(more[r], <<t, f>>) => r = p /\ t = type /\ f = e
  <2> SUFFICES ASSUME NEW r \in Objects, NEW t \in EventTypes, NEW f \in Ends,
                      In(more[r], <<t, f>>)
               PROVE  r = p /\ t = type /\ f = e
    OBVIOUS
  <2>1. /\ \A y : ~In(<<>>, y)
        /\ In(<< <<type, e>> >>, <<t, f>>) => <<type, e>> = <<t, f>>
    BY DEF In
  <2> QED BY <1>4, <2>1
<1>6. \A r \in Objects : events[r] \in Seq(Events) /\ q[r] \in Seq(Events)
  BY QueueFacts DEF Queues
<1>7. ASSUME NEW r \in Objects
      PROVE  \/ q[r] = events[r]
             \/ r = o /\ events[r] # <<>> /\ q[r] = Tail(events[r])
  OBVIOUS
<1>8. ASSUME NEW r \in Objects, NEW x PROVE In(q[r], x) => In(events[r], x)
  BY <1>6, <1>7, InFacts
<1>9. Distinct(q["server"] \o more["server"])
  <2>1. Distinct(events["server"])
    BY DEF OneAtATime, Distinct
  <2>2. /\ q["server"] \in Seq(Events) /\ more["server"] \in Seq(Events)
        /\ events["server"] \in Seq(Events) /\ "server" \in Objects
    BY <1>3, <1>6, EndFacts DEF Queues
  <2>3. Distinct(q["server"])
    BY <1>7, <2>1, <2>2, DistinctTail
  <2>4. CASE p # "server"
    <3>0. more["server"] = <<>>
      BY <1>4, <2>2, <2>4
    <3>1. q["server"] \o <<>> = q["server"]
      BY <2>2, EmptyFacts
    <3> QED BY <2>3, <3>0, <3>1
  <2>5. CASE p = "server"
    <3>0. more["server"] = << <<type, e>> >>
      BY <1>4, <2>5
    <3>1. Len(more["server"]) = 1 /\ \A i \in 1..1 : more["server"][i] = <<type, e>>
      BY <3>0, EmptyFacts
    <3>2. CASE type # "CONNECT_REQUEST"
      <4>1. \A i \in 1..Len(more["server"]) : more["server"][i][1] # "CONNECT_REQUEST"
        BY <3>1, <3>2
      <4> QED BY <2>2, <2>3, <4>1, DistinctAppend
    <3>3. CASE type = "CONNECT_REQUEST"
      <4>1. \A i \in 1..Len(q["server"]), j \in 1..Len(more["server"]) :
              q["server"][i] # more["server"][j]
        BY <3>1, <3>3 DEF In
      <4>2. Len(more["server"]) <= 1
        BY <3>1
      <4> QED BY <2>2, <2>3, <4>1, <4>2, DistinctAppend
    <3> QED BY <3>2, <3>3
  <2> QED BY <2>4, <2>5
<1>10. \A r \in Objects, t \in EventTypes, f \in Ends :
         In(q[r], <<t, f>>) =>
           In(events[r], <<t, f>>) /\ (EventOK(r, t, f) => EventOK(r, t, f)')
  BY <1>8
<1>11. \A r \in Objects, t \in EventTypes, f \in Ends :
         In(more[r], <<t, f>>) => EventOK(r, t, f)'
  BY <1>5
<1>12. \A r \in Objects : alive'[r] /\ thread'[r] \in {"copy", "post"} =>
         alive[r] /\ thread[r] \in {"copy", "post"} /\ q[r] = events[r]
  OBVIOUS
<1>13. ASSUME NEW c \in Clients
       PROVE  /\ link'[c] = "none" => \/ q[c] = <<>> /\ Len(more[c]) <= 1
                                      \/ more[c] = <<>> /\ Len(q[c]) <= 1
              /\ thread'[c] = "idle" =>
                   q[c] = <<>> /\ more[c] = <<>> /\ link'[c] = "none"
  <2>0. c \in Objects
    BY EndFacts
  <2>1. CASE c = p
    <3>1. Len(more[c]) <= 1
      BY <1>4, <2>1
    <3> QED BY <2>1, <3>1
  <2>2. CASE c # p
    <3>1. more[c] = <<>>
      BY <1>4, <2>0, <2>2
    <3>2. thread'[c] = "idle" => c # o /\ thread[c] = "idle"
      BY <2>0
    <3>3. thread'[c] = "idle" => q[c] = <<>>
      BY <1>7, <2>0, <3>2 DEF OneAtATime
    <3>4. ASSUME link'[c] = "none" PROVE Len(q[c]) <= 1
      <4>1. Len(events[c]) <= 1 /\ Len(events[c]) \in Nat
        BY <1>6, <2>0, <3>4 DEF OneAtATime
      <4>2. events[c] # <<>> => Len(Tail(events[c])) <= 1
        BY <1>6, <2>0, <4>1, TailFacts
      <4> QED BY <1>7, <2>0, <4>1, <4>2
    <3> QED BY <3>1, <3>3, <3>4
  <2> QED BY <2>1, <2>2
<1> HIDE DEF InSendMr
<1> QED BY <1>1, <1>3, <1>9, <1>10, <1>11, <1>12, <1>13, NotifyKeeps

\* Both ends of a connection that has been set up are told.
LEMMA BothKeeps ==
  ASSUME TypeOK, EventsOK, OneAtATime, InSendMr,
         NEW q, NEW o \in Objects, Shortened(q, o), StillOK(q),
         NEW type \in {"ESTABLISHED", "DISCONNECTED"}, NEW e \in Ends,
         events' = Notify(q, Both(type, e)), q[o] = events[o] \/ thread[o] = "wait",
         link[e[1]] # "none", Past(e[1])',
         \A c \in Clients : c # e[1] => link'[c] = link[c],
         UNCHANGED <<alive, thread, connected>>
  PROVE  EventsOK' /\ OneAtATime' /\ InSendMr'
<1> USE DEF Shortened, StillOK
<1>1. PICK more : more = Both(type, e)
  OBVIOUS
<1>2. type \in EventTypes /\ type # "CONNECT_REQUEST"
  BY DEF EventTypes
<1>3. more \in Queues
  BY <1>1, <1>2, NoticeFacts
<1>4. \A r \in Objects, t \in EventTypes, f \in Ends :
        In(more[r], <<t, f>>) =>
          \/ r = Owner(e) /\ t = type /\ f = e
          \/ r = Owner(Peer(e)) /\ t = type /\ f = Peer(e)
  <2> SUFFICES ASSUME NEW r \in Objects, NEW t \in EventTypes, NEW f \in Ends,
                      In(more[r], <<t, f>>)
               PROVE  \/ r = Owner(e) /\ t = type /\ f = e
                      \/ r = Owner(Peer(e)) /\ t = type /\ f = Peer(e)
    OBVIOUS
  <2>1. \/ r = Owner(e) /\ <<t, f>> = <<type, e>>
        \/ r = Owner(Peer(e)) /\ <<t, f>> = <<type, Peer(e)>>
    BY <1>1, <1>2, QueueFacts
  <2> QED BY <2>1
<1>5. /\ \A r \in Objects : r \notin {e[1], "server"} => more[r] = <<>>
      /\ \A i \in 1..Len(more["server"]) : more["server"][i][1] = type
  BY <1>1, <1>2, QueueFacts, EndFacts
<1>6. \A r \in Objects : events[r] \in Seq(Events) /\ q[r] \in Seq(Events)
  BY QueueFacts DEF Queues
<1>7. ASSUME NEW r \in Objects
      PROVE  \/ q[r] = events[r]
             \/ events[r] # <<>> /\ q[r] = Tail(events[r]) /\ thread[r] = "wait"
  OBVIOUS
<1>8. ASSUME NEW r \in Objects, NEW x PROVE In(q[r], x) => In(events[r], x)
  BY <1>6, <1>7, InFacts
<1>9. Distinct(q["server"] \o more["server"])
  <2>1. Distinct(events["server"])
    BY DEF OneAtATime, Distinct
  <2>2. /\ q["server"] \in Seq(Events) /\ more["server"] \in Seq(Events)
        /\ events["server"] \in Seq(Events) /\ "server" \in Objects
    BY <1>3, <1>6, EndFacts DEF Queues
  <2>3. Distinct(q["server"])
    BY <1>7, <2>1, <2>2, DistinctTail
  <2> QED BY <1>2, <1>5, <2>2, <2>3, DistinctAppend
<1>10. \A r \in Objects, t \in EventTypes, f \in Ends :
         In(q[r], <<t, f>>) =>
           In(events[r], <<t, f>>) /\ (EventOK(r, t, f) => EventOK(r, t, f)')
  BY <1>8
<1>11. \A r \in Objects, t \in EventTypes, f \in Ends :
         In(more[r], <<t, f>>) => EventOK(r, t, f)'
  <2> SUFFICES ASSUME NEW r \in Objects, NEW t \in EventTypes, NEW f \in Ends,
                      In(more[r], <<t, f>>)
               PROVE  EventOK(r, t, f)'
    OBVIOUS
  <2>1. Owner(f) = r /\ t = type /\ f[1] = e[1]
    BY <1>4, EndFacts
  <2> QED BY <2>1 DEF EventOK, Past
<1>12. \A r \in Objects : alive'[r] /\ thread'[r] \in {"copy", "post"} =>
         alive[r] /\ thread[r] \in {"copy", "post"} /\ q[r] = events[r]
  BY <1>7
<1>13. ASSUME NEW c \in Clients
       PROVE  /\ link'[c] = "none" => \/ q[c] = <<>> /\ Len(more[c]) <= 1
                                      \/ more[c] = <<>> /\ Len(q[c]) <= 1
              /\ thread'[c] = "idle" =>
                   q[c] = <<>> /\ more[c] = <<>> /\ link'[c] = "none"
  <2>0. c \in Objects /\ c # "server"
    BY EndFacts
  <2>1. CASE c = e[1]
    BY <2>1 DEF Past, OneAtATime
  <2>2. CASE c # e[1]
    <3>1. more[c] = <<>> /\ link'[c] = link[c]
      BY <1>5, <2>0, <2>2
    <3>2. thread'[c] = "idle" => q[c] = <<>> /\ link[c] = "none"
      BY <1>7, <2>0 DEF OneAtATime
    <3>3. ASSUME link'[c] = "none" PROVE Len(q[c]) <= 1
      <4>0. link[c] = "none" /\ events[c] \in Seq(Events)
        BY <1>6, <2>0, <3>1, <3>3
      <4>1. Len(events[c]) <= 1 /\ Len(events[c]) \in Nat
        BY <4>0 DEF OneAtATime
      <4>2. events[c] # <<>> => Len(Tail(events[c])) <= 1
        BY <1>6, <2>0, <4>1, TailFacts
      <4> QED BY <1>7, <2>0, <4>1, <4>2
    <3> QED BY <3>1, <3>2, <3>3
  <2> QED BY <2>1, <2>2
<1>14. \A f \in Ends : connected[f] => connected'[f]
  OBVIOUS
<1> QED BY <1>1, <1>3, <1>9, <1>10, <1>11, <1>12, <1>13, <1>14, NotifyKeeps

\* Connect resolves the address.
LEMMA ConnectKeeps ==
  ASSUME TypeOK, EventsOK, OneAtATime, InSendMr, NEW c \in Clients, Connect(c)
  PROVE  EventsGoOn
<1>1. PICK type \in {"ADDR_RESOLVED", "ERROR"} :
        events' = Notify(events, Only(c, <<type, <<c, "client">> >>))
  BY DEF Connect
<1>2. /\ c \in Objects /\ thread[c] = "idle" /\ link[c] = "none" /\ events[c] = <<>>
      /\ thread'[c] = "wait" /\ \A p \in Objects : p # c => thread'[p] = thread[p]
      /\ UNCHANGED <<alive, link, built, connected>>
  BY EndFacts DEF Connect, OneAtATime, TypeOK
<1>3. /\ type \in EventTypes /\ <<c, "client">> \in Ends
      /\ type # "CONNECT_REQUEST" /\ events \in Queues
  BY QueueFacts, EndFacts DEF EventTypes
<1>4. EventOK(c, type, <<c, "client">>)'
  BY <1>2, EndFacts DEF EventOK
<1>5. PICK q : q = events
  OBVIOUS
<1>6. Shortened(q, c) /\ StillOK(q)
  BY <1>2, <1>3, <1>5, Unmoved DEF Shortened, StillOK
<1>7. MayTell(c, q) /\ OnlyThread(c)
  BY <1>2, <1>5, EndFacts DEF OneAtATime, MayTell, OnlyThread
<1>8. EventsOK' /\ OneAtATime' /\ InSendMr'
  BY <1>1, <1>2, <1>3, <1>4, <1>5, <1>6, <1>7, TellKeeps
<1> QED BY <1>2, <1>8 DEF EventsGoOn, LinkMoves

\* So does OnAddressResolved, which resolves the route, or fails, or ends the
\* process.
LEMMA AddressKeeps ==
  ASSUME TypeOK, EventsOK, OneAtATime, InSendMr, NEW c \in Clients,
         OnAddressResolved(c)
  PROVE  EventsGoOn
<1>1. /\ link[c] = "none" /\ Taken(c) \in Queues /\ Taken(c)[c] = <<>>
      /\ \A p \in Objects \ {c} : Taken(c)[p] = events[p]
      /\ thread[c] = "wait" /\ c \in Objects /\ events[c] # <<>>
      /\ Taken(c)[c] = Tail(events[c]) /\ UNCHANGED connected
  <2>1. Pending(c, "ADDR_RESOLVED") /\ UNCHANGED connected
    BY DEF OnAddressResolved
  <2>2. c \in Objects /\ events[c] # <<>>
    BY <2>1, EndFacts DEF Pending
  <2> QED BY <2>1, <2>2, ResolvingFacts, PendingFacts
<1>2. CASE BuildFails(c)
  <2>1. UNCHANGED built
    BY <1>2 DEF BuildFails
  <2>2. CASE Dies(c, events) /\ UNCHANGED thread
    BY <1>1, <2>1, <2>2, DiesKeeps DEF EventsGoOn
  <2>3. CASE /\ events' = Taken(c) /\ UNCHANGED <<alive, link>>
             /\ thread' = [thread EXCEPT ![c] = "returned"]
    <3>1. /\ thread'[c] \in {"wait", "returned"}
          /\ \A p \in Objects : p # c => thread'[p] = thread[p]
      BY <1>1, <2>3 DEF TypeOK
    <3> QED BY <1>1, <2>1, <2>3, <3>1, TakenKeeps
  <2> QED BY <1>2, <2>2, <2>3 DEF BuildFails
<1>3. CASE /\ Build(<<c, "client">>) /\ UNCHANGED <<alive, thread, link>>
           /\ \E type \in {"ROUTE_RESOLVED", "ERROR"} :
                events' = Notify(Taken(c), Only(c, <<type, <<c, "client">> >>))
  <2>1. PICK type \in {"ROUTE_RESOLVED", "ERROR"} :
          events' = Notify(Taken(c), Only(c, <<type, <<c, "client">> >>))
    BY <1>3
  <2>2. built'[<<c, "client">>] /\ \A e \in Ends : built[e] => built'[e]
    <3>1. <<c, "client">> \in Ends
      BY EndFacts
    <3> QED BY <1>3, <3>1 DEF Build, TypeOK
  <2>3. /\ type \in EventTypes /\ <<c, "client">> \in Ends
        /\ type # "CONNECT_REQUEST"
    BY EndFacts DEF EventTypes
  <2>4. EventOK(c, type, <<c, "client">>)'
    BY <1>1, <1>3, <2>2, EndFacts DEF EventOK
  <2>5. PICK q : q = Taken(c)
    OBVIOUS
  <2>6. Shortened(q, c)
    BY <1>1, <2>5 DEF Shortened
  <2>7. StillOK(q)
    BY <1>3, <2>2 DEF StillOK, EventOK, Past
  <2>8. MayTell(c, q) /\ OnlyThread(c)
    BY <1>1, <1>3, <2>5 DEF OneAtATime, MayTell, OnlyThread
  <2>9. EventsOK' /\ OneAtATime' /\ InSendMr'
    BY <1>1, <1>3, <2>1, <2>3, <2>4, <2>5, <2>6, <2>7, <2>8, TellKeeps
  <2> QED BY <1>3, <2>2, <2>9 DEF EventsGoOn, LinkMoves
<1> QED BY <1>2, <1>3 DEF OnAddressResolved

\* OnRouteResolved asks the server, the first time for this client.
LEMMA RouteKeeps ==
  ASSUME TypeOK, EventsOK, OneAtATime, InSendMr, NEW c \in Clients,
         OnRouteResolved(c)
  PROVE  EventsGoOn
<1>1. /\ link[c] = "none" /\ Taken(c) \in Queues /\ Taken(c)[c] = <<>>
      /\ \A p \in Objects \ {c} : Taken(c)[p] = events[p]
      /\ thread[c] = "wait" /\ c \in Objects /\ events[c] # <<>>
      /\ Taken(c)[c] = Tail(events[c]) /\ built[<<c, "client">>]
      /\ UNCHANGED <<alive, thread, built, connected>>
  <2>1. Pending(c, "ROUTE_RESOLVED") /\ UNCHANGED <<alive, thread, built, connected>>
    BY DEF OnRouteResolved
  <2>2. c \in Objects /\ events[c] # <<>>
    BY <2>1, EndFacts DEF Pending
  <2> QED BY <2>1, <2>2, ResolvingFacts, PendingFacts
<1>2. PICK p \in Objects, type \in EventTypes, e \in Ends :
        /\ events' = Notify(Taken(c), Only(p, <<type, e>>))
        /\ Owner(e) = p /\ e[1] = c
        /\ \/ p = "server" /\ type = "CONNECT_REQUEST" /\ link'[c] = "requested"
           \/ p = c /\ type = "ERROR" /\ link'[c] = "down"
  <2>1. CASE alive["server"]
    <3>1. /\ events' = Notify(Taken(c), Only("server", <<"CONNECT_REQUEST", <<c, "server">> >>))
          /\ link'[c] = "requested"
      BY <2>1 DEF OnRouteResolved, TypeOK
    <3>2. /\ "server" \in Objects /\ "CONNECT_REQUEST" \in EventTypes
          /\ <<c, "server">> \in Ends /\ Owner(<<c, "server">>) = "server"
          /\ <<c, "server">>[1] = c
      BY EndFacts DEF EventTypes
    <3> QED BY <3>1, <3>2
  <2>2. CASE ~alive["server"]
    <3>1. /\ events' = Notify(Taken(c), Only(c, <<"ERROR", <<c, "client">> >>))
          /\ link'[c] = "down"
      BY <2>2 DEF OnRouteResolved, TypeOK
    <3>2. /\ c \in Objects /\ "ERROR" \in EventTypes
          /\ <<c, "client">> \in Ends /\ Owner(<<c, "client">>) = c
          /\ <<c, "client">>[1] = c
      BY EndFacts DEF EventTypes
    <3> QED BY <3>1, <3>2
  <2> QED BY <2>1, <2>2
<1>3. \A d \in Clients : d # c => link'[d] = link[d]
  BY DEF OnRouteResolved, TypeOK
<1>4. PICK q : q = Taken(c)
  OBVIOUS
<1>5. /\ q \in Queues /\ \A r \in Objects : r # c => q[r] = events[r]
      /\ q[c] = Tail(events[c]) /\ q[c] = <<>> /\ \A x : ~In(q[c], x)
  BY <1>1, <1>4 DEF In
<1>6. EventOK(p, type, e)'
  BY <1>2 DEF EventOK
<1>7. ASSUME NEW r \in Objects, NEW t \in EventTypes, NEW f \in Ends,
             In(q[r], <<t, f>>), EventOK(r, t, f)
      PROVE  EventOK(r, t, f)'
  <2>1. r # c
    BY <1>5, <1>7
  <2>2. f[1] # c \/ t = "ERROR"
    BY <1>1, <1>7, <2>1, EndFacts DEF EventOK, Past, EventTypes
  <2> QED BY <1>1, <1>3, <1>7, <2>2, EndFacts DEF EventOK, Past
<1>8. type = "CONNECT_REQUEST" => ~In(q["server"], <<type, e>>)
  <2>1. "server" \in Objects /\ "server" # c
    BY EndFacts
  <2>2. In(events["server"], <<type, e>>) => EventOK("server", type, e)
    BY <2>1 DEF EventsOK
  <2>3. type = "CONNECT_REQUEST" => ~EventOK("server", type, e)
    BY <1>1, <1>2 DEF EventOK
  <2> QED BY <1>5, <2>1, <2>2, <2>3
<1>9. Shortened(q, c) /\ StillOK(q)
  BY <1>1, <1>5, <1>7 DEF Shortened, StillOK
<1>10. EventsOK' /\ OneAtATime' /\ InSendMr'
  <2>1. MayTell(p, q) /\ OnlyThread(c)
    BY <1>1, <1>2, <1>3, <1>5, EndFacts DEF OneAtATime, MayTell, OnlyThread
  <2>2. events' = Notify(q, Only(p, <<type, e>>)) /\ UNCHANGED <<alive, connected>>
    BY <1>1, <1>2, <1>4
  <2> QED BY <1>1, <1>2, <1>6, <1>8, <1>9, <2>1, <2>2, TellKeeps
<1>11. \A d \in Clients : LinkMoves(d)
  BY <1>1, <1>2, <1>3 DEF LinkMoves
<1> QED BY <1>1, <1>10, <1>11 DEF EventsGoOn

\* OnConnectRequest accepts or refuses a request, or ends the server.
LEMMA RequestKeeps ==
  ASSUME TypeOK, EventsOK, OneAtATime, InSendMr, OnConnectRequest
  PROVE  EventsGoOn
<1>1. PICK e, q : e = EventEnd("server") /\ q = Taken("server")
  OBVIOUS
<1>2. /\ "server" \in Objects /\ events["server"] # <<>> /\ thread["server"] = "wait"
      /\ Head(events["server"])[1] = "CONNECT_REQUEST" /\ UNCHANGED connected
  BY EndFacts DEF OnConnectRequest, Pending
<1>3. /\ q \in Queues /\ q["server"] = Tail(events["server"]) /\ e \in Ends
      /\ \A r \in Objects : r # "server" => q[r] = events[r]
      /\ Head(events["server"]) = <<"CONNECT_REQUEST", e>>
  BY <1>1, <1>2, PendingFacts
<1>4. Owner(e) = "server" /\ link[e[1]] = "requested" /\ e[1] \in Clients
  <2>1. EventOK("server", "CONNECT_REQUEST", EventEnd("server"))
    BY <1>2, HeadOK
  <2> QED BY <1>1, <1>3, <2>1, EndFacts DEF EventOK
<1>5. \A r \in Objects : events[r] \in Seq(Events) /\ q[r] \in Seq(Events)
  BY <1>3, QueueFacts DEF Queues
<1>6. ~In(q["server"], <<"CONNECT_REQUEST", e>>)
  <2> SUFFICES ASSUME NEW i \in 1..Len(Tail(events["server"])),
                      Tail(events["server"])[i] = <<"CONNECT_REQUEST", e>>
               PROVE  FALSE
    BY <1>3 DEF In
  <2>1. /\ i + 1 \in 1..Len(events["server"])
        /\ events["server"][i + 1] = <<"CONNECT_REQUEST", e>>
        /\ 1 \in 1..Len(events["server"]) /\ i \in Nat \ {0}
        /\ events["server"][1] = <<"CONNECT_REQUEST", e>>
    BY <1>2, <1>3, <1>5, TailFacts
  <2>2. i + 1 = 1
    BY <2>1 DEF OneAtATime
  <2> QED BY <2>1, <2>2
<1>7. \A r \in Objects : \A x : In(q[r], x) => In(events[r], x)
  BY <1>2, <1>3, <1>5, InFacts
<1>8. ASSUME \A c \in Clients : c # e[1] => link'[c] = link[c],
             link'[e[1]] \in {"up", "down"}, \A f \in Ends : built[f] => built'[f],
             NEW r \in Objects, NEW t \in EventTypes, NEW f \in Ends,
             In(q[r], <<t, f>>), EventOK(r, t, f)
      PROVE  EventOK(r, t, f)'
  <2>1. CASE f[1] # e[1]
    <3>1. link'[f[1]] = link[f[1]] /\ (built[f] => built'[f])
      BY <1>8, <2>1, EndFacts
    <3> QED BY <1>8, <3>1 DEF EventOK, Past
  <2>2. CASE f[1] = e[1]
    <3>1. t # "CONNECT_REQUEST"
      <4>1. t = "CONNECT_REQUEST" => Owner(f) = "server" /\ r = "server"
        BY <1>8 DEF EventOK
      <4>2. Owner(f) = "server" => f = e
        BY <1>3, <1>4, <2>2, EndFacts
      <4> QED BY <1>6, <1>8, <4>1, <4>2
    <3> QED BY <1>4, <1>8, <2>2, <3>1 DEF EventOK, Past
  <2> QED BY <2>1, <2>2
<1>9. CASE Dies("server", events) /\ UNCHANGED <<thread, built, posted>>
  BY <1>2, <1>9, EndFacts, DiesKeeps DEF EventsGoOn
<1>10. CASE /\ Build(e) /\ events' = Notify(q, Both("ESTABLISHED", e))
            /\ link' = [link EXCEPT ![e[1]] = "up"] /\ UNCHANGED <<alive, thread>>
  <2>1. /\ link'[e[1]] = "up" /\ \A c \in Clients : c # e[1] => link'[c] = link[c]
        /\ built'[e] /\ \A f \in Ends : built[f] => built'[f]
    BY <1>3, <1>4, <1>10 DEF Build, TypeOK
  <2>2. Past(e[1])'
    BY <2>1 DEF Past
  <2>3. Shortened(q, "server") /\ StillOK(q)
    BY <1>2, <1>3, <1>8, <2>1 DEF Shortened, StillOK
  <2>4. link[e[1]] # "none" /\ UNCHANGED <<alive, thread, connected>>
    BY <1>2, <1>4, <1>10
  <2>5. EventsOK' /\ OneAtATime' /\ InSendMr'
    BY <1>2, <1>3, <1>10, <2>1, <2>2, <2>3, <2>4, BothKeeps
  <2>6. e = <<e[1], "server">>
    BY <1>3, <1>4, EndFacts
  <2>7. \A c \in Clients : LinkMoves(c)
    BY <1>4, <2>1, <2>6 DEF LinkMoves
  <2> QED BY <2>1, <2>5, <2>7 DEF EventsGoOn
<1>11. CASE /\ events' = Notify(q, Only(e[1], <<"ERROR", Peer(e)>>))
            /\ link' = [link EXCEPT ![e[1]] = "down"]
            /\ UNCHANGED <<alive, thread, built, posted>>
  <2>1. /\ link'[e[1]] = "down" /\ \A c \in Clients : c # e[1] => link'[c] = link[c]
        /\ \A f \in Ends : built[f] => built'[f]
    BY <1>4, <1>11 DEF TypeOK
  <2>2. PICK p, type, f : p = e[1] /\ type = "ERROR" /\ f = Peer(e)
    OBVIOUS
  <2>3. /\ p \in Objects /\ type \in EventTypes /\ f \in Ends /\ Owner(f) = p
        /\ type # "CONNECT_REQUEST" /\ events' = Notify(q, Only(p, <<type, f>>))
    BY <1>3, <1>4, <1>11, <2>2, EndFacts DEF EventTypes
  <2>4. EventOK(p, type, f)'
    BY <2>2, <2>3 DEF EventOK
  <2>5. Shortened(q, "server") /\ StillOK(q)
    BY <1>2, <1>3, <1>8, <2>1 DEF Shortened, StillOK
  <2>6. MayTell(p, q)
    BY <1>4, <1>11, <2>1, <2>2 DEF OneAtATime, MayTell
  <2>7. OnlyThread("server") /\ UNCHANGED <<alive, connected>>
    BY <1>2, <1>11 DEF OnlyThread
  <2>8. EventsOK' /\ OneAtATime' /\ InSendMr'
    BY <1>2, <2>3, <2>4, <2>5, <2>6, <2>7, TellKeeps
  <2>9. \A c \in Clients : LinkMoves(c)
    BY <2>1 DEF LinkMoves
  <2> QED BY <2>1, <2>8, <2>9 DEF EventsGoOn
<1> QED BY <1>1, <1>9, <1>10, <1>11 DEF OnConnectRequest

\* A client whose connection is past its set-up, or not yet begun, may go.
LEMMA MayDie ==
  ASSUME NEW c \in Clients, Past(c) \/ link[c] = "none"
  PROVE  link[c] # "requested"
BY DEF Past

\* OnConnection, CopyMr and SendMr keep the event until they are done.
LEMMA SendMrKeeps ==
  ASSUME TypeOK, EventsOK, OneAtATime, Idle, InSendMr, NEW o \in Objects,
         OnConnection(o) \/ CopyMr(o) \/ SendMr(o)
  PROVE  EventsGoOn
<1>1. CASE OnConnection(o) \/ CopyMr(o)
  <2>1. /\ UNCHANGED <<alive, events, link, built>>
        /\ \A p \in Objects : p # o => thread'[p] = thread[p]
        /\ thread'[o] \in {"copy", "post"} /\ thread[o] \in {"wait", "copy"}
        /\ events[o] # <<>> /\ Head(events[o])[1] = "ESTABLISHED"
    BY <1>1 DEF OnConnection, CopyMr, Pending, InSendMr, TypeOK
  <2>2. EventEnd(o) \in Ends
    BY <2>1, PendingFacts
  <2>3. connected'[EventEnd(o)] /\ \A e \in Ends : connected[e] => connected'[e]
    BY <1>1, <2>2 DEF OnConnection, CopyMr, SetConnected, InSendMr, TypeOK
  <2>4. EventsOK' /\ OneAtATime'
    BY <2>1, EndFacts DEF EventsOK, EventOK, Past, OneAtATime
  <2>5. InSendMr'
    <3> SUFFICES ASSUME NEW p \in Objects, alive[p], thread'[p] \in {"copy", "post"}
                 PROVE  /\ events[p] # <<>> /\ Head(events[p])[1] = "ESTABLISHED"
                        /\ connected'[EventEnd(p)]
      BY <2>1 DEF InSendMr, EventEnd
    <3>1. CASE p = o
      BY <2>1, <2>3, <3>1
    <3>2. CASE p # o
      <4>1. /\ events[p] # <<>> /\ Head(events[p])[1] = "ESTABLISHED"
            /\ connected[EventEnd(p)]
        BY <2>1, <3>2 DEF InSendMr
      <4>2. EventEnd(p) \in Ends
        BY <4>1, PendingFacts
      <4> QED BY <2>3, <4>1, <4>2
    <3> QED BY <3>1, <3>2
  <2> QED BY <2>1, <2>4, <2>5 DEF EventsGoOn, LinkMoves
<1>2. CASE SendMr(o)
  <2>1. /\ events[o] # <<>> /\ connected[EventEnd(o)] /\ UNCHANGED <<built, connected>>
        /\ Head(events[o])[1] = "ESTABLISHED"
        /\ \A p \in Objects : p # o => thread'[p] = thread[p]
        /\ thread'[o] \in {"wait", "returned"}
    BY <1>2 DEF SendMr, InSendMr, Resumes, TypeOK
  <2>2. CASE events' = Taken(o) /\ UNCHANGED <<alive, link>>
    BY <2>1, <2>2, TakenKeeps
  <2>3. CASE Dies(o, events)
    <3>1. EventEnd(o) \in Ends /\ EventOK(o, "ESTABLISHED", EventEnd(o))
      BY <2>1, PendingFacts, HeadOK
    <3>2. o \in Clients => Past(o)
      BY <3>1, EndFacts DEF EventOK
    <3> QED BY <2>1, <2>3, <3>2, MayDie, DiesKeeps DEF EventsGoOn
  <2> QED BY <1>2, <2>2, <2>3 DEF SendMr
<1> QED BY <1>1, <1>2

\* So do the other steps of the threads that handle events.
LEMMA ThreadKeeps ==
  ASSUME TypeOK, EventsOK, OneAtATime, Idle, InSendMr,
         \/ \E c \in Clients : Connect(c) \/ Disconnect(c)
         \/ \E o \in Objects : EventStep(o)
  PROVE  EventsGoOn
<1>1. ASSUME NEW c \in Clients, Disconnect(c) PROVE EventsGoOn
  <2>1. c \in Objects /\ Past(c)
    <3>1. connected[<<c, "client">>] /\ <<c, "client">> \in Ends /\ c \in Objects
      BY <1>1, EndFacts DEF Disconnect
    <3>2. Past(<<c, "client">>[1])
      BY <3>1 DEF Idle
    <3> QED BY <3>1, <3>2
  <2> QED BY <1>1, <2>1, MayDie, DiesKeeps DEF Disconnect, EventsGoOn
<1>2. ASSUME NEW o \in Objects, OnDisconnect(o) PROVE EventsGoOn
  <2>1. events[o] # <<>> /\ Head(events[o])[1] = "DISCONNECTED"
    BY <1>2 DEF OnDisconnect, Pending
  <2>2. EventEnd(o) \in Ends /\ EventOK(o, "DISCONNECTED", EventEnd(o))
    BY <2>1, PendingFacts, HeadOK
  <2>3. o \in Clients => Past(o)
    BY <2>2, EndFacts DEF EventOK
  <2> QED BY <1>2, <2>3, MayDie, DiesKeeps DEF OnDisconnect, EventsGoOn
<1>3. ASSUME NEW c \in Clients, OnError(c) PROVE EventsGoOn
  <2>1. /\ c \in Objects /\ events[c] # <<>> /\ events' = Taken(c)
        /\ UNCHANGED <<alive, link, built, connected>>
        /\ \A p \in Objects : p # c => thread'[p] = thread[p]
        /\ thread'[c] \in {"wait", "returned"}
    BY <1>3, EndFacts DEF OnError, Pending, TypeOK
  <2> QED BY <2>1, TakenKeeps
<1> QED
  BY <1>1, <1>2, <1>3, ConnectKeeps, AddressKeeps, RouteKeeps, RequestKeeps,
     SendMrKeeps DEF EventStep

\* And those of the adapter and of the threads that poll: rdma_disconnect tells
\* both ends, once.
LEMMA PollKeeps ==
  ASSUME TypeOK, EventsOK, OneAtATime, Idle, InSendMr, NEW e \in Ends,
         Transmit(e) \/ Flush(e) \/ PollerStep(e)
  PROVE  EventsGoOn
<1>0. /\ e[1] \in Clients /\ Owner(e) \in Objects /\ UNCHANGED <<built, thread, connected>>
      /\ Owner(e) \in Clients => Owner(e) = e[1]
  <2>1. UNCHANGED <<built, thread, connected>>
    BY DEF Transmit, Flush, PollerStep, PollError, PollRecv, CopyPeerMr,
           HandleReadCompletion, PostSend, PollSend
  <2> QED BY <2>1, EndFacts
<1>1. CASE Dies(Owner(e), events) /\ Past(e[1])
  BY <1>0, <1>1, MayDie, DiesKeeps DEF EventsGoOn
<1>2. CASE UNCHANGED <<alive, events, link>>
  BY <1>0, <1>2, QuietKeeps
<1>3. CASE /\ Past(e[1]) /\ link' = [link EXCEPT ![e[1]] = "down"]
           /\ events' = IF link[e[1]] = "down" THEN events
                        ELSE Notify(events, Both("DISCONNECTED", e))
           /\ UNCHANGED alive
  <2>1. /\ link'[e[1]] = "down" /\ \A c \in Clients : c # e[1] => link'[c] = link[c]
        /\ link[e[1]] # "none"
    BY <1>0, <1>3 DEF TypeOK, Past
  <2>2. CASE link[e[1]] = "down"
    <3>1. link' = link /\ events' = events
      BY <1>0, <1>3, <2>2 DEF TypeOK
    <3> QED BY <1>0, <1>3, <3>1, QuietKeeps
  <2>3. CASE link[e[1]] # "down"
    <3>1. PICK q : q = events
      OBVIOUS
    <3>2. q \in Queues
      BY <3>1, QueueFacts
    <3>3. Shortened(q, "server")
      BY <3>1, <3>2 DEF Shortened
    <3>4. StillOK(q)
      <4> SUFFICES ASSUME NEW r \in Objects, NEW t \in EventTypes, NEW f \in Ends,
                          EventOK(r, t, f)
                   PROVE  EventOK(r, t, f)'
        BY DEF StillOK
      <4>1. f[1] \in Clients /\ (built[f] => built'[f])
        BY <1>0, EndFacts
      <4>2. link'[f[1]] = link[f[1]] \/ (Past(f[1]) /\ link'[f[1]] = "down")
        BY <1>3, <2>1, <4>1
      <4> QED BY <4>1, <4>2 DEF EventOK, Past
    <3>5. Past(e[1])'
      BY <2>1 DEF Past
    <3>6. EventsOK' /\ OneAtATime' /\ InSendMr'
      BY <1>0, <1>3, <2>1, <2>3, <3>1, <3>3, <3>4, <3>5, EndFacts, BothKeeps
    <3> QED BY <1>0, <2>1, <3>6 DEF EventsGoOn, LinkMoves
  <2> QED BY <2>2, <2>3
<1>4. CASE HandleReadCompletion(e)
  <2>1. Past(e[1])
    BY <1>4 DEF HandleReadCompletion, Idle
  <2> QED BY <1>1, <1>2, <1>3, <1>4, <2>1 DEF HandleReadCompletion
<1>5. CASE PostSend(e)
  <2>1. Past(e[1])
    BY <1>5 DEF PostSend, Idle
  <2> QED BY <1>1, <1>2, <1>5, <2>1 DEF PostSend
<1>6. CASE ~HandleReadCompletion(e) /\ ~PostSend(e)
  <2>1. UNCHANGED <<alive, events, link>>
    BY <1>6 DEF Transmit, Flush, PollerStep, PollError, PollRecv, CopyPeerMr, PollSend
  <2> QED BY <1>2, <2>1
<1> QED BY <1>4, <1>5, <1>6

-----------------------------------------------------------------------------
(* Buffers and completion queues. *)

\* How connections move on keeps what is said of them.
LEMMA LinkFacts ==
  ASSUME TypeOK, LinksBuilt, EventsGoOn
  PROVE  /\ LinksBuilt'
         /\ \A e \in Ends : /\ Past(e[1]) => Past(e[1])'
                            /\ link[e[1]] = "down" => link'[e[1]] = "down"
<1>1. \A c \in Clients : <<c, "client">> \in Ends /\ <<c, "server">> \in Ends
  BY EndFacts
<1>2. LinksBuilt'
  BY <1>1 DEF LinksBuilt, EventsGoOn, LinkMoves
<1>3. \A e \in Ends : e[1] \in Clients
  BY EndFacts
<1> QED BY <1>2, <1>3 DEF EventsGoOn, LinkMoves, Past

\* The event threads touch the queues of an end only to build it and, once it is
\* connected, to send.
LEMMA ThreadQueues ==
  ASSUME SetUpInv, EventsGoOn,
         \/ \E c \in Clients : Connect(c) \/ Disconnect(c)
         \/ \E o \in Objects : EventStep(o)
  PROVE  Idle' /\ Errors' /\ BuiltReady' /\ LinksBuilt' /\ SentConnected'
<1> USE DEF SetUpInv
<1>1. UNCHANGED <<cq, poller>>
  BY DEF Connect, Disconnect, EventStep, OnConnection, CopyMr, SendMr,
         OnDisconnect, OnAddressResolved, OnRouteResolved, OnError, OnConnectRequest
<1>2. \A e \in Ends : connected'[e] => connected[e] \/ Past(e[1])
  <2>1. CASE \E o \in Objects : OnConnection(o)
    <3>1. PICK o \in Objects : OnConnection(o)
      BY <2>1
    <3>2. events[o] # <<>> /\ Head(events[o])[1] = "ESTABLISHED"
      BY <3>1 DEF OnConnection, Pending
    <3>3. EventEnd(o) \in Ends /\ EventOK(o, "ESTABLISHED", EventEnd(o))
      BY <3>2, PendingFacts, HeadOK
    <3>4. Past(EventEnd(o)[1])
      BY <3>3 DEF EventOK
    <3> QED BY <3>1, <3>3, <3>4 DEF OnConnection, SetConnected, TypeOK
  <2>2. CASE ~\E o \in Objects : OnConnection(o)
    <3>1. connected' = connected
      BY <2>2 DEF Connect, Disconnect, EventStep, CopyMr, SendMr,
         OnDisconnect, OnAddressResolved, OnRouteResolved, OnError, OnConnectRequest
    <3> QED BY <3>1
  <2> QED BY <2>1, <2>2
<1>3. Idle'
  <2> SUFFICES ASSUME NEW e \in Ends,
                      \/ connected'[e] \/ cq'[e] # <<>>
                      \/ poller'[e] \notin {"poll", "ended"}
               PROVE  Past(e[1])'
    BY DEF Idle
  <2>1. Past(e[1])
    BY <1>1, <1>2 DEF Idle
  <2> QED BY <2>1, LinkFacts
<1>4. Errors'
  BY <1>1, LinkFacts DEF Errors
<1>5. \A e \in Ends : \/ posted'[e] = posted[e] /\ built'[e] = built[e]
                      \/ posted'[e] > 0
  <2>1. ASSUME NEW f \in Ends, Build(f)
        PROVE  \A e \in Ends : \/ posted'[e] = posted[e] /\ built'[e] = built[e]
                               \/ posted'[e] > 0
    BY <2>1 DEF Build, TypeOK
  <2>2. CASE \E c \in Clients : OnAddressResolved(c)
    <3>1. PICK c \in Clients : OnAddressResolved(c)
      BY <2>2
    <3>2. Build(<<c, "client">>) \/ UNCHANGED <<built, posted>>
      BY <3>1 DEF OnAddressResolved, BuildFails
    <3> QED BY <2>1, <3>2, EndFacts
  <2>3. CASE OnConnectRequest
    <3>1. Build(EventEnd("server")) \/ UNCHANGED <<built, posted>>
      BY <2>3 DEF OnConnectRequest
    <3>2. EventEnd("server") \in Ends
      BY <2>3, PendingFacts, EndFacts DEF OnConnectRequest, Pending
    <3> QED BY <2>1, <3>1, <3>2
  <2>4. CASE ~OnConnectRequest /\ ~\E c \in Clients : OnAddressResolved(c)
    <3>1. UNCHANGED <<built, posted>>
      BY <2>4 DEF Connect, Disconnect, EventStep, OnConnection, CopyMr, SendMr,
                  OnDisconnect, OnRouteResolved, OnError
    <3> QED BY <3>1
  <2> QED BY <2>2, <2>3, <2>4
<1>6. BuiltReady'
  <2> SUFFICES ASSUME NEW e \in Ends, built'[e], link'[e[1]] # "down"
               PROVE  posted'[e] > 0 \/ cq'[e] # <<>> \/ poller'[e] # "poll"
    BY DEF BuiltReady, Ready
  <2>1. link[e[1]] # "down"
    BY LinkFacts
  <2> QED BY <1>1, <1>5, <2>1 DEF BuiltReady, Ready
<1>7. SentConnected'
  <2>1. CASE \E o \in Objects : SendMr(o)
    <3>1. PICK o \in Objects : SendMr(o)
      BY <2>1
    <3>2. events[o] # <<>> /\ connected[EventEnd(o)]
      BY <3>1 DEF SendMr, InSendMr
    <3>3. EventEnd(o) \in Ends
      BY <3>2, PendingFacts
    <3>4. connected' = connected /\ \A e \in Ends : e # EventEnd(o) => sends'[e] = sends[e]
      BY <3>1, <3>3 DEF SendMr, TypeOK
    <3> QED BY <3>2, <3>4 DEF SentConnected
  <2>2. CASE ~\E o \in Objects : SendMr(o)
    <3>1. sends' = sends
      BY <2>2 DEF Connect, Disconnect, EventStep, OnConnection, CopyMr,
         OnDisconnect, OnAddressResolved, OnRouteResolved, OnError, OnConnectRequest
    <3>2. \A e \in Ends : connected[e] => connected'[e]
      <4>1. CASE \E o \in Objects : OnConnection(o)
        BY <4>1 DEF OnConnection, SetConnected, TypeOK
      <4>2. CASE ~\E o \in Objects : OnConnection(o)
        BY <2>2, <4>2 DEF Connect, Disconnect, EventStep, CopyMr, OnDisconnect,
           OnAddressResolved, OnRouteResolved, OnError, OnConnectRequest
      <4> QED BY <4>1, <4>2
    <3> QED BY <3>1, <3>2 DEF SentConnected
  <2> QED BY <2>1, <2>2
<1> QED BY <1>3, <1>4, <1>6, <1>7, LinkFacts

\* The adapter and the pollers: a receive that is used up leaves a completion, a
\* completion that is polled leaves a poller that posts a receive, and what is
\* sent is sent on a connection.
LEMMA PollQueues ==
  ASSUME SetUpInv, EventsGoOn, NEW e \in Ends,
         Transmit(e) \/ Flush(e) \/ PollerStep(e)
  PROVE  Idle' /\ Errors' /\ BuiltReady' /\ LinksBuilt' /\ SentConnected'
<1> USE DEF SetUpInv
<1>0. /\ UNCHANGED <<built, connected>> /\ Peer(e) \in Ends /\ e[1] \in Clients
      /\ Peer(e)[1] = e[1] /\ Peer(e) # e
      /\ \A f \in Ends : /\ cq[f] \in Seq({"recv", "send", "error"})
                         /\ posted[f] \in Nat /\ sends[f] \in Nat
  <2>1. UNCHANGED <<built, connected>>
    BY DEF Transmit, Flush, PollerStep, PollError, PollRecv, CopyPeerMr,
           HandleReadCompletion, PostSend, PollSend
  <2>2. Peer(e) # e
    BY EndFacts
  <2> QED BY <2>1, <2>2, EndFacts DEF TypeOK
<1>1. ASSUME Past(e[1]), \A f \in Ends : f[1] # e[1] =>
               cq'[f] = cq[f] /\ poller'[f] = poller[f]
      PROVE  Idle'
  <2> SUFFICES ASSUME NEW f \in Ends,
                      \/ connected'[f] \/ cq'[f] # <<>>
                      \/ poller'[f] \notin {"poll", "ended"}
               PROVE  Past(f[1])'
    BY DEF Idle
  <2>1. Past(f[1])
    BY <1>0, <1>1 DEF Idle
  <2> QED BY <2>1, LinkFacts
<1>2. ASSUME \A f \in Ends : \A i \in 1..Len(cq'[f]) : cq'[f][i] = "error" =>
               link[f[1]] = "down"
      PROVE  Errors'
  BY <1>2, LinkFacts DEF Errors
<1>3. ASSUME \A f \in Ends : link'[f[1]] = "down" \/ Ready(f)' \/ (Ready(f) => Ready(f)')
      PROVE  BuiltReady'
  <2> SUFFICES ASSUME NEW f \in Ends, built'[f], link'[f[1]] # "down"
               PROVE  Ready(f)'
    BY DEF BuiltReady
  <2>1. link[f[1]] # "down"
    BY LinkFacts
  <2> QED BY <1>0, <1>3, <2>1 DEF BuiltReady
<1>4. ASSUME \A f \in Ends : sends'[f] > 0 => sends[f] > 0 \/ connected[f]
      PROVE  SentConnected'
  BY <1>0, <1>4 DEF SentConnected
<1>5. CASE Transmit(e)
  <2>1. /\ cq'[Peer(e)] = Append(cq[Peer(e)], "recv")
        /\ cq'[e] = Append(cq[e], "send")
        /\ \A f \in Ends : f \notin {e, Peer(e)} => cq'[f] = cq[f]
    BY <1>0, <1>5 DEF Transmit, TypeOK
  <2>2. /\ poller' = poller /\ Past(e[1])
        /\ \A f \in Ends : f \notin {e, Peer(e)} => posted'[f] = posted[f]
    BY <1>0, <1>5 DEF Transmit, Past, TypeOK
  <2>3. Idle'
    BY <1>0, <1>1, <2>1, <2>2
  <2>4. ASSUME NEW f \in Ends, NEW i \in 1..Len(cq'[f]), cq'[f][i] = "error"
        PROVE  link[f[1]] = "down"
    <3>1. i \in 1..Len(cq[f]) /\ cq[f][i] = "error"
      <4>1. CASE f = e
        <5>1. /\ Len(Append(cq[e], "send")) = Len(cq[e]) + 1 /\ Len(cq[e]) \in Nat
              /\ \A j \in 1..Len(cq[e]) : Append(cq[e], "send")[j] = cq[e][j]
              /\ Append(cq[e], "send")[Len(cq[e]) + 1] = "send"
          BY <1>0
        <5>2. cq'[f] = Append(cq[e], "send")
          BY <2>1, <4>1
        <5>3. i \in 1..(Len(cq[e]) + 1) /\ Append(cq[e], "send")[i] = "error"
          BY <2>4, <5>1, <5>2
        <5>4. i # Len(cq[e]) + 1
          BY <5>1, <5>3
        <5>5. i \in 1..Len(cq[e])
          BY <5>1, <5>3, <5>4
        <5> QED BY <4>1, <5>1, <5>3, <5>5
      <4>2. CASE f = Peer(e)
        <5>1. /\ Len(Append(cq[f], "recv")) = Len(cq[f]) + 1 /\ Len(cq[f]) \in Nat
              /\ \A j \in 1..Len(cq[f]) : Append(cq[f], "recv")[j] = cq[f][j]
              /\ Append(cq[f], "recv")[Len(cq[f]) + 1] = "recv"
          BY <1>0
        <5>2. cq'[f] = Append(cq[f], "recv")
          BY <2>1, <4>2
        <5>3. i \in 1..(Len(cq[f]) + 1) /\ Append(cq[f], "recv")[i] = "error"
          BY <2>4, <5>1, <5>2
        <5>4. i # Len(cq[f]) + 1
          BY <5>1, <5>3
        <5>5. i \in 1..Len(cq[f])
          BY <5>1, <5>3, <5>4
        <5> QED BY <5>1, <5>3, <5>5
      <4> QED BY <2>1, <2>4, <4>1, <4>2
    <3> QED BY <3>1 DEF Errors
  <2>5. Errors'
    BY <1>2, <2>4
  <2>6. BuiltReady'
    <3>1. cq'[e] # <<>> /\ cq'[Peer(e)] # <<>>
      BY <1>0, <2>1
    <3>2. \A f \in Ends : Ready(f)' \/ (Ready(f) => Ready(f)')
      BY <2>1, <2>2, <3>1 DEF Ready
    <3> QED BY <1>3, <3>2
  <2>7. SentConnected'
    <3>1. \A f \in Ends : sends'[f] > 0 => sends[f] > 0
      BY <1>0, <1>5 DEF Transmit, TypeOK
    <3> QED BY <1>4, <3>1
  <2> QED BY <2>3, <2>5, <2>6, <2>7, LinkFacts
<1>6. CASE Flush(e)
  <2>1. /\ cq'[e] = Append(cq[e], "error") /\ poller' = poller /\ sends' = sends
        /\ \A f \in Ends : f # e => cq'[f] = cq[f] /\ posted'[f] = posted[f]
        /\ link[e[1]] = "down" /\ link' = link /\ Past(e[1])
    BY <1>0, <1>6 DEF Flush, TypeOK, Past
  <2>2. Idle'
    BY <1>0, <1>1, <2>1
  <2>3. Errors'
    <3>1. \A f \in Ends : \A i \in 1..Len(cq'[f]) : cq'[f][i] = "error" =>
            link[f[1]] = "down"
      BY <2>1 DEF Errors
    <3> QED BY <1>2, <3>1
  <2>4. BuiltReady'
    <3>1. \A f \in Ends : link'[f[1]] = "down" \/ (Ready(f) => Ready(f)')
      BY <2>1 DEF Ready
    <3> QED BY <1>3, <3>1
  <2>5. SentConnected'
    BY <1>4, <2>1
  <2> QED BY <2>2, <2>3, <2>4, <2>5, LinkFacts
<1>7. ASSUME NEW kind, Polls(e, kind)
      PROVE  /\ cq[e] # <<>> /\ Past(e[1])
             /\ \A f \in Ends : f # e => cq'[f] = cq[f]
             /\ \A f \in Ends : \A i \in 1..Len(cq'[f]) : cq'[f][i] = "error" =>
                  link[f[1]] = "down"
             /\ kind = "error" => link[e[1]] = "down"
  <2>1. cq[e] # <<>> /\ Head(cq[e]) = kind /\ cq' = [cq EXCEPT ![e] = Tail(@)]
    BY <1>7 DEF Polls
  <2>2. cq'[e] = Tail(cq[e]) /\ \A f \in Ends : f # e => cq'[f] = cq[f]
    BY <2>1 DEF TypeOK
  <2>3. /\ Len(cq[e]) >= 1 /\ Head(cq[e]) = cq[e][1] /\ Len(cq[e]) \in Nat
        /\ \A i \in 1..Len(Tail(cq[e])) : i + 1 \in 1..Len(cq[e])
                                          /\ Tail(cq[e])[i] = cq[e][i + 1]
    BY <1>0, <2>1, TailFacts
  <2>4. kind = "error" => link[e[1]] = "down"
    <3>1. 1 \in 1..Len(cq[e])
      BY <2>3
    <3> QED BY <2>1, <2>3, <3>1 DEF Errors
  <2>5. ASSUME NEW f \in Ends, NEW i \in 1..Len(cq'[f]), cq'[f][i] = "error"
        PROVE  link[f[1]] = "down"
    <3>1. CASE f = e
      <4>1. cq'[f] = Tail(cq[e])
        BY <2>2, <3>1
      <4>2. i \in 1..Len(Tail(cq[e])) /\ Tail(cq[e])[i] = "error"
        BY <2>5, <4>1
      <4>3. i + 1 \in 1..Len(cq[e]) /\ cq[e][i + 1] = "error"
        BY <2>3, <4>2
      <4> QED BY <3>1, <4>3 DEF Errors
    <3>2. CASE f # e
      BY <2>2, <2>5, <3>2 DEF Errors
    <3> QED BY <3>1, <3>2
  <2>6. Past(e[1])
    BY <2>1 DEF Idle
  <2> QED BY <2>1, <2>2, <2>4, <2>5, <2>6
<1>8. CASE PollError(e) \/ PollRecv(e) \/ PollSend(e)
  <2>1. PICK kind : Polls(e, kind) /\ (PollError(e) => kind = "error")
    BY <1>8 DEF PollError, PollRecv, PollSend
  <2>2. /\ \A f \in Ends : f # e => poller'[f] = poller[f] /\ posted'[f] = posted[f]
        /\ sends' = sends /\ link' = link
    BY <1>8 DEF PollError, PollRecv, PollSend, PostReceive, TypeOK
  <2>3. Idle'
    BY <1>0, <1>1, <1>7, <2>1, <2>2
  <2>4. Errors'
    BY <1>2, <1>7, <2>1
  <2>5. Ready(e)' \/ link'[e[1]] = "down"
    <3>1. CASE PollError(e)
      BY <1>7, <2>1, <2>2, <3>1
    <3>2. CASE PollRecv(e)
      BY <3>2 DEF PollRecv, Ready, TypeOK
    <3>3. CASE PollSend(e)
      BY <3>3, PostReceiveType DEF PollSend, Ready
    <3> QED BY <1>8, <3>1, <3>2, <3>3
  <2>6. BuiltReady'
    <3>1. \A f \in Ends : f # e => (Ready(f) => Ready(f)')
      BY <1>7, <2>1, <2>2 DEF Ready
    <3> QED BY <1>3, <2>5, <3>1
  <2>7. SentConnected'
    BY <1>4, <2>2
  <2> QED BY <2>3, <2>4, <2>6, <2>7, LinkFacts
<1>9. CASE CopyPeerMr(e) \/ HandleReadCompletion(e) \/ PostSend(e)
  <2>1. /\ cq' = cq /\ Past(e[1])
        /\ \A f \in Ends : f # e => poller'[f] = poller[f] /\ posted'[f] = posted[f]
    BY <1>9 DEF CopyPeerMr, HandleReadCompletion, PostSend, PostReceive, TypeOK, Idle
  <2>2. Idle'
    BY <1>0, <1>1, <2>1
  <2>3. Errors'
    <3>1. \A f \in Ends : \A i \in 1..Len(cq'[f]) : cq'[f][i] = "error" =>
            link[f[1]] = "down"
      BY <2>1 DEF Errors
    <3> QED BY <1>2, <3>1
  <2>4. Ready(e)' \/ link'[e[1]] = "down"
    <3>1. CASE CopyPeerMr(e)
      BY <3>1 DEF CopyPeerMr, Ready, TypeOK
    <3>2. CASE HandleReadCompletion(e)
      <4>1. \/ PostReceive(e) \/ poller'[e] = "send" \/ link'[e[1]] = "down"
            \/ poller'[e] = "handle"
        BY <1>0, <3>2 DEF HandleReadCompletion, TypeOK
      <4> QED BY <4>1, PostReceiveType DEF Ready
    <3>3. CASE PostSend(e)
      BY <3>3, PostReceiveType DEF PostSend, Ready
    <3> QED BY <1>9, <3>1, <3>2, <3>3
  <2>5. BuiltReady'
    <3>1. \A f \in Ends : f # e => (Ready(f) => Ready(f)')
      BY <2>1 DEF Ready
    <3> QED BY <1>3, <2>4, <3>1
  <2>6. SentConnected'
    <3>1. \A f \in Ends : sends'[f] > 0 => sends[f] > 0 \/ connected[f]
      BY <1>0, <1>9 DEF CopyPeerMr, HandleReadCompletion, PostSend, MaySend, TypeOK
    <3> QED BY <1>4, <3>1
  <2> QED BY <2>2, <2>3, <2>5, <2>6, LinkFacts
<1> QED BY <1>5, <1>6, <1>8, <1>9 DEF PollerStep

\* A poller that ends has emptied its queue and leaves everything else alone.
LEMMA EndedKeeps ==
  ASSUME SetUpInv, NEW e \in Ends, PollerEnds(e)
  PROVE  SetUpInv'
<1>1. /\ UNCHANGED <<cm, built, connected, queues, buffers, mrs, answers>>
      /\ \A f \in Ends : poller'[f] = poller[f] \/ (f = e /\ poller'[f] = "ended")
      /\ poller' \in [Ends -> {"poll", "first", "handle", "send", "ended"}]
  BY DEF PollerEnds, SetUpInv, TypeOK
<1>2. TypeOK'
  BY <1>1 DEF SetUpInv, TypeOK
<1>3. EventsOK' /\ OneAtATime' /\ InSendMr'
  BY <1>1 DEF SetUpInv, EventsOK, EventOK, Past, OneAtATime, InSendMr, EventEnd
<1>4. Idle' /\ Errors' /\ BuiltReady' /\ LinksBuilt' /\ SentConnected'
  BY <1>1 DEF SetUpInv, Idle, Past, Errors, BuiltReady, Ready, LinksBuilt,
     SentConnected
<1> QED BY <1>2, <1>3, <1>4 DEF SetUpInv

-----------------------------------------------------------------------------
(* The theorems. *)

\* Every reachable state has a consistent set-up.
LEMMA SetUpCorrect == Spec => []SetUpInv
<1>1. Init => SetUpInv
  <2> SUFFICES ASSUME Init PROVE SetUpInv
    OBVIOUS
  <2>1. TypeOK
    BY BoundsAssumption DEF Init, TypeOK, Contents
  <2>2. EventsOK /\ OneAtATime
    BY EndFacts DEF Init, EventsOK, OneAtATime, In
  <2>3. Idle /\ Errors /\ InSendMr
    BY DEF Init, Idle, Errors, InSendMr
  <2>4. BuiltReady /\ LinksBuilt /\ SentConnected
    BY DEF Init, BuiltReady, LinksBuilt, SentConnected
  <2> QED BY <2>1, <2>2, <2>3, <2>4 DEF SetUpInv
<1>2. SetUpInv /\ [Next]_vars => SetUpInv'
  <2> SUFFICES ASSUME SetUpInv, [Next]_vars PROVE SetUpInv'
    OBVIOUS
  <2>0. TypeOK /\ EventsOK /\ OneAtATime /\ Idle /\ InSendMr
    BY DEF SetUpInv
  <2>1. ASSUME \/ \E c \in Clients : Connect(c) \/ Disconnect(c)
               \/ \E o \in Objects : EventStep(o)
        PROVE  SetUpInv'
    <3>1. TypeOK'
      BY <2>0, <2>1, EventType
    <3>2. EventsGoOn
      BY <2>0, <2>1, ThreadKeeps
    <3>3. Idle' /\ Errors' /\ BuiltReady' /\ LinksBuilt' /\ SentConnected'
      BY <2>1, <3>2, ThreadQueues
    <3> QED BY <3>1, <3>2, <3>3 DEF SetUpInv, EventsGoOn
  <2>2. ASSUME NEW e \in Ends, Transmit(e) \/ Flush(e) \/ PollerStep(e)
        PROVE  SetUpInv'
    <3>1. TypeOK'
      BY <2>0, <2>2, PollType
    <3>2. EventsGoOn
      BY <2>0, <2>2, PollKeeps
    <3>3. Idle' /\ Errors' /\ BuiltReady' /\ LinksBuilt' /\ SentConnected'
      BY <2>2, <3>2, PollQueues
    <3> QED BY <3>1, <3>2, <3>3 DEF SetUpInv, EventsGoOn
  <2>3. CASE UNCHANGED vars
    BY <2>3 DEF SetUpInv, vars, TypeOK, EventsOK, EventOK, Past, OneAtATime, Idle,
                InSendMr, EventEnd, Errors, BuiltReady, Ready, LinksBuilt, SentConnected
  <2>4. ASSUME NEW e \in Ends, PollerEnds(e) PROVE SetUpInv'
    BY <2>4, EndedKeeps
  <2> QED BY <2>1, <2>2, <2>3, <2>4 DEF Next
<1> QED BY <1>1, <1>2, PTL DEF Spec

\* Types: in particular no completion queue, receive queue or event queue of the
\* RDMA transport ever holds anything its threads do not know, and the receives
\* never exceed max_recv_wr.
THEOREM RdmaTypes == Spec => []TypeOK
<1>1. SetUpInv => TypeOK
  BY DEF SetUpInv
<1> QED BY <1>1, SetUpCorrect, PTL

\* While a connection is up, each end has a receive posted or is about to post
\* one (OnWorkCompletion), for any number of clients, whatever the handlers do.
THEOREM AlwaysReceiving == Spec => []ReceiveReady
<1>1. SetUpInv => ReceiveReady
  <2> SUFFICES ASSUME SetUpInv, NEW e \in Ends, link[e[1]] = "up"
               PROVE  Ready(e)
    BY DEF ReceiveReady, Ready
  <2>1. built[e]
    BY EndFacts DEF SetUpInv, LinksBuilt
  <2> QED BY <2>1 DEF SetUpInv, BuiltReady
<1> QED BY <1>1, SetUpCorrect, PTL

\* Neither the event thread (SendMr) nor the poller (PostSend) of an end sends
\* before OnConnection has set context->connected.
THEOREM SendsAfterConnect == Spec => []SentConnected
<1>1. SetUpInv => SentConnected
  BY DEF SetUpInv
<1> QED BY <1>1, SetUpCorrect, PTL

=============================================================================
