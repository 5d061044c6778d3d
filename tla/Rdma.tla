-------------------------------- MODULE Rdma --------------------------------
(***************************************************************************)
(* The RDMA transport (src/rdma): one RDMAServer and several RDMAClients.  *)
(*                                                                         *)
(* Every object has a thread for the events of the connection manager (Run *)
(* or Connect) and, per connection, a thread that polls its completion     *)
(* queue.  All connections of the server share its flags mr_sent_ and      *)
(* mr_received_; the two threads of a connection share its one buffer for  *)
(* sending and its one buffer for receiving.  librdmacm and the adapter    *)
(* are modelled from their use: a message is read from the sender's buffer *)
(* when it is transmitted, into the receiver's buffer, and only when the   *)
(* receiver has a receive posted (rnr_retry_count = 7, retry for ever).    *)
(*                                                                         *)
(* No main constructs these classes yet.  As committed, BuildContext takes *)
(* a memory region that ibv_reg_mr returned for an error, which destroys a *)
(* Context whose thread still runs; Repairs = {"reg_mr"} takes that test   *)
(* as corrected, so that the rest can be checked.                          *)
(***************************************************************************)
EXTENDS Integers, Sequences

CONSTANTS
  Clients,
  HandlerResults,  \* what HandleReadCompletion may return: "nothing" (size 0),
                   \* "data" (a size, and the answer in the buffer), "unwritten"
                   \* (a size only), "eof" or "err"
  Repairs,         \* {} or {"reg_mr"}
  MaxRecvWr,       \* max_recv_wr of a queue pair
  MaxAnswers       \* bound: number of answers the handlers give

ASSUME ClientsAssumption == "server" \notin Clients
ASSUME RepairsAssumption == Repairs \subseteq {"reg_mr"}
ASSUME HandlerAssumption ==
  HandlerResults \subseteq {"nothing", "data", "unwritten", "eof", "err"}
ASSUME BoundsAssumption == MaxRecvWr \in Nat \ {0} /\ MaxAnswers \in Nat

Objects == Clients \cup {"server"}
Ends == Clients \X {"client", "server"}

\* The object an end belongs to, the other end, and the ends of an object.
Owner(e) == IF e[2] = "client" THEN e[1] ELSE "server"
Peer(e) == <<e[1], IF e[2] = "client" THEN "server" ELSE "client">>

Contents == {"none", "mr", "data"}
EventTypes == {"ADDR_RESOLVED", "ROUTE_RESOLVED", "CONNECT_REQUEST",
               "ESTABLISHED", "DISCONNECTED", "ERROR"}

VARIABLES
  alive,          \* per object: its process runs
  thread,         \* per object: its event thread: "idle" (Connect not called),
                  \* "wait" (rdma_get_cm_event), "copy" and "post" (in
                  \* SendMr) or "returned"
  events,         \* per object: events not yet handled, as <<type, end>>
  link,           \* per client: "none", "requested", "up" or "down"
  built,          \* per end: its Context exists
  connected,      \* per end: context->connected
  posted,         \* per end: receives posted
  sends,          \* per end: sends posted and not transmitted
  cq,             \* per end: completions not yet polled
  poller,         \* per end: the thread in PollCompletionQueue: "poll", "first",
                  \* "handle", "send" (in PostSend) or "ended"
  remote_buffer,  \* per end: what it sends from
  local_buffer,   \* per end: what it receives into
  mr_sent_, mr_received_,   \* per object
  peer_mr,        \* per end: context->peer_mr
  mr_refused,     \* per end, history: ibv_post_send has failed in SendMr
  answers

cm == <<alive, thread, events, link>>
queues == <<posted, sends, cq>>
buffers == <<remote_buffer, local_buffer>>
mrs == <<mr_sent_, mr_received_, peer_mr, mr_refused>>
vars == <<cm, built, connected, queues, poller, buffers, mrs, answers>>

Init ==
  /\ alive = [o \in Objects |-> TRUE]
  /\ thread = [o \in Objects |-> IF o = "server" THEN "wait" ELSE "idle"]
  /\ events = [o \in Objects |-> <<>>] /\ link = [c \in Clients |-> "none"]
  /\ built = [e \in Ends |-> FALSE] /\ connected = [e \in Ends |-> FALSE]
  /\ posted = [e \in Ends |-> 0] /\ sends = [e \in Ends |-> 0]
  /\ cq = [e \in Ends |-> <<>>] /\ poller = [e \in Ends |-> "poll"]
  /\ remote_buffer = [e \in Ends |-> "none"]
  /\ local_buffer = [e \in Ends |-> "none"]
  /\ mr_sent_ = [o \in Objects |-> FALSE]
  /\ mr_received_ = [o \in Objects |-> FALSE]
  /\ peer_mr = [e \in Ends |-> "none"]
  /\ mr_refused = [e \in Ends |-> FALSE] /\ answers = 0

-----------------------------------------------------------------------------
(* The connection manager. *)

\* The event queues q after more events for some objects.
Notify(q, more) == [o \in Objects |-> q[o] \o more[o]]

Only(o, event) == [p \in Objects |-> IF p = o THEN <<event>> ELSE <<>>]

\* The owners of both ends of a connection are told.
Both(type, e) ==
  [o \in Objects |->
     IF o = Owner(e) THEN << <<type, e>> >>
     ELSE IF o = Owner(Peer(e)) THEN << <<type, Peer(e)>> >> ELSE <<>>]

\* What the other side of the connections of object o is told when they end.
Hangup(o) ==
  [p \in Objects |->
     IF p = o THEN <<>>
     ELSE LET c == IF p = "server" THEN o ELSE p
              told == IF link[c] = "up" THEN "DISCONNECTED" ELSE "ERROR"
          IN IF o # "server" /\ p # "server" THEN <<>>
             ELSE IF link[c] = "up" \/ (link[c] = "requested" /\ o = "server")
             THEN << <<told, <<c, IF p = c THEN "client" ELSE "server">> >> >>
             ELSE <<>>]

LinksDown(o) ==
  [c \in Clients |->
     IF o \in {c, "server"} /\ link[c] # "none" THEN "down" ELSE link[c]]

\* The process of object o ends, in a handler of the event queues q.
Dies(o, q) ==
  /\ alive' = [alive EXCEPT ![o] = FALSE]
  /\ events' = [Notify(q, Hangup(o)) EXCEPT ![o] = <<>>]
  /\ link' = LinksDown(o)

\* The queues after the head event of o is taken off.
Taken(o) == [events EXCEPT ![o] = Tail(@)]

Pending(o, type) ==
  /\ alive[o] /\ thread[o] = "wait"
  /\ events[o] # <<>> /\ Head(events[o])[1] = type

EventEnd(o) == Head(events[o])[2]

-----------------------------------------------------------------------------
(* RDMAClient::Connect, Disconnect and RDMAServer::Run: one event each. *)

Connect(c) ==
  /\ alive[c] /\ thread[c] = "idle"
  /\ thread' = [thread EXCEPT ![c] = "wait"]
  /\ \E type \in {"ADDR_RESOLVED", "ERROR"} :
       events' = Notify(events, Only(c, <<type, <<c, "client">> >>))
  /\ UNCHANGED <<alive, link, built, connected, queues, poller, buffers, mrs,
                 answers>>

\* Context and thread exist, a receive is posted.
Build(e) ==
  /\ built' = [built EXCEPT ![e] = TRUE] /\ posted' = [posted EXCEPT ![e] = 1]

\* BuildContext fails: before the thread is started it returns an error; behind
\* that, returning one destroys a std::thread that is joinable.
BuildFails(c) ==
  /\ \/ /\ events' = Taken(c) /\ UNCHANGED <<alive, link>>
        /\ thread' = [thread EXCEPT ![c] = "returned"]
     \/ Dies(c, events) /\ UNCHANGED thread
  /\ UNCHANGED <<built, posted>>

OnAddressResolved(c) ==
  LET e == <<c, "client">>
  IN /\ Pending(c, "ADDR_RESOLVED")
     /\ \/ /\ "reg_mr" \in Repairs /\ Build(e)
           /\ \E type \in {"ROUTE_RESOLVED", "ERROR"} :
                events' = Notify(Taken(c), Only(c, <<type, e>>))
           /\ UNCHANGED <<alive, thread, link>>
        \/ BuildFails(c)
     /\ UNCHANGED <<connected, sends, cq, poller, buffers, mrs, answers>>

\* rdma_connect
OnRouteResolved(c) ==
  /\ Pending(c, "ROUTE_RESOLVED")
  /\ events' = Notify(Taken(c),
       IF alive["server"]
       THEN Only("server", <<"CONNECT_REQUEST", <<c, "server">> >>)
       ELSE Only(c, <<"ERROR", <<c, "client">> >>))
  /\ link' = [link EXCEPT ![c] = IF alive["server"] THEN "requested" ELSE "down"]
  /\ UNCHANGED <<alive, thread, built, connected, queues, poller, buffers, mrs,
                 answers>>

\* rdma_accept tells both sides, unless the client has gone.  The error of a
\* failed BuildContext is only logged, and the client is told in the end.
OnConnectRequest ==
  LET e == EventEnd("server")
      refused == Only(e[1], <<"ERROR", Peer(e)>>)
  IN /\ Pending("server", "CONNECT_REQUEST")
     /\ \/ /\ "reg_mr" \in Repairs /\ Build(e)
           /\ events' = Notify(Taken("server"), Both("ESTABLISHED", e))
           /\ link' = [link EXCEPT ![e[1]] = "up"] /\ UNCHANGED <<alive, thread>>
        \/ /\ events' = Notify(Taken("server"), refused)
           /\ link' = [link EXCEPT ![e[1]] = "down"]
           /\ UNCHANGED <<alive, thread, built, posted>>
        \/ Dies("server", events) /\ UNCHANGED <<thread, built, posted>>
     /\ UNCHANGED <<connected, sends, cq, poller, buffers, mrs, answers>>

\* Mutant: the flag is not set.
SetConnectedForgotten(e) == UNCHANGED connected

\* From here on the poller of the end may send.
SetConnected(e) == connected' = [connected EXCEPT ![e] = TRUE]

OnConnection(o) ==
  /\ Pending(o, "ESTABLISHED")
  /\ SetConnected(EventEnd(o))
  /\ thread' = [thread EXCEPT ![o] = "copy"]
  /\ UNCHANGED <<alive, events, link, built, queues, poller, buffers, mrs,
                 answers>>

\* SendMr up to its call of PostSend.
CopyMr(o) ==
  /\ alive[o] /\ thread[o] = "copy"
  /\ remote_buffer' = [remote_buffer EXCEPT ![EventEnd(o)] = "mr"]
  /\ thread' = [thread EXCEPT ![o] = "post"]
  /\ UNCHANGED <<alive, events, link, built, connected, queues, poller,
                 local_buffer, mrs, answers>>

\* Where the event thread of o is after ESTABLISHED: Run goes on with
\* the next one, Connect returns.
Resumes(o) == IF o = "server" THEN "wait" ELSE "returned"

\* PostSend ends without a return statement: its caller destroys a Status that
\* was never constructed, which may end the process.  When ibv_post_send fails
\* there is a Status, and nothing is sent.  Connect then returns; Run logs it.
SendMr(o) ==
  LET e == EventEnd(o)
  IN /\ alive[o] /\ thread[o] = "post"
     /\ thread' = [thread EXCEPT ![o] = Resumes(o)]
     /\ \/ /\ sends' = [sends EXCEPT ![e] = @ + 1] /\ UNCHANGED mr_refused
           /\ \/ events' = Taken(o) /\ UNCHANGED <<alive, link>>
              \/ Dies(o, events)
        \/ /\ mr_refused' = [mr_refused EXCEPT ![e] = TRUE]
           /\ events' = Taken(o) /\ UNCHANGED <<alive, link, sends>>
     /\ UNCHANGED <<built, connected, posted, cq, poller, buffers, mr_sent_,
                    mr_received_, peer_mr, answers>>

\* OnDisconnect destroys a Context whose thread is joinable, which ends the
\* process: the server's with the first client that leaves.
OnDisconnect(o) ==
  /\ Pending(o, "DISCONNECTED") /\ built[EventEnd(o)]
  /\ Dies(o, events)
  /\ UNCHANGED <<thread, built, connected, queues, poller, buffers, mrs, answers>>

\* Any other event makes OnEvent return an error; Connect returns it.
OnError(c) ==
  /\ Pending(c, "ERROR")
  /\ events' = Taken(c) /\ thread' = [thread EXCEPT ![c] = "returned"]
  /\ UNCHANGED <<alive, link, built, connected, queues, poller, buffers, mrs,
                 answers>>

\* RDMAClient::Disconnect, which comes to OnDisconnect with the next event.
Disconnect(c) ==
  /\ alive[c] /\ thread[c] = "returned" /\ connected[<<c, "client">>]
  /\ Dies(c, events)
  /\ UNCHANGED <<thread, built, connected, queues, poller, buffers, mrs, answers>>

-----------------------------------------------------------------------------
(* The adapter. *)

\* A posted send meets a posted receive: buffer to buffer, two completions.
Transmit(e) ==
  LET p == Peer(e)
  IN /\ alive[Owner(e)] /\ link[e[1]] = "up" /\ sends[e] > 0 /\ posted[p] > 0
     /\ sends' = [sends EXCEPT ![e] = @ - 1]
     /\ posted' = [posted EXCEPT ![p] = @ - 1]
     /\ local_buffer' = [local_buffer EXCEPT ![p] = remote_buffer[e]]
     /\ cq' = [cq EXCEPT ![p] = Append(@, "recv"), ![e] = Append(@, "send")]
     /\ UNCHANGED <<cm, built, connected, poller, remote_buffer, mrs, answers>>

\* A queue pair in error completes its receives without success.
Flush(e) ==
  /\ alive[Owner(e)] /\ link[e[1]] = "down" /\ posted[e] > 0
  /\ posted' = [posted EXCEPT ![e] = @ - 1]
  /\ cq' = [cq EXCEPT ![e] = Append(@, "error")]
  /\ UNCHANGED <<cm, built, connected, sends, poller, buffers, mrs, answers>>

-----------------------------------------------------------------------------
(* PollCompletionQueue and OnWorkCompletion. *)

Polls(e, kind) ==
  /\ alive[Owner(e)] /\ poller[e] = "poll"
  /\ cq[e] # <<>> /\ Head(cq[e]) = kind
  /\ cq' = [cq EXCEPT ![e] = Tail(@)]

\* ibv_get_cq_event or ibv_req_notify_cq fails: the thread returns from
\* PollCompletionQueue, and nobody notices.  It does so when it has emptied the
\* queue; completions that came before the failing call were not taken.
PollerEnds(e) ==
  /\ alive[Owner(e)] /\ built[e] /\ poller[e] = "poll" /\ cq[e] = <<>>
  /\ poller' = [poller EXCEPT ![e] = "ended"]
  /\ UNCHANGED <<cm, built, connected, queues, buffers, mrs, answers>>

\* Mutant: the branch of the mr returns.
PostReceiveForgotten(e) == UNCHANGED posted

\* Mutant: the queue has no bound.
PostReceiveUnbounded(e) == posted' = [posted EXCEPT ![e] = @ + 1]

\* Nobody looks at the error of ibv_post_recv on a full queue.
PostReceive(e) ==
  posted' = [posted EXCEPT ![e] = IF @ < MaxRecvWr THEN @ + 1 ELSE @]

PollError(e) ==
  /\ Polls(e, "error")
  /\ UNCHANGED <<cm, built, connected, posted, sends, poller, buffers, mrs, answers>>

\* The flag is tested in one step and set in another one.
PollRecv(e) ==
  /\ Polls(e, "recv")
  /\ poller' = [poller EXCEPT ![e] =
       IF mr_received_[Owner(e)] THEN "handle" ELSE "first"]
  /\ UNCHANGED <<cm, built, connected, posted, sends, buffers, mrs, answers>>

\* Mutant: the flag is not set.
ReceivedForgotten(o) == UNCHANGED mr_received_

Received(o) == mr_received_' = [mr_received_ EXCEPT ![o] = TRUE]

CopyPeerMr(e) ==
  /\ alive[Owner(e)] /\ poller[e] = "first"
  /\ peer_mr' = [peer_mr EXCEPT ![e] = local_buffer[e]]
  /\ Received(Owner(e))
  /\ poller' = [poller EXCEPT ![e] = "handle"]
  /\ UNCHANGED <<cm, built, connected, queues, buffers, mr_sent_, mr_refused,
                 answers>>

\* The buffer after a handler has returned a size.  KvRequestHandler puts its
\* answer there; ShardingProxyRequestHandler writes to its client's socket, and
\* what is in the buffer is sent once more.
Written(e, result) == IF result = "data" THEN "data" ELSE remote_buffer[e]

\* The message, mr or not, goes to the handler.  rdma_disconnect on eof; an error
\* has no size, and reading it dereferences a null pointer.
HandleReadCompletion(e) ==
  /\ alive[Owner(e)] /\ poller[e] = "handle"
  /\ \E result \in HandlerResults :
       \/ /\ result = "nothing"
          /\ PostReceive(e) /\ poller' = [poller EXCEPT ![e] = "poll"]
          /\ UNCHANGED <<alive, events, link, remote_buffer, answers>>
       \/ /\ result \in {"data", "unwritten"} /\ answers < MaxAnswers
          /\ answers' = answers + 1
          /\ remote_buffer' = [remote_buffer EXCEPT ![e] = Written(e, result)]
          /\ poller' = [poller EXCEPT ![e] = "send"]
          /\ UNCHANGED <<alive, events, link, posted>>
       \/ /\ result = "eof"
          /\ poller' = [poller EXCEPT ![e] = "poll"]
          /\ link' = [link EXCEPT ![e[1]] = "down"]
          /\ events' = IF link[e[1]] = "down" THEN events
                       ELSE Notify(events, Both("DISCONNECTED", e))
          /\ UNCHANGED <<alive, posted, remote_buffer, answers>>
       \/ /\ result = "err" /\ Dies(Owner(e), events)
          /\ UNCHANGED <<poller, posted, remote_buffer, answers>>
  /\ UNCHANGED <<thread, built, connected, sends, cq, local_buffer, mrs>>

\* Mutant: nobody waits for the connection.
MaySendAtOnce(e) == TRUE

\* while (!context->connected);
MaySend(e) == connected[e]

\* OnWorkCompletion does not look at the Status of a failed ibv_post_send.
PostSend(e) ==
  /\ alive[Owner(e)] /\ poller[e] = "send" /\ MaySend(e)
  /\ PostReceive(e) /\ poller' = [poller EXCEPT ![e] = "poll"]
  /\ \/ sends' = [sends EXCEPT ![e] = @ + 1] /\ UNCHANGED <<alive, events, link>>
     \/ sends' = [sends EXCEPT ![e] = @ + 1] /\ Dies(Owner(e), events)
     \/ UNCHANGED <<sends, alive, events, link>>
  /\ UNCHANGED <<thread, built, connected, cq, buffers, mrs, answers>>

\* The first completion of a send is the mr's; later ones do nothing more.
PollSend(e) ==
  /\ Polls(e, "send")
  /\ mr_sent_' = [mr_sent_ EXCEPT ![Owner(e)] = TRUE]
  /\ PostReceive(e)
  /\ UNCHANGED <<cm, built, connected, sends, poller, buffers, mr_received_,
                 peer_mr, mr_refused, answers>>

-----------------------------------------------------------------------------

EventStep(o) ==
  \/ OnConnection(o) \/ CopyMr(o) \/ SendMr(o) \/ OnDisconnect(o)
  \/ o \in Clients /\ (OnAddressResolved(o) \/ OnRouteResolved(o) \/ OnError(o))
  \/ o = "server" /\ OnConnectRequest

PollerStep(e) ==
  \/ PollError(e) \/ PollRecv(e) \/ CopyPeerMr(e) \/ HandleReadCompletion(e)
  \/ PostSend(e) \/ PollSend(e)

Next ==
  \/ \E c \in Clients : Connect(c) \/ Disconnect(c)
  \/ \E o \in Objects : EventStep(o)
  \/ \E e \in Ends : Transmit(e) \/ Flush(e) \/ PollerStep(e) \/ PollerEnds(e)

Spec == Init /\ [][Next]_vars

\* Threads that can go on do, and the adapter transmits what it can.
FairSpec ==
  /\ Spec
  /\ \A o \in Objects : WF_vars(EventStep(o))
  /\ \A e \in Ends : WF_vars(PollerStep(e)) /\ WF_vars(Transmit(e))

-----------------------------------------------------------------------------
(* Properties. *)

\* Every variable has the values the code can give it.
TypeOK ==
  /\ alive \in [Objects -> BOOLEAN]
  /\ thread \in [Objects -> {"idle", "wait", "copy", "post", "returned"}]
  /\ events \in [Objects -> Seq(EventTypes \X Ends)]
  /\ link \in [Clients -> {"none", "requested", "up", "down"}]
  /\ built \in [Ends -> BOOLEAN] /\ connected \in [Ends -> BOOLEAN]
  /\ posted \in [Ends -> 0..MaxRecvWr] /\ sends \in [Ends -> Nat]
  /\ cq \in [Ends -> Seq({"recv", "send", "error"})]
  /\ poller \in [Ends -> {"poll", "first", "handle", "send", "ended"}]
  /\ remote_buffer \in [Ends -> Contents] /\ local_buffer \in [Ends -> Contents]
  /\ mr_sent_ \in [Objects -> BOOLEAN] /\ mr_received_ \in [Objects -> BOOLEAN]
  /\ peer_mr \in [Ends -> Contents] /\ mr_refused \in [Ends -> BOOLEAN]
  /\ answers \in 0..MaxAnswers

\* As long as a connection is up, each of its ends has a receive posted or a
\* completion on its way through OnWorkCompletion that will post one, unless its
\* poller has ended: a peer's send is never retried for ever.
ReceiveReady ==
  \A e \in Ends : link[e[1]] = "up" =>
    posted[e] > 0 \/ cq[e] # <<>> \/ poller[e] # "poll"

\* Nothing leaves an end before it knows that it is connected, whichever of its
\* threads sends first.
SentConnected == \A e \in Ends : sends[e] > 0 => connected[e]

\* The first message of a connection is the mr, and peer_mr a copy of it.
FirstMessageIsMr == \A e \in Ends : peer_mr[e] \in {"none", "mr"}

\* Both ends of a connection get as far as to have received something, unless it
\* breaks, a process ends, the peer's SendMr returned an error, which its peer
\* does not learn, or the poller of the end has ended.
Exchanged ==
  \A e \in Ends :
    [](link[e[1]] = "up" =>
         <>(\/ mr_received_[Owner(e)] \/ link[e[1]] = "down"
            \/ mr_refused[Peer(e)] \/ poller[e] = "ended"))

\* A poller that spins until its end is connected does not spin for ever.
SpinEnds ==
  \A e \in Ends :
    [](poller[e] = "send" => <>(poller[e] = "poll" \/ ~alive[Owner(e)]))
=============================================================================
