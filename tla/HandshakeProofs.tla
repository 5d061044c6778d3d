--------------------------- MODULE HandshakeProofs ---------------------------
(***************************************************************************)
(* Proofs about the messages of the launch, as long as no client has       *)
(* stored under "shard_id": which receive meets which send, that none is   *)
(* left over, which rank becomes the proxy and what it knows of the        *)
(* shards.  They rest on the invariants of LauncherProofs and on an        *)
(* invariant that says, for every rank, what its channel to rank 0 holds,  *)
(* given how far both have come.                                           *)
(***************************************************************************)
EXTENDS LauncherProofs

\* The groups of variables in the UNCHANGED conjuncts are always expanded.
USE DEF kept, ids, election, results, mpi

-----------------------------------------------------------------------------
(* The inductive invariant. *)

Others == Ranks \ {0}

\* Rank 0 has not taken the message of rank r with its shard id, with the
\* outcome of its Put, with the size of its address, with its address.
NoIdYet(r) ==
  \/ pc[0] \in {"OpenDb", "GetShardId", "ShakeHands"}
  \/ pc[0] = "RecvShardIds" /\ next[0] <= r
NoSavedYet(r) ==
  pc[0] = "SaveShardId" \/ (pc[0] = "RecvSaved" /\ next[0] <= r)
NoSizeYet(r) ==
  \/ pc[0] = "ResolveIp"
  \/ pc[0] = "RecvIpSizes" /\ next[0] <= r
  \/ pc[0] = "RecvIp" /\ next[0] < r
AwaitsIp(r) == pc[0] = "RecvIp" /\ next[0] = r

\* What rank r has sent to rank 0 and rank 0 has not received, at the steps of
\* ShakeHands and at those of ResolveIpAddresses.
WireShake(r) ==
  LET wire == chan[<<r, 0>>]
  IN /\ pc[r] \in {"OpenDb", "GetShardId", "aborted", "ShakeHands"} =>
          wire = <<>> /\ NoIdYet(r)
     /\ pc[r] = "WaitProxyRank" =>
          IF NoIdYet(r) THEN wire = <<Msg("shard_id", shard_id_[r])>>
          ELSE /\ wire = <<>>
               /\ \/ pc[0] = "RecvShardIds" \/ NoSavedYet(r)
                  \/ pc[0] = "exited" /\ bcast["proxy_rank"] = Failed
     /\ pc[r] \in {"SaveShardId", "SendSaved"} => wire = <<>> /\ NoSavedYet(r)
     /\ pc[r] = "WaitSaved" =>
          IF NoSavedYet(r) THEN wire = <<Msg("saved", save_success[r])>>
          ELSE /\ wire = <<>>
               /\ \/ pc[0] = "RecvSaved" \/ NoSizeYet(r)
                  \/ pc[0] = "exited" /\ bcast["saved"] = 0

WireResolve(r) ==
  LET wire == chan[<<r, 0>>]
  IN /\ pc[r] = "ResolveIp" => wire = <<>> /\ NoSizeYet(r)
     /\ pc[r] = "SendIp" =>
          IF NoSizeYet(r) THEN wire = <<Msg("ip_size", 1)>>
          ELSE wire = <<>> /\ AwaitsIp(r)
     /\ pc[r] = "WaitResolved" =>
          IF NoSizeYet(r)
          THEN wire \in {<<Msg("ip_size", Failed)>>,
                         <<Msg("ip_size", 1), Msg("ip", r)>>}
          ELSE IF AwaitsIp(r) THEN wire = <<Msg("ip", r)>>
          ELSE wire = <<>>
     /\ Settled(r) => wire = <<>>

Wires == \A r \in Others : WireShake(r) /\ WireResolve(r)

\* Only rank 0 is sent messages, by the other ranks.
Quiet == \A p \in Ranks \X Ranks : p[1] = 0 \/ p[2] # 0 => chan[p] = <<>>

\* Every rank that has an id has its own rank as its id, so that rank 0 is the
\* one that can be elected, and id_to_rank the identity.
OwnIds == \A r \in Ranks : shard_id_[r] \in {r, Failed}

Elected ==
  /\ bcast["proxy_rank"] \in {0, Failed, NotSent}
  /\ pc[0] = "RecvShardIds" /\ proxy_rank_[0] # Failed =>
       /\ proxy_rank_[0] = 0
       /\ \A i \in 1..(WorldSize - 1) : i < next[0] => id_to_rank[0][i] = i
  /\ bcast["proxy_rank"] = 0 =>
       \A i \in 1..(WorldSize - 1) : id_to_rank[0][i] = i
  /\ pc[0] \notin {"SendSaved", "WaitSaved", "SendIp", "WaitResolved"}

\* The addresses rank 0 has received so far: that of rank i at position i.
InOrder(n) ==
  /\ Len(ip_addresses_[0]) = n
  /\ \A i \in 1..n : ip_addresses_[0][i] = i

Addresses ==
  /\ pc[0] \in Electing \cup Saving \cup {"ResolveIp"} => InOrder(0)
  /\ pc[0] \in {"RecvIpSizes", "RecvIp"} /\ ip_success[0] # 0 =>
       InOrder(next[0] - 1)
  /\ pc[0] \in Serving => InOrder(WorldSize - 1)

\* The role of a rank follows its id.
Roles == \A r \in Ranks : pc[r] \in Serving => pc[r] = Main(r)

Shaken == OwnIds /\ Elected /\ Quiet /\ Wires /\ Addresses /\ Roles

HandshakeInv == DbInv /\ OwnId /\ (~tampered => Shaken)
-----------------------------------------------------------------------------
(* Steps of the ranks that send. *)

\* What happens to a channel that holds at most two messages.
LEMMA WireFacts ==
  \A a, b : /\ Append(<<>>, a) = <<a>> /\ Append(<<a>>, b) = <<a, b>>
            /\ Head(<<a>>) = a /\ Head(<<a, b>>) = a
            /\ Tail(<<a>>) = <<>> /\ Tail(<<a, b>>) = <<b>>
            /\ <<a>> # <<>> /\ <<a, b>> # <<>>
<1> TAKE a, b
<1>1. Append(<<>>, a) = <<a>>
  OBVIOUS
<1>2. Append(<<a>>, b) = <<a, b>>
  <2> DEFINE s == Append(<<a>>, b)
  <2>1. <<a>> \in Seq({a, b}) /\ Len(<<a>>) = 1 /\ <<a>>[1] = a
    OBVIOUS
  <2>2. s \in Seq({a, b}) /\ Len(s) = 2 /\ s[1] = a /\ s[2] = b
    BY <2>1
  <2>3. <<a, b>> \in Seq({a, b}) /\ Len(<<a, b>>) = 2
    OBVIOUS
  <2> HIDE DEF s
  <2>4. \A i \in 1..2 : s[i] = <<a, b>>[i]
    BY <2>2
  <2>5. s = <<a, b>>
    BY <2>2, <2>3, <2>4
  <2> QED BY <2>5 DEF s
<1>3. Head(<<a>>) = a /\ Head(<<a, b>>) = a
  OBVIOUS
<1>4. Tail(<<a>>) = <<>>
  OBVIOUS
<1>5. Tail(<<a, b>>) = <<b>>
  OBVIOUS
<1>6. <<a>> # <<>> /\ <<a, b>> # <<>>
  OBVIOUS
<1> QED BY <1>1, <1>2, <1>3, <1>4, <1>5, <1>6

\* Kind and value of a message, and messages that cannot be taken for others.
LEMMA MsgFacts ==
  \A k, v : Msg(k, v).kind = k /\ Msg(k, v).val = v
BY DEF Msg

\* The other ranks are numbers from 1 on, as are the positions of the loops.
LEMMA OtherFacts ==
  /\ \A r \in Others : /\ r \in Ranks /\ r # 0 /\ r \in 1..(WorldSize - 1)
                       /\ r \in Int /\ 1 <= r /\ r < WorldSize
  /\ \A i \in 1..(WorldSize - 1) : i \in Others
  /\ 0 \in Ranks /\ 0 # Failed /\ NotSent # 0 /\ NotSent # Failed
BY WorldSizeAssumption, SentinelAssumption DEF Others, Ranks, Failed

\* Once a rank is past the election, all of them know that rank 0 is the proxy.
LEMMA ProxyIsZero ==
  ASSUME HandshakeInv, ~tampered, NEW r \in Ranks,
         pc[r] \in Saving \cup Resolving \cup Serving
  PROVE  /\ proxy_rank_[r] = 0 /\ bcast["proxy_rank"] = 0
         /\ pc[0] \notin Electing
         /\ \A i \in 1..(WorldSize - 1) : id_to_rank[0][i] = i
<1>1. proxy_rank_[r] = 0 /\ bcast["proxy_rank"] = 0
  BY OtherFacts, RankFacts DEF HandshakeInv, DbInv, Inv, Obeyed, Shaken, Elected
<1> QED BY <1>1, OtherFacts DEF HandshakeInv, DbInv, Inv, Roots, Shaken, Elected

\* Rank r takes a step that concerns only its own variables and its channel to
\* rank 0.
OwnStep(r) ==
  /\ next'[0] = next[0] /\ bcast' = bcast
  /\ \A p \in Ranks \X Ranks : p # <<r, 0>> => chan'[p] = chan[p]
  /\ \A q \in Ranks \ {r} :
       /\ pc'[q] = pc[q] /\ shard_id_'[q] = shard_id_[q]
       /\ save_success'[q] = save_success[q]
  /\ proxy_rank_'[0] = proxy_rank_[0] /\ id_to_rank' = id_to_rank
  /\ ip_addresses_' = ip_addresses_ /\ ip_success'[0] = ip_success[0]

\* Such a step leaves what is known of the other channels and of rank 0.
LEMMA OtherStep ==
  ASSUME TypeOK, Shaken, NEW r \in Others, OwnStep(r),
         shard_id_'[r] \in {r, Failed},
         pc'[r] \in Serving => pc'[r] = Main(r)',
         WireShake(r)', WireResolve(r)'
  PROVE  Shaken'
<1>1. /\ pc'[0] = pc[0] /\ 0 \in Ranks /\ 0 # r
      /\ \A q \in Ranks \ {r} : pc'[q] = pc[q]
  BY OtherFacts DEF TypeOK, OwnStep
<1> USE DEF OwnStep
<1>2. OwnIds'
  BY DEF Shaken, OwnIds
<1>3. Elected'
  BY <1>1 DEF Shaken, Elected
<1>4. Quiet'
  BY <1>1 DEF Shaken, Quiet
<1>5. Addresses'
  BY <1>1 DEF Shaken, Addresses, InOrder
<1>6. Roles'
  BY <1>1 DEF Shaken, Roles, Main
<1>7. ASSUME NEW q \in Others, q # r PROVE WireShake(q)' /\ WireResolve(q)'
  <2>1. /\ q \in Ranks /\ pc'[q] = pc[q] /\ chan'[<<q, 0>>] = chan[<<q, 0>>]
        /\ shard_id_'[q] = shard_id_[q] /\ save_success'[q] = save_success[q]
    BY <1>1, <1>7, OtherFacts
  <2>2. WireShake(q) /\ WireResolve(q)
    BY DEF Shaken, Wires
  <2> QED
    BY <1>1, <2>1, <2>2 DEF WireShake, WireResolve, NoIdYet, NoSavedYet,
       NoSizeYet, AwaitsIp, Settled
<1>8. Wires'
  BY <1>7 DEF Wires
<1> QED BY <1>2, <1>3, <1>4, <1>5, <1>6, <1>8 DEF Shaken

\* A step of a rank that sends leaves its channel as the invariant says.
LEMMA SenderSteps ==
  ASSUME HandshakeInv, ~tampered, NEW r \in Others,
         \/ OpenDb(r) \/ GetShardId(r) \/ SendShardId(r) \/ WaitProxyRank(r)
         \/ SaveShardId(r) \/ SendSaved(r) \/ WaitSaved(r)
         \/ SendIpSize(r) \/ SendIp(r) \/ WaitResolved(r)
  PROVE  Shaken'
<1> DEFINE wire == chan[<<r, 0>>]
<1>0. /\ TypeOK /\ Shaken /\ Inv /\ WireShake(r) /\ WireResolve(r)
      /\ r \in Ranks /\ r # 0 /\ 0 \in Ranks /\ <<r, 0>> \in Ranks \X Ranks
      /\ shard_id_[r] \in {r, Failed} /\ r # Failed
  BY OtherFacts, RankFacts
  DEF HandshakeInv, DbInv, Inv, TypeInv, Shaken, Wires, OwnIds
<1>a. ASSUME OwnStep(r), pc'[r] \notin Serving, shard_id_' = shard_id_,
             WireShake(r)', WireResolve(r)'
      PROVE  Shaken'
  BY <1>0, <1>a, OtherStep
<1>1. CASE OpenDb(r)
  <2>1. /\ OwnStep(r) /\ shard_id_' = shard_id_ /\ chan' = chan
        /\ pc[r] = "OpenDb" /\ pc'[r] = "GetShardId" /\ pc'[0] = pc[0]
    BY <1>0, <1>1 DEF OpenDb, Goto, OwnStep, TypeOK
  <2>2. WireShake(r)' /\ WireResolve(r)'
    BY <1>0, <2>1
    DEF OwnStep, WireShake, WireResolve, NoIdYet, Settled, Serving
  <2> QED BY <1>a, <2>1, <2>2 DEF Serving
<1>2. CASE GetShardId(r)
  <2>1. /\ shard_id_'[r] \in {r, Failed}
        /\ \A q \in Ranks \ {r} : shard_id_'[q] = shard_id_[q]
    BY <1>0, <1>2, RankFacts DEF GetShardId, ReadIds, HandshakeInv, OwnId, TypeOK
  <2>2. /\ OwnStep(r) /\ chan' = chan
        /\ pc[r] = "GetShardId" /\ pc'[r] = "ShakeHands" /\ pc'[0] = pc[0]
    BY <1>0, <1>2, <2>1 DEF GetShardId, Goto, OwnStep, TypeOK
  <2>3. WireShake(r)' /\ WireResolve(r)'
    BY <1>0, <2>2
    DEF OwnStep, WireShake, WireResolve, NoIdYet, Settled, Serving
  <2> QED BY <1>0, <2>1, <2>2, <2>3, OtherStep DEF Serving
<1>3. CASE SendShardId(r)
  <2>1. pc[r] = "ShakeHands" /\ wire = <<>> /\ NoIdYet(r)
    BY <1>0, <1>3 DEF SendShardId, WireShake
  <2>2. /\ chan'[<<r, 0>>] = Append(wire, Msg("shard_id", shard_id_[r]))
        /\ \A p \in Ranks \X Ranks : p # <<r, 0>> => chan'[p] = chan[p]
    BY <1>0, <1>3 DEF SendShardId, Send, TypeOK
  <2>3. /\ OwnStep(r) /\ shard_id_' = shard_id_
        /\ pc'[r] = "WaitProxyRank" /\ pc'[0] = pc[0]
    BY <1>0, <1>3, <2>2 DEF SendShardId, Goto, OwnStep, TypeOK
  <2>4. chan'[<<r, 0>>] = <<Msg("shard_id", shard_id_[r])>>
    BY <2>1, <2>2, WireFacts
  <2>5. WireShake(r)' /\ WireResolve(r)'
    BY <1>0, <2>1, <2>3, <2>4
    DEF OwnStep, WireShake, WireResolve, NoIdYet, Settled, Serving
  <2> QED BY <1>a, <2>3, <2>5 DEF Serving
<1>4. CASE WaitProxyRank(r)
  <2>1. /\ OwnStep(r) /\ shard_id_' = shard_id_ /\ chan' = chan
        /\ pc[r] = "WaitProxyRank" /\ pc'[0] = pc[0]
        /\ pc'[r] = IF bcast["proxy_rank"] = Failed THEN "exited" ELSE "SaveShardId"
        /\ bcast["proxy_rank"] # NotSent
    BY <1>0, <1>4 DEF WaitProxyRank, AfterElection, Goto, OwnStep, TypeOK
  <2>2. pc[0] \notin Electing
    BY <1>0, <2>1 DEF Inv, Roots
  <2>3. wire = <<>> /\ (NoSavedYet(r) \/ bcast["proxy_rank"] = Failed)
    BY <1>0, <2>1, <2>2 DEF WireShake, NoIdYet, Electing
  <2>4. WireShake(r)' /\ WireResolve(r)'
    BY <1>0, <2>1, <2>3
    DEF OwnStep, WireShake, WireResolve, NoSavedYet, Settled, Serving
  <2> QED BY <1>a, <2>1, <2>4 DEF Serving
<1>5. CASE SaveShardId(r)
  <2>1. pc[r] = "SaveShardId" /\ proxy_rank_[r] = 0
    BY <1>0, <1>5, ProxyIsZero DEF SaveShardId, Saving
  <2>2. \A q \in Ranks \ {r} :
          save_success'[q] = save_success[q] /\ next'[q] = next[q]
    BY <1>0, <1>5 DEF SaveShardId, TypeOK
  <2>3. /\ OwnStep(r) /\ shard_id_' = shard_id_ /\ chan' = chan
        /\ pc'[r] = "SendSaved" /\ pc'[0] = pc[0]
    BY <1>0, <1>5, <2>1, <2>2 DEF SaveShardId, Goto, OwnStep, TypeOK
  <2>4. WireShake(r)' /\ WireResolve(r)'
    BY <1>0, <2>1, <2>3
    DEF OwnStep, WireShake, WireResolve, NoSavedYet, Settled, Serving
  <2> QED BY <1>a, <2>3, <2>4 DEF Serving
<1>6. CASE SendSaved(r)
  <2>1. /\ pc[r] = "SendSaved" /\ wire = <<>> /\ NoSavedYet(r)
        /\ proxy_rank_[r] = 0
    BY <1>0, <1>6, ProxyIsZero DEF SendSaved, WireShake, Saving
  <2>2. /\ chan'[<<r, 0>>] = Append(wire, Msg("saved", save_success[r]))
        /\ \A p \in Ranks \X Ranks : p # <<r, 0>> => chan'[p] = chan[p]
    BY <1>0, <1>6, <2>1 DEF SendSaved, Send, TypeOK
  <2>3. /\ OwnStep(r) /\ shard_id_' = shard_id_ /\ save_success' = save_success
        /\ pc'[r] = "WaitSaved" /\ pc'[0] = pc[0]
    BY <1>0, <1>6, <2>2 DEF SendSaved, Goto, OwnStep, TypeOK
  <2>4. chan'[<<r, 0>>] = <<Msg("saved", save_success[r])>>
    BY <2>1, <2>2, WireFacts
  <2>5. WireShake(r)' /\ WireResolve(r)'
    BY <1>0, <2>1, <2>3, <2>4
    DEF OwnStep, WireShake, WireResolve, NoSavedYet, Settled, Serving
  <2> QED BY <1>a, <2>3, <2>5 DEF Serving
<1>7. CASE WaitSaved(r)
  <2>1. \A q \in Ranks \ {r} :
          save_success'[q] = save_success[q] /\ proxy_rank_'[q] = proxy_rank_[q]
    BY <1>0, <1>7 DEF WaitSaved, AfterSave, TypeOK
  <2>2. /\ OwnStep(r) /\ shard_id_' = shard_id_ /\ chan' = chan
        /\ pc[r] = "WaitSaved" /\ pc'[0] = pc[0] /\ bcast["saved"] # NotSent
        /\ pc'[r] = IF bcast["saved"] = 0 THEN "exited" ELSE "ResolveIp"
    BY <1>0, <1>7, <2>1 DEF WaitSaved, AfterSave, Goto, OwnStep, TypeOK
  <2>3. pc[0] \notin Electing \cup Saving
    BY <1>0, <2>2, ProxyIsZero DEF Inv, Roots, Saving
  <2>4. wire = <<>> /\ (NoSizeYet(r) \/ bcast["saved"] = 0)
    BY <1>0, <2>2, <2>3 DEF WireShake, NoSavedYet, Saving
  <2>5. WireShake(r)' /\ WireResolve(r)'
    BY <1>0, <2>2, <2>4
    DEF OwnStep, WireShake, WireResolve, NoSizeYet, Settled, Serving
  <2> QED BY <1>a, <2>2, <2>5 DEF Serving
<1>8. CASE SendIpSize(r)
  <2>1. pc[r] = "ResolveIp" /\ wire = <<>> /\ NoSizeYet(r) /\ proxy_rank_[r] = 0
    BY <1>0, <1>8, ProxyIsZero DEF SendIpSize, WireResolve, Resolving
  <2>2. PICK found \in BOOLEAN :
          /\ Send(r, 0, "ip_size", IF found THEN 1 ELSE Failed)
          /\ pc' = [pc EXCEPT ![r] = IF found THEN "SendIp" ELSE "WaitResolved"]
    BY <1>8, <2>1 DEF SendIpSize, Goto
  <2>3. /\ chan'[<<r, 0>>] = Append(wire, Msg("ip_size", IF found THEN 1 ELSE Failed))
        /\ \A p \in Ranks \X Ranks : p # <<r, 0>> => chan'[p] = chan[p]
    BY <1>0, <2>2 DEF Send, TypeOK
  <2>4. /\ pc'[r] = IF found THEN "SendIp" ELSE "WaitResolved"
        /\ \A q \in Ranks \ {r} : pc'[q] = pc[q]
    BY <1>0, <2>2 DEF TypeOK
  <2>5. OwnStep(r) /\ shard_id_' = shard_id_
    BY <1>0, <1>8, <2>3, <2>4 DEF SendIpSize, OwnStep
  <2>6. chan'[<<r, 0>>] = <<Msg("ip_size", IF found THEN 1 ELSE Failed)>>
    BY <2>1, <2>3, WireFacts
  <2>7. WireShake(r)' /\ WireResolve(r)'
    BY <1>0, <2>1, <2>4, <2>5, <2>6
    DEF OwnStep, WireShake, WireResolve, NoSizeYet, Settled, Serving
  <2> QED BY <1>a, <2>4, <2>5, <2>7 DEF Serving
<1>9. CASE SendIp(r)
  <2>1. pc[r] = "SendIp" /\ proxy_rank_[r] = 0
    BY <1>0, <1>9, ProxyIsZero DEF SendIp, Resolving
  <2>2. /\ chan'[<<r, 0>>] = Append(wire, Msg("ip", r))
        /\ \A p \in Ranks \X Ranks : p # <<r, 0>> => chan'[p] = chan[p]
    BY <1>0, <1>9, <2>1 DEF SendIp, Send, TypeOK
  <2>3. /\ OwnStep(r) /\ shard_id_' = shard_id_
        /\ pc'[r] = "WaitResolved" /\ pc'[0] = pc[0]
    BY <1>0, <1>9, <2>2 DEF SendIp, Goto, OwnStep, TypeOK
  <2>4. IF NoSizeYet(r)
        THEN chan'[<<r, 0>>] = <<Msg("ip_size", 1), Msg("ip", r)>>
        ELSE chan'[<<r, 0>>] = <<Msg("ip", r)>> /\ AwaitsIp(r)
    <3>1. Append(<<Msg("ip_size", 1)>>, Msg("ip", r)) =
            <<Msg("ip_size", 1), Msg("ip", r)>>
      BY WireFacts
    <3>2. Append(<<>>, Msg("ip", r)) = <<Msg("ip", r)>>
      BY WireFacts
    <3> QED BY <1>0, <2>1, <2>2, <3>1, <3>2 DEF WireResolve
  <2>5. WireShake(r)' /\ WireResolve(r)'
    BY <1>0, <2>1, <2>3, <2>4
    DEF OwnStep, WireShake, WireResolve, NoSizeYet, AwaitsIp, Settled, Serving
  <2> QED BY <1>a, <2>3, <2>5 DEF Serving
<1>10. CASE WaitResolved(r)
  <2>1. pc[r] = "WaitResolved" /\ bcast["resolved"] # NotSent
    BY <1>10 DEF WaitResolved
  <2>2. /\ pc'[r] = IF bcast["resolved"] = 0 THEN "exited" ELSE Main(r)
        /\ \A q \in Ranks \ {r} : pc'[q] = pc[q] /\ ip_success'[q] = ip_success[q]
    BY <1>0, <1>10 DEF WaitResolved, AfterResolve, Goto, TypeOK
  <2>3. /\ shard_id_' = shard_id_ /\ chan' = chan /\ pc'[0] = pc[0]
        /\ Main(r)' = Main(r)
    BY <1>0, <1>10, <2>2 DEF WaitResolved, Main
  <2>a. /\ pc'[r] \in Serving \cup {"exited"}
        /\ pc'[r] \in Serving => pc'[r] = Main(r)'
    BY <2>2, <2>3 DEF Main, Serving
  <2>4. OwnStep(r)
    BY <1>0, <1>10, <2>2 DEF WaitResolved, OwnStep
  <2>5. pc[0] \notin Electing \cup Saving \cup Resolving
    BY <1>0, <2>1, ProxyIsZero DEF Inv, Roots, Resolving
  <2>6. wire = <<>>
    BY <1>0, <2>1, <2>5 DEF WireResolve, NoSizeYet, AwaitsIp, Resolving
  <2>7. WireShake(r)' /\ WireResolve(r)'
    BY <1>0, <2>3, <2>6, <2>a DEF WireShake, WireResolve, Serving
  <2> QED BY <1>0, <2>3, <2>a, <2>4, <2>7, OtherStep
<1> QED
  BY <1>1, <1>2, <1>3, <1>4, <1>5, <1>6, <1>7, <1>8, <1>9, <1>10

-----------------------------------------------------------------------------
(* Steps of rank 0, which receives. *)

\* MPI matches messages by their order alone, but what rank 0 finds at the head
\* of the channel it receives from was sent for that receive.
LEMMA Met ==
  ASSUME HandshakeInv, ~tampered, NEW n, n = next[0], n < WorldSize
  PROVE  /\ n \in Others
         /\ chan[<<n, 0>>] # <<>> =>
              /\ pc[0] = "RecvShardIds" =>
                   /\ pc[n] = "WaitProxyRank"
                   /\ chan[<<n, 0>>] = <<Msg("shard_id", shard_id_[n])>>
              /\ pc[0] = "RecvSaved" =>
                   /\ pc[n] = "WaitSaved"
                   /\ chan[<<n, 0>>] = <<Msg("saved", save_success[n])>>
              /\ pc[0] = "RecvIpSizes" =>
                   \/ pc[n] = "SendIp" /\ chan[<<n, 0>>] = <<Msg("ip_size", 1)>>
                   \/ /\ pc[n] = "WaitResolved"
                      /\ chan[<<n, 0>>] \in {<<Msg("ip_size", Failed)>>,
                                           <<Msg("ip_size", 1), Msg("ip", n)>>}
              /\ pc[0] = "RecvIp" =>
                   pc[n] = "WaitResolved" /\ chan[<<n, 0>>] = <<Msg("ip", n)>>
<1>1. TypeOK /\ Shaken
  BY DEF HandshakeInv, DbInv, Inv, TypeInv
<1>2. n \in Others /\ n \in Int
  BY <1>1, RankFacts, OtherFacts DEF TypeOK
<1>3. WireShake(n) /\ WireResolve(n)
  BY <1>1, <1>2 DEF Shaken, Wires
<1>4. pc[n] \in Labels \ {"RecvShardIds", "RecvSaved", "RecvIpSizes", "RecvIp"}
  BY <1>1, <1>2, OtherFacts, ProxyIsZero
  DEF TypeOK, HandshakeInv, DbInv, Inv, Roots, Saving, Resolving
<1> HIDE DEF Msg
<1>5. ASSUME chan[<<n, 0>>] # <<>>, pc[0] = "RecvShardIds"
      PROVE  /\ pc[n] = "WaitProxyRank"
             /\ chan[<<n, 0>>] = <<Msg("shard_id", shard_id_[n])>>
  <2>1. NoIdYet(n) /\ ~NoSavedYet(n) /\ ~NoSizeYet(n) /\ ~AwaitsIp(n)
    BY <1>2, <1>5 DEF NoIdYet, NoSavedYet, NoSizeYet, AwaitsIp
  <2> QED BY <1>3, <1>4, <1>5, <2>1
    DEF WireShake, WireResolve, Settled, Labels
<1>6. ASSUME chan[<<n, 0>>] # <<>>, pc[0] = "RecvSaved"
      PROVE  /\ pc[n] = "WaitSaved"
             /\ chan[<<n, 0>>] = <<Msg("saved", save_success[n])>>
  <2>1. ~NoIdYet(n) /\ NoSavedYet(n) /\ ~NoSizeYet(n) /\ ~AwaitsIp(n)
    BY <1>2, <1>6 DEF NoIdYet, NoSavedYet, NoSizeYet, AwaitsIp
  <2> QED BY <1>3, <1>4, <1>6, <2>1
    DEF WireShake, WireResolve, Settled, Labels
<1>7. ASSUME chan[<<n, 0>>] # <<>>, pc[0] = "RecvIpSizes"
      PROVE  \/ pc[n] = "SendIp" /\ chan[<<n, 0>>] = <<Msg("ip_size", 1)>>
             \/ /\ pc[n] = "WaitResolved"
                /\ chan[<<n, 0>>] \in {<<Msg("ip_size", Failed)>>,
                                     <<Msg("ip_size", 1), Msg("ip", n)>>}
  <2>1. ~NoIdYet(n) /\ ~NoSavedYet(n) /\ NoSizeYet(n) /\ ~AwaitsIp(n)
    BY <1>2, <1>7 DEF NoIdYet, NoSavedYet, NoSizeYet, AwaitsIp
  <2> QED BY <1>3, <1>4, <1>7, <2>1
    DEF WireShake, WireResolve, Settled, Labels
<1>8. ASSUME chan[<<n, 0>>] # <<>>, pc[0] = "RecvIp"
      PROVE  pc[n] = "WaitResolved" /\ chan[<<n, 0>>] = <<Msg("ip", n)>>
  <2>1. ~NoIdYet(n) /\ ~NoSavedYet(n) /\ ~NoSizeYet(n) /\ AwaitsIp(n)
    BY <1>2, <1>8 DEF NoIdYet, NoSavedYet, NoSizeYet, AwaitsIp
  <2> QED BY <1>3, <1>4, <1>8, <2>1
    DEF WireShake, WireResolve, Settled, Labels
<1> QED BY <1>2, <1>5, <1>6, <1>7, <1>8

\* Rank 0 takes a step and receives nothing, or the head of rank n's channel.
ZeroStep ==
  \A q \in Others :
    /\ pc'[q] = pc[q] /\ shard_id_'[q] = shard_id_[q]
    /\ save_success'[q] = save_success[q]

Takes(n) ==
  /\ chan[<<n, 0>>] # <<>>
  /\ chan' = [chan EXCEPT ![<<n, 0>>] = Tail(@)]

\* What is left to show of a step of rank 0, once the channels are in order.
LEMMA ZeroDone ==
  ASSUME TypeOK, Shaken, ZeroStep, shard_id_'[0] \in {0, Failed},
         chan' = chan \/ \E n \in Others : Takes(n),
         pc'[0] \in Serving => pc'[0] = Main(0)',
         Elected', Wires', Addresses'
  PROVE  Shaken'
<1>1. OwnIds'
  BY OtherFacts DEF Shaken, OwnIds, ZeroStep, Others
<1>2. Quiet'
  <2>1. CASE chan' = chan
    BY <2>1 DEF Shaken, Quiet
  <2>2. CASE \E n \in Others : Takes(n)
    BY <2>2, OtherFacts DEF Shaken, Quiet, Takes, TypeOK
  <2> QED BY <2>1, <2>2
<1>3. Roles'
  BY DEF Shaken, Roles, Main, ZeroStep, Others
<1> QED BY <1>1, <1>2, <1>3 DEF Shaken

\* Rank 0 takes the head of the channel of rank n off, and no other message.
LEMMA TakeFacts ==
  ASSUME TypeOK, NEW n \in Others, Takes(n)
  PROVE  /\ chan'[<<n, 0>>] = Tail(chan[<<n, 0>>])
         /\ \A q \in Others : q # n => chan'[<<q, 0>>] = chan[<<q, 0>>]
BY OtherFacts DEF Takes, TypeOK

\* Rank 0 collects the ids.
LEMMA CollectSteps ==
  ASSUME HandshakeInv, ~tampered,
         OpenDb(0) \/ GetShardId(0) \/ StartCollecting(0) \/ RecvShardId(0)
         \/ BcastProxyRank(0)
  PROVE  Shaken'
<1>0. /\ TypeOK /\ Shaken /\ Inv /\ Elected /\ Wires /\ Addresses
      /\ 0 \in Ranks /\ shard_id_[0] \in {0, Failed}
      /\ \A q \in Others : /\ q \in Ranks /\ q # 0
                           /\ q \in Int /\ 1 <= q /\ q < WorldSize
      /\ next[0] \in 1..WorldSize
  BY OtherFacts, RankFacts
  DEF HandshakeInv, DbInv, Inv, TypeInv, Shaken, OwnIds, TypeOK
<1>1. CASE OpenDb(0)
  <2>1. /\ ZeroStep /\ shard_id_' = shard_id_ /\ chan' = chan /\ next' = next
        /\ bcast' = bcast /\ pc[0] = "OpenDb" /\ pc'[0] = "GetShardId"
    BY <1>0, <1>1 DEF OpenDb, Goto, ZeroStep, TypeOK
  <2>2. Wires'
    <3> SUFFICES ASSUME NEW q \in Others PROVE WireShake(q)' /\ WireResolve(q)'
      BY DEF Wires
    <3>1. WireShake(q) /\ WireResolve(q) /\ pc'[q] = pc[q]
      BY <1>0, <2>1 DEF Wires, ZeroStep
    <3> QED BY <1>0, <2>1, <3>1 DEF ZeroStep, WireShake, WireResolve, NoIdYet,
         NoSavedYet, NoSizeYet, AwaitsIp, Settled
  <2>3. Elected'
    BY <1>0, <1>1, <2>1 DEF OpenDb, Elected
  <2>4. Addresses'
    BY <1>0, <1>1, <2>1 DEF OpenDb, Addresses, InOrder, Electing, Saving, Serving
  <2> QED BY <1>0, <2>1, <2>2, <2>3, <2>4, ZeroDone DEF Serving
<1>2. CASE GetShardId(0)
  <2>1. shard_id_'[0] \in {0, Failed}
    BY <1>0, <1>2, RankFacts DEF GetShardId, ReadIds, HandshakeInv, OwnId, TypeOK
  <2>2. /\ ZeroStep /\ chan' = chan /\ next' = next
        /\ bcast' = bcast /\ pc[0] = "GetShardId" /\ pc'[0] = "ShakeHands"
    BY <1>0, <1>2 DEF GetShardId, Goto, ZeroStep, TypeOK
  <2>3. Wires'
    <3> SUFFICES ASSUME NEW q \in Others PROVE WireShake(q)' /\ WireResolve(q)'
      BY DEF Wires
    <3>1. WireShake(q) /\ WireResolve(q) /\ pc'[q] = pc[q]
      BY <1>0, <2>2 DEF Wires, ZeroStep
    <3> QED BY <1>0, <2>2, <3>1 DEF ZeroStep, WireShake, WireResolve, NoIdYet,
         NoSavedYet, NoSizeYet, AwaitsIp, Settled
  <2>4. Elected'
    BY <1>0, <1>2, <2>2 DEF GetShardId, Elected
  <2>5. Addresses'
    BY <1>0, <1>2, <2>2
    DEF GetShardId, Addresses, InOrder, Electing, Saving, Serving
  <2> QED BY <1>0, <2>1, <2>2, <2>3, <2>4, <2>5, ZeroDone DEF Serving
<1>3. CASE StartCollecting(0)
  <2>1. /\ ZeroStep /\ shard_id_' = shard_id_ /\ chan' = chan /\ next' = next
        /\ bcast' = bcast /\ pc[0] = "ShakeHands" /\ pc'[0] = "RecvShardIds"
    BY <1>0, <1>3 DEF StartCollecting, Goto, ZeroStep, TypeOK
  <2>2. next[0] = 1
    BY <2>1 DEF HandshakeInv, DbInv, Reports
  <2>3. Wires'
    <3> SUFFICES ASSUME NEW q \in Others PROVE WireShake(q)' /\ WireResolve(q)'
      BY DEF Wires
    <3>1. WireShake(q) /\ WireResolve(q) /\ pc'[q] = pc[q] /\ NoIdYet(q)'
      BY <1>0, <2>1, <2>2 DEF Wires, ZeroStep, NoIdYet
    <3> QED BY <1>0, <2>1, <3>1 DEF ZeroStep, WireShake, WireResolve, NoIdYet,
         NoSavedYet, NoSizeYet, AwaitsIp, Settled
  <2>4. bcast["proxy_rank"] = NotSent
    BY <1>0, <2>1 DEF Inv, Roots, Electing
  <2>5. proxy_rank_'[0] \in {0, Failed}
    BY <1>0, <1>3 DEF StartCollecting, TypeOK
  <2>6. Elected'
    BY <1>0, <2>1, <2>2, <2>4, <2>5, OtherFacts DEF Elected
  <2>7. Addresses'
    BY <1>0, <1>3, <2>1
    DEF StartCollecting, Addresses, InOrder, Electing, Saving, Serving
  <2> QED BY <1>0, <2>1, <2>3, <2>6, <2>7, ZeroDone DEF Serving
<1>4. CASE RecvShardId(0)
  <2>n. PICK n : n = next[0]
    OBVIOUS
  <2> DEFINE id == Received(n, 0)
  <2>1. /\ pc[0] = "RecvShardIds" /\ n < WorldSize /\ Takes(n)
        /\ shard_id_' = shard_id_ /\ bcast' = bcast /\ pc' = pc
        /\ save_success' = save_success
    BY <1>4, <2>n DEF RecvShardId, Recv, Takes
  <2>2. /\ n \in Others /\ pc[n] = "WaitProxyRank"
        /\ chan[<<n, 0>>] = <<Msg("shard_id", shard_id_[n])>>
    BY <2>1, <2>n, Met DEF Takes
  <2>3. id = shard_id_[n] /\ chan'[<<n, 0>>] = <<>>
    <3>1. /\ Head(<<Msg("shard_id", shard_id_[n])>>) = Msg("shard_id", shard_id_[n])
          /\ Tail(<<Msg("shard_id", shard_id_[n])>>) = <<>>
      BY WireFacts
    <3>2. chan'[<<n, 0>>] = Tail(chan[<<n, 0>>])
      BY <1>0, <2>1, <2>2, TakeFacts
    <3> QED BY <2>2, <3>1, <3>2, MsgFacts DEF Received
  <2>4. id \in {n, Failed}
    BY <1>0, <2>2, <2>3 DEF Shaken, OwnIds
  <2>5. /\ next'[0] = n + 1
        /\ proxy_rank_'[0] = Elect(proxy_rank_[0], id, n)
        /\ id_to_rank'[0] = PutRank(id_to_rank[0], id, n)
    BY <1>0, <1>4, <2>n DEF RecvShardId, TypeOK
  <2>6. ASSUME NEW q \in Others PROVE WireShake(q)' /\ WireResolve(q)'
    <3>1. WireShake(q) /\ WireResolve(q) /\ pc'[q] = pc[q] /\ pc'[0] = pc[0]
      BY <1>0, <2>1 DEF Wires
    <3>2. q # n => chan'[<<q, 0>>] = chan[<<q, 0>>]
      BY <1>0, <2>1, <2>2, TakeFacts
    <3>a. q # n => (NoIdYet(q)' <=> NoIdYet(q))
      BY <1>0, <2>1, <2>2, <2>5, <2>n, <3>1 DEF NoIdYet
    <3>3. ~NoIdYet(n)'
      BY <1>0, <2>1, <2>2, <2>5 DEF NoIdYet
    <3> QED BY <1>0, <2>1, <2>2, <2>3, <3>1, <3>2, <3>a, <3>3
      DEF WireShake, WireResolve, NoSavedYet, NoSizeYet, AwaitsIp, Settled, Serving
  <2>7. bcast["proxy_rank"] = NotSent
    BY <1>0, <2>1 DEF Inv, Roots, Electing
  <2>8. Elected'
    <3>1. ASSUME proxy_rank_'[0] # Failed
          PROVE  /\ proxy_rank_'[0] = 0
                 /\ \A i \in 1..(WorldSize - 1) :
                      i < n + 1 => id_to_rank'[0][i] = i
      <4>1. proxy_rank_[0] # Failed /\ id = n /\ n # 0
        BY <1>0, <2>2, <2>4, <2>5, <3>1 DEF Elect
      <4>a. /\ proxy_rank_[0] = 0
            /\ \A i \in 1..(WorldSize - 1) : i < n => id_to_rank[0][i] = i
        BY <1>0, <2>1, <2>n, <4>1 DEF Elected
      <4>2. proxy_rank_'[0] = 0
        BY <2>2, <2>5, <4>1, <4>a, RankFacts, OtherFacts DEF Elect
      <4>3. id_to_rank[0] \in [1..(WorldSize - 1) -> Ranks]
        BY <1>0 DEF TypeOK
      <4>4. \A i \in 1..(WorldSize - 1) :
              id_to_rank'[0][i] = IF i = n THEN n ELSE id_to_rank[0][i]
        BY <2>5, <4>1, <4>3 DEF PutRank
      <4> QED BY <1>0, <2>2, <4>2, <4>a, <4>4
    <3> QED BY <1>0, <2>1, <2>5, <2>7, <3>1, OtherFacts DEF Elected
  <2>9. Addresses'
    BY <1>0, <1>4, <2>1
    DEF RecvShardId, Addresses, InOrder, Electing, Saving, Serving
  <2>10. ZeroStep /\ Wires'
    BY <2>1, <2>6 DEF ZeroStep, Wires
  <2> QED BY <1>0, <2>1, <2>2, <2>8, <2>9, <2>10, ZeroDone DEF Serving
<1>5. CASE BcastProxyRank(0)
  <2>1. /\ ZeroStep /\ shard_id_' = shard_id_ /\ chan' = chan
        /\ pc[0] = "RecvShardIds" /\ next[0] = WorldSize /\ next' = next
        /\ pc'[0] = IF proxy_rank_[0] = Failed THEN "exited" ELSE "SaveShardId"
        /\ proxy_rank_' = proxy_rank_ /\ id_to_rank' = id_to_rank
        /\ ip_addresses_' = ip_addresses_
    BY <1>0, <1>5 DEF BcastProxyRank, AfterElection, Goto, ZeroStep, TypeOK
  <2>2. bcast'["proxy_rank"] = proxy_rank_[0] /\ bcast["proxy_rank"] = NotSent
    BY <1>0, <1>5 DEF BcastProxyRank, Bcast, TypeOK, Inv, Roots, Electing, Bcasts
  <2>3. ASSUME NEW q \in Others PROVE WireShake(q)' /\ WireResolve(q)'
    <3>1. WireShake(q) /\ WireResolve(q) /\ pc'[q] = pc[q] /\ ~NoIdYet(q)
      BY <1>0, <2>1, RankFacts DEF Wires, ZeroStep, NoIdYet, Ranks
    <3>2. pc[q] \notin Saving \cup Resolving \cup Serving
      BY <1>0, <2>2, Phases DEF Inv, Obeyed
    <3> QED BY <1>0, <2>1, <2>2, <3>1, <3>2
      DEF WireShake, WireResolve, NoIdYet, NoSavedYet, Settled, Saving, Resolving
  <2>4. Elected'
    <3>1. /\ proxy_rank_[0] \in {0, Failed}
          /\ proxy_rank_[0] = 0 =>
               \A i \in 1..(WorldSize - 1) : id_to_rank[0][i] = i
      BY <1>0, <2>1, OtherFacts DEF Elected
    <3> QED BY <1>0, <2>1, <2>2, <3>1 DEF Elected
  <2>5. Addresses'
    BY <1>0, <2>1 DEF Addresses, InOrder, Electing, Saving, Serving
  <2>6. Wires'
    BY <2>3 DEF Wires
  <2> QED BY <1>0, <2>1, <2>4, <2>5, <2>6, ZeroDone DEF Serving
<1> QED BY <1>1, <1>2, <1>3, <1>4, <1>5

\* Rank 0 has its Put done and collects the outcomes of the others.
LEMMA SaveSteps ==
  ASSUME HandshakeInv, ~tampered,
         SaveShardId(0) \/ RecvSaved(0) \/ BcastSaved(0)
  PROVE  Shaken'
<1>0. /\ TypeOK /\ Shaken /\ Inv /\ Elected /\ Wires /\ Addresses
      /\ 0 \in Ranks /\ shard_id_[0] \in {0, Failed}
      /\ \A q \in Others : /\ q \in Ranks /\ q # 0
                           /\ q \in Int /\ 1 <= q /\ q < WorldSize
      /\ next[0] \in 1..WorldSize
  BY OtherFacts, RankFacts
  DEF HandshakeInv, DbInv, Inv, TypeInv, Shaken, OwnIds, TypeOK
<1>1. /\ pc[0] \in {"SaveShardId", "RecvSaved"}
      /\ shard_id_' = shard_id_ /\ ip_addresses_' = ip_addresses_
      /\ id_to_rank' = id_to_rank
  BY DEF SaveShardId, RecvSaved, BcastSaved
<1>2. /\ proxy_rank_[0] = 0 /\ bcast["proxy_rank"] = 0 /\ bcast["saved"] = NotSent
      /\ \A i \in 1..(WorldSize - 1) : id_to_rank[0][i] = i
  BY <1>0, <1>1, ProxyIsZero DEF Inv, Roots, Saving
<1>3. \A q \in Others : pc[q] \notin Resolving \cup Serving
  BY <1>0, <1>2 DEF Inv, Obeyed
<1>4. CASE SaveShardId(0)
  <2>1. /\ ZeroStep /\ chan' = chan /\ bcast' = bcast /\ next'[0] = 1
        /\ pc[0] = "SaveShardId" /\ pc'[0] = "RecvSaved"
    BY <1>0, <1>2, <1>4 DEF SaveShardId, Goto, ZeroStep, TypeOK
  <2>2. Wires'
    <3> SUFFICES ASSUME NEW q \in Others PROVE WireShake(q)' /\ WireResolve(q)'
      BY DEF Wires
    <3>1. WireShake(q) /\ WireResolve(q) /\ pc'[q] = pc[q] /\ NoSavedYet(q)'
      BY <1>0, <2>1 DEF Wires, ZeroStep, NoSavedYet
    <3>2. NoSavedYet(q) /\ ~NoIdYet(q) /\ ~NoIdYet(q)'
      BY <2>1 DEF NoSavedYet, NoIdYet
    <3> QED BY <1>0, <1>1, <1>3, <2>1, <3>1, <3>2
      DEF ZeroStep, WireShake, WireResolve, Settled, Resolving
  <2>3. Elected'
    BY <1>0, <1>1, <1>2, <2>1 DEF Elected
  <2>4. Addresses'
    BY <1>0, <1>1, <2>1 DEF Addresses, InOrder, Electing, Saving, Serving
  <2> QED BY <1>0, <1>1, <2>1, <2>2, <2>3, <2>4, ZeroDone DEF Serving
<1>5. CASE RecvSaved(0)
  <2>n. PICK n : n = next[0]
    OBVIOUS
  <2>1. n < WorldSize /\ pc[0] = "RecvSaved" /\ pc' = pc /\ bcast' = bcast
    BY <1>5, <2>n DEF RecvSaved
  <2>2. n \in Others /\ id_to_rank[0][n] = n
    BY <1>2, <2>1, <2>n, Met, OtherFacts
  <2>3. Takes(n)
    BY <1>5, <2>2, <2>n DEF RecvSaved, Recv, Takes
  <2>4. /\ pc[n] = "WaitSaved"
        /\ chan[<<n, 0>>] = <<Msg("saved", save_success[n])>>
    BY <2>1, <2>3, <2>n, Met DEF Takes
  <2>5. chan'[<<n, 0>>] = <<>>
    <3>1. chan'[<<n, 0>>] = Tail(chan[<<n, 0>>])
      BY <1>0, <2>2, <2>3, TakeFacts
    <3>2. Tail(<<Msg("saved", save_success[n])>>) = <<>>
      BY WireFacts
    <3> QED BY <2>4, <3>1, <3>2
  <2>6. next'[0] = n + 1 /\ ZeroStep
    BY <1>0, <1>5, <2>n DEF RecvSaved, ZeroStep, TypeOK
  <2>7. ASSUME NEW q \in Others PROVE WireShake(q)' /\ WireResolve(q)'
    <3>1. WireShake(q) /\ WireResolve(q) /\ pc'[q] = pc[q] /\ pc'[0] = pc[0]
      BY <1>0, <2>1 DEF Wires
    <3>2. q # n => chan'[<<q, 0>>] = chan[<<q, 0>>]
      BY <1>0, <2>2, <2>3, TakeFacts
    <3>3. q # n => (NoSavedYet(q)' <=> NoSavedYet(q))
      BY <1>0, <2>1, <2>2, <2>6, <2>n, <3>1 DEF NoSavedYet
    <3>4. ~NoSavedYet(n)' /\ ~NoIdYet(q) /\ ~NoIdYet(q)'
      BY <1>0, <2>1, <2>2, <2>6, <3>1 DEF NoSavedYet, NoIdYet
    <3> QED BY <1>0, <1>1, <1>3, <2>1, <2>4, <2>5, <2>6, <3>1, <3>2, <3>3, <3>4
      DEF ZeroStep, WireShake, WireResolve, Settled, Serving, Resolving
  <2>8. Elected'
    BY <1>0, <1>1, <1>2, <2>1 DEF Elected
  <2>9. Addresses'
    BY <1>0, <1>1, <2>1 DEF Addresses, InOrder, Electing, Saving, Serving
  <2>10. Wires'
    BY <2>7 DEF Wires
  <2> QED BY <1>0, <1>1, <2>1, <2>2, <2>3, <2>6, <2>8, <2>9, <2>10, ZeroDone
    DEF Serving
<1>6. CASE BcastSaved(0)
  <2>1. /\ ZeroStep /\ chan' = chan /\ next' = next
        /\ pc[0] = "RecvSaved" /\ next[0] = WorldSize
        /\ pc'[0] = IF save_success[0] = 0 THEN "exited" ELSE "ResolveIp"
    BY <1>0, <1>6 DEF BcastSaved, AfterSave, Goto, ZeroStep, TypeOK
  <2>2. bcast'["saved"] = save_success[0] /\ bcast'["proxy_rank"] = 0
    BY <1>0, <1>2, <1>6 DEF BcastSaved, Bcast, TypeOK, Bcasts
  <2>3. ASSUME NEW q \in Others PROVE WireShake(q)' /\ WireResolve(q)'
    <3>1. /\ WireShake(q) /\ WireResolve(q) /\ pc'[q] = pc[q]
          /\ ~NoIdYet(q) /\ ~NoSavedYet(q)
      BY <1>0, <2>1 DEF Wires, ZeroStep, NoIdYet, NoSavedYet
    <3> QED BY <1>0, <1>1, <1>3, <2>1, <2>2, <3>1
      DEF ZeroStep, WireShake, WireResolve, NoIdYet, NoSavedYet, NoSizeYet,
          Settled, Resolving
  <2>4. Elected'
    BY <1>0, <1>1, <1>2, <2>1, <2>2, OtherFacts DEF Elected
  <2>5. Addresses'
    BY <1>0, <1>1, <2>1 DEF Addresses, InOrder, Electing, Saving, Serving
  <2>6. Wires'
    BY <2>3 DEF Wires
  <2> QED BY <1>0, <1>1, <2>1, <2>4, <2>5, <2>6, ZeroDone DEF Serving
<1> QED BY <1>4, <1>5, <1>6

\* Rank 0 collects the addresses, the one of rank i at position i.
LEMMA ResolveSteps ==
  ASSUME HandshakeInv, ~tampered,
         WriteHostname(0) \/ RecvIpSize(0) \/ RecvIp(0) \/ BcastResolved(0)
  PROVE  Shaken'
<1>0. /\ TypeOK /\ Shaken /\ Inv /\ Elected /\ Wires /\ Addresses
      /\ 0 \in Ranks /\ shard_id_[0] \in {0, Failed}
      /\ \A q \in Others : /\ q \in Ranks /\ q # 0
                           /\ q \in Int /\ 1 <= q /\ q < WorldSize
      /\ next[0] \in 1..WorldSize /\ ip_addresses_[0] \in Seq(Int)
  BY OtherFacts, RankFacts
  DEF HandshakeInv, DbInv, Inv, TypeInv, Shaken, OwnIds, TypeOK
<1>1. /\ pc[0] \in {"ResolveIp", "RecvIpSizes", "RecvIp"}
      /\ shard_id_' = shard_id_ /\ save_success' = save_success
      /\ id_to_rank' = id_to_rank
  BY DEF WriteHostname, RecvIpSize, RecvIp, BcastResolved
<1>2. /\ bcast["proxy_rank"] = 0 /\ bcast["resolved"] = NotSent
      /\ \A i \in 1..(WorldSize - 1) : id_to_rank[0][i] = i
  BY <1>0, <1>1, ProxyIsZero DEF Inv, Roots, Resolving
<1>3. \A q \in Others : pc[q] \notin Serving /\ ~NoIdYet(q) /\ ~NoSavedYet(q)
  BY <1>0, <1>1, <1>2 DEF Inv, Obeyed, NoIdYet, NoSavedYet
<1>4. CASE WriteHostname(0)
  <2>1. /\ ZeroStep /\ chan' = chan /\ bcast' = bcast /\ next'[0] = 1
        /\ pc[0] = "ResolveIp" /\ pc'[0] = "RecvIpSizes"
        /\ ip_addresses_' = ip_addresses_
    BY <1>0, <1>4 DEF WriteHostname, Goto, ZeroStep, TypeOK
  <2>2. ASSUME NEW q \in Others PROVE WireShake(q)' /\ WireResolve(q)'
    <3>1. /\ WireShake(q) /\ WireResolve(q) /\ pc'[q] = pc[q]
          /\ NoSizeYet(q) /\ NoSizeYet(q)' /\ ~NoIdYet(q)' /\ ~NoSavedYet(q)'
      BY <1>0, <2>1 DEF Wires, ZeroStep, NoSizeYet, NoIdYet, NoSavedYet
    <3> QED BY <1>0, <1>1, <1>3, <2>1, <3>1
      DEF ZeroStep, WireShake, WireResolve, Settled
  <2>3. Elected'
    BY <1>0, <1>1, <1>2, <2>1 DEF Elected
  <2>4. Addresses'
    BY <1>0, <2>1 DEF Addresses, InOrder, Electing, Saving, Serving
  <2>5. Wires'
    BY <2>2 DEF Wires
  <2> QED BY <1>0, <1>1, <2>1, <2>3, <2>4, <2>5, ZeroDone DEF Serving
<1>5. CASE RecvIpSize(0)
  <2>n. PICK n : n = next[0]
    OBVIOUS
  <2> DEFINE size == Received(n, 0)
  <2>1. n < WorldSize /\ pc[0] = "RecvIpSizes" /\ bcast' = bcast
    BY <1>5, <2>n DEF RecvIpSize
  <2>2. n \in Others /\ id_to_rank[0][n] = n
    BY <1>2, <2>1, <2>n, Met, OtherFacts
  <2>3. Takes(n)
    BY <1>5, <2>2, <2>n DEF RecvIpSize, Recv, Takes
  <2>4. \/ /\ pc[n] = "SendIp" /\ chan[<<n, 0>>] = <<Msg("ip_size", 1)>>
        \/ /\ pc[n] = "WaitResolved"
           /\ chan[<<n, 0>>] \in {<<Msg("ip_size", Failed)>>,
                                <<Msg("ip_size", 1), Msg("ip", n)>>}
    BY <2>1, <2>3, <2>n, Met DEF Takes
  <2>5. chan'[<<n, 0>>] = Tail(chan[<<n, 0>>])
    BY <1>0, <2>2, <2>3, TakeFacts
  <2>6. IF NoAddress(size)
        THEN pc[n] = "WaitResolved" /\ chan'[<<n, 0>>] = <<>>
        ELSE \/ pc[n] = "SendIp" /\ chan'[<<n, 0>>] = <<>>
             \/ pc[n] = "WaitResolved" /\ chan'[<<n, 0>>] = <<Msg("ip", n)>>
    <3>1. CASE chan[<<n, 0>>] = <<Msg("ip_size", 1)>>
      <4>1. size = 1 /\ chan'[<<n, 0>>] = <<>>
        BY <2>5, <3>1, WireFacts, MsgFacts DEF Received
      <4>2. chan[<<n, 0>>] # <<Msg("ip_size", Failed)>> /\
            chan[<<n, 0>>] # <<Msg("ip_size", 1), Msg("ip", n)>>
        BY <3>1 DEF Failed, Msg
      <4> QED BY <2>4, <4>1, <4>2 DEF NoAddress, Failed
    <3>2. CASE chan[<<n, 0>>] = <<Msg("ip_size", Failed)>>
      <4>1. size = Failed /\ chan'[<<n, 0>>] = <<>>
        BY <2>5, <3>2, WireFacts, MsgFacts DEF Received
      <4>2. chan[<<n, 0>>] # <<Msg("ip_size", 1)>>
        BY <3>2 DEF Failed, Msg
      <4> QED BY <2>4, <4>1, <4>2 DEF NoAddress
    <3>3. CASE chan[<<n, 0>>] = <<Msg("ip_size", 1), Msg("ip", n)>>
      <4>1. size = 1 /\ chan'[<<n, 0>>] = <<Msg("ip", n)>>
        BY <2>5, <3>3, WireFacts, MsgFacts DEF Received
      <4>2. chan[<<n, 0>>] # <<Msg("ip_size", 1)>>
        BY <3>3 DEF Msg
      <4> QED BY <2>4, <4>1, <4>2 DEF NoAddress, Failed
    <3> QED BY <2>4, <3>1, <3>2, <3>3
  <2>7. /\ ZeroStep /\ ip_addresses_' = ip_addresses_
        /\ IF NoAddress(size)
           THEN pc'[0] = "RecvIpSizes" /\ next'[0] = n + 1 /\ ip_success'[0] = 0
           ELSE pc'[0] = "RecvIp" /\ next'[0] = n /\ ip_success'[0] = ip_success[0]
    BY <1>0, <1>5, <2>2, <2>n DEF RecvIpSize, Goto, ZeroStep, TypeOK
  <2> HIDE DEF size
  <2>8. ASSUME NEW q \in Others PROVE WireShake(q)' /\ WireResolve(q)'
    <3>1. /\ WireShake(q) /\ WireResolve(q) /\ pc'[q] = pc[q]
          /\ ~NoIdYet(q)' /\ ~NoSavedYet(q)' /\ NoSizeYet(n)
      BY <1>0, <2>1, <2>2, <2>7, <2>n DEF Wires, ZeroStep, NoIdYet, NoSavedYet, NoSizeYet
    <3>2. q # n => chan'[<<q, 0>>] = chan[<<q, 0>>]
      BY <1>0, <2>2, <2>3, TakeFacts
    <3>3. q # n => /\ NoSizeYet(q)' <=> NoSizeYet(q)
                   /\ ~AwaitsIp(q) /\ ~AwaitsIp(q)'
      BY <1>0, <2>1, <2>2, <2>7, <2>n DEF NoSizeYet, AwaitsIp
    <3>4. ~NoSizeYet(n)' /\ (AwaitsIp(n)' <=> ~NoAddress(size))
      BY <1>0, <2>1, <2>2, <2>7 DEF NoSizeYet, AwaitsIp
    <3>5. CASE q = n
      <4>1. pc'[n] = pc[n] /\ pc[n] \in {"SendIp", "WaitResolved"}
        BY <2>4, <3>1, <3>5
      <4> QED BY <2>6, <3>4, <3>5, <4>1
        DEF WireShake, WireResolve, Settled, Serving
    <3>6. CASE q # n
      BY <1>0, <1>1, <1>3, <2>1, <2>7, <3>1, <3>2, <3>3, <3>6
      DEF ZeroStep, WireShake, WireResolve, Settled, Serving
    <3> QED BY <3>5, <3>6
  <2>9. Elected'
    BY <1>0, <1>1, <1>2, <2>1, <2>7 DEF Elected
  <2>10. Addresses'
    BY <1>0, <2>1, <2>7, <2>n DEF Addresses, InOrder, Electing, Saving, Serving
  <2>11. Wires'
    BY <2>8 DEF Wires
  <2>12. pc'[0] \notin Serving
    BY <2>7 DEF Serving
  <2> QED BY <1>0, <1>1, <2>2, <2>3, <2>7, <2>9, <2>10, <2>11, <2>12, ZeroDone
<1>6. CASE RecvIp(0)
  <2>n. PICK n : n = next[0]
    OBVIOUS
  <2>1. n < WorldSize /\ pc[0] = "RecvIp" /\ bcast' = bcast
    BY <1>0, <1>6, <2>n DEF RecvIp, Inv, TypeInv, LoopBound
  <2>2. n \in Others /\ id_to_rank[0][n] = n
    BY <1>2, <2>1, <2>n, Met, OtherFacts
  <2>3. Takes(n)
    BY <1>6, <2>2, <2>n DEF RecvIp, Recv, Takes
  <2>4. pc[n] = "WaitResolved" /\ chan[<<n, 0>>] = <<Msg("ip", n)>>
    BY <2>1, <2>3, <2>n, Met DEF Takes
  <2>5. chan'[<<n, 0>>] = <<>> /\ Received(n, 0) = n
    <3>1. chan'[<<n, 0>>] = Tail(chan[<<n, 0>>])
      BY <1>0, <2>2, <2>3, TakeFacts
    <3>2. Tail(<<Msg("ip", n)>>) = <<>> /\ Head(<<Msg("ip", n)>>) = Msg("ip", n)
      BY WireFacts
    <3> QED BY <2>4, <3>1, <3>2, MsgFacts DEF Received
  <2>6. /\ ZeroStep /\ next'[0] = n + 1 /\ pc'[0] = "RecvIpSizes"
        /\ ip_success' = ip_success
        /\ ip_addresses_'[0] = Append(ip_addresses_[0], n)
    BY <1>0, <1>6, <2>2, <2>5, <2>n DEF RecvIp, PushBack, Goto, ZeroStep, TypeOK
  <2>7. ASSUME NEW q \in Others PROVE WireShake(q)' /\ WireResolve(q)'
    <3>1. /\ WireShake(q) /\ WireResolve(q) /\ pc'[q] = pc[q]
          /\ ~NoIdYet(q)' /\ ~NoSavedYet(q)'
      BY <1>0, <2>6 DEF Wires, ZeroStep, NoIdYet, NoSavedYet
    <3>2. q # n => chan'[<<q, 0>>] = chan[<<q, 0>>]
      BY <1>0, <2>2, <2>3, TakeFacts
    <3>3. q # n => /\ NoSizeYet(q)' <=> NoSizeYet(q)
                   /\ ~AwaitsIp(q) /\ ~AwaitsIp(q)'
      BY <1>0, <2>1, <2>2, <2>6, <2>n DEF NoSizeYet, AwaitsIp
    <3>4. ~NoSizeYet(n)' /\ ~AwaitsIp(n)'
      BY <1>0, <2>2, <2>6 DEF NoSizeYet, AwaitsIp
    <3>5. CASE q = n
      BY <2>4, <2>5, <3>1, <3>4, <3>5 DEF WireShake, WireResolve, Settled, Serving
    <3>6. CASE q # n
      BY <1>0, <1>1, <1>3, <2>1, <2>6, <3>1, <3>2, <3>3, <3>6
      DEF ZeroStep, WireShake, WireResolve, Settled, Serving
    <3> QED BY <3>5, <3>6
  <2>8. Elected'
    BY <1>0, <1>1, <1>2, <2>1, <2>6 DEF Elected
  <2>9. Addresses'
    <3>1. ASSUME ip_success[0] # 0 PROVE InOrder(n)'
      <4>1. Len(ip_addresses_[0]) = n - 1 /\ \A i \in 1..(n - 1) : ip_addresses_[0][i] = i
        BY <1>0, <2>1, <2>n, <3>1 DEF Addresses, InOrder
      <4>2. /\ Len(ip_addresses_'[0]) = n /\ ip_addresses_'[0][n] = n
            /\ \A i \in 1..(n - 1) : ip_addresses_'[0][i] = ip_addresses_[0][i]
        BY <1>0, <2>2, <2>6, <4>1
      <4>3. \A i \in 1..n : i \in 1..(n - 1) \/ i = n
        BY <1>0, <2>2
      <4> QED BY <4>1, <4>2, <4>3 DEF InOrder
    <3>2. next'[0] - 1 = n
      BY <1>0, <2>2, <2>6
    <3> QED BY <2>6, <3>1, <3>2 DEF Addresses, InOrder, Electing, Saving, Serving
  <2>10. Wires'
    BY <2>7 DEF Wires
  <2> QED BY <1>0, <1>1, <2>2, <2>3, <2>6, <2>8, <2>9, <2>10, ZeroDone DEF Serving
<1>7. CASE BcastResolved(0)
  <2>1. /\ ZeroStep /\ chan' = chan /\ next' = next /\ ip_addresses_' = ip_addresses_
        /\ pc[0] = "RecvIpSizes" /\ next[0] = WorldSize
        /\ pc'[0] = IF ip_success[0] = 0 THEN "exited" ELSE Main(0)
    BY <1>0, <1>7 DEF BcastResolved, AfterResolve, Goto, ZeroStep, TypeOK
  <2>2. bcast'["proxy_rank"] = 0
    BY <1>0, <1>2, <1>7 DEF BcastResolved, Bcast, TypeOK, Bcasts
  <2>3. pc'[0] \in Serving \cup {"exited"} /\ (pc'[0] \in Serving => pc'[0] = Main(0)')
    BY <1>1, <2>1 DEF Main, Serving
  <2>4. ASSUME NEW q \in Others PROVE WireShake(q)' /\ WireResolve(q)'
    <3>1. /\ WireShake(q) /\ WireResolve(q) /\ pc'[q] = pc[q]
          /\ ~NoSizeYet(q) /\ ~AwaitsIp(q)
      BY <1>0, <2>1 DEF Wires, ZeroStep, NoSizeYet, AwaitsIp
    <3>2. /\ ~NoIdYet(q)' /\ ~NoSavedYet(q)' /\ ~NoSizeYet(q)' /\ ~AwaitsIp(q)'
      BY <2>3 DEF NoIdYet, NoSavedYet, NoSizeYet, AwaitsIp, Serving
    <3>3. pc[q] \notin {"WaitProxyRank", "WaitSaved"}
      BY <1>3, <2>1, <3>1 DEF WireShake
    <3> QED BY <1>0, <1>1, <1>3, <2>1, <3>1, <3>2, <3>3
      DEF ZeroStep, WireShake, WireResolve, Settled
  <2>5. Elected'
    BY <1>0, <1>1, <1>2, <2>2, <2>3 DEF Elected, Serving
  <2>6. Addresses'
    BY <1>0, <2>1, <2>3 DEF Addresses, InOrder, Electing, Saving, Serving
  <2>7. Wires'
    BY <2>4 DEF Wires
  <2> QED BY <1>0, <1>1, <2>1, <2>3, <2>5, <2>6, <2>7, ZeroDone
<1> QED BY <1>4, <1>5, <1>6, <1>7

-----------------------------------------------------------------------------
(* The theorems. *)

\* Which steps rank 0 takes, and which the others; none finds an id that is no
\* number.
LEMMA Division ==
  ASSUME HandshakeInv, ~tampered, NEW r \in Ranks, Step(r)
  PROVE  \/ r \in Others /\ (\/ OpenDb(r) \/ GetShardId(r) \/ SendShardId(r)
                             \/ WaitProxyRank(r) \/ SaveShardId(r) \/ SendSaved(r)
                             \/ WaitSaved(r) \/ SendIpSize(r) \/ SendIp(r)
                             \/ WaitResolved(r))
         \/ r = 0 /\ (OpenDb(r) \/ GetShardId(r) \/ StartCollecting(r)
                      \/ RecvShardId(r) \/ BcastProxyRank(r))
         \/ r = 0 /\ (SaveShardId(r) \/ RecvSaved(r) \/ BcastSaved(r))
         \/ r = 0 /\ (WriteHostname(r) \/ RecvIpSize(r) \/ RecvIp(r)
                      \/ BcastResolved(r))
<1>1. /\ r \in Others \/ r = 0
      /\ pc[r] = "RecvShardIds" => r = 0
      /\ pc[r] \in {"RecvSaved", "RecvIpSizes", "RecvIp"} => r = proxy_rank_[r]
      /\ pc[r] \in Saving \cup Resolving => proxy_rank_[r] = 0
      /\ pc[0] \notin {"WaitProxyRank", "SendSaved", "WaitSaved", "SendIp",
                       "WaitResolved"}
  BY ProxyIsZero DEF HandshakeInv, DbInv, Inv, Roots, Shaken, Elected, Others
<1>2. ASSUME r = 0
      PROVE  ~(\/ SendShardId(r) \/ WaitProxyRank(r) \/ SendSaved(r)
               \/ WaitSaved(r) \/ SendIpSize(r) \/ SendIp(r) \/ WaitResolved(r))
  BY <1>1, <1>2 DEF SendShardId, WaitProxyRank, SendSaved, WaitSaved, SendIpSize,
     SendIp, WaitResolved, Resolving
<1>3. ASSUME r # 0
      PROVE  ~(\/ StartCollecting(r) \/ RecvShardId(r) \/ BcastProxyRank(r)
               \/ RecvSaved(r) \/ BcastSaved(r) \/ WriteHostname(r)
               \/ RecvIpSize(r) \/ RecvIp(r) \/ BcastResolved(r))
  BY <1>1, <1>3 DEF StartCollecting, RecvShardId, BcastProxyRank, RecvSaved,
     BcastSaved, WriteHostname, RecvIpSize, RecvIp, BcastResolved, Saving, Resolving
<1>4. ~StoiThrows(r)
  BY RankFacts, SentinelAssumption DEF StoiThrows, HandshakeInv, OwnId
<1> QED BY <1>1, <1>2, <1>3, <1>4 DEF Step

\* The processes start with empty channels and without addresses.
LEMMA ShakenInit == Init => Shaken
<1> SUFFICES ASSUME Init PROVE Shaken
  OBVIOUS
<1>1. /\ \A r \in Ranks : pc[r] = "OpenDb" /\ shard_id_[r] = Failed
      /\ ip_addresses_[0] = <<>> /\ bcast["proxy_rank"] = NotSent
      /\ \A p \in Ranks \X Ranks : chan[p] = <<>>
      /\ 0 \in Ranks /\ \A r \in Others : r \in Ranks
  BY OtherFacts DEF Init, Started, Bcasts
<1>2. OwnIds /\ Elected /\ Quiet /\ Roles
  BY <1>1, OtherFacts DEF OwnIds, Elected, Quiet, Roles, Serving
<1>3. Wires
  BY <1>1 DEF Wires, WireShake, WireResolve, NoIdYet, Settled, Serving
<1>4. Addresses
  BY <1>1 DEF Addresses, InOrder, Serving
<1> QED BY <1>2, <1>3, <1>4 DEF Shaken

\* So do those of a relaunch.
LEMMA ShakenRelaunch == Relaunch => Shaken'
<1> SUFFICES ASSUME Relaunch PROVE Shaken'
  OBVIOUS
<1>1. /\ \A r \in Ranks : pc'[r] = "OpenDb" /\ shard_id_'[r] = Failed
      /\ ip_addresses_'[0] = <<>> /\ bcast'["proxy_rank"] = NotSent
      /\ \A p \in Ranks \X Ranks : chan'[p] = <<>>
      /\ 0 \in Ranks /\ \A r \in Others : r \in Ranks
  BY OtherFacts DEF Relaunch, Started, Bcasts
<1>2. (OwnIds /\ Elected /\ Quiet /\ Roles)'
  BY <1>1, OtherFacts DEF OwnIds, Elected, Quiet, Roles, Serving
<1>3. Wires'
  BY <1>1 DEF Wires, WireShake, WireResolve, NoIdYet, Settled, Serving
<1>4. Addresses'
  BY <1>1 DEF Addresses, InOrder, Serving
<1> QED BY <1>2, <1>3, <1>4 DEF Shaken

\* Every step preserves the invariant.
LEMMA HandshakeStep == HandshakeInv /\ [Next]_vars => HandshakeInv'
<1> SUFFICES ASSUME HandshakeInv, [Next]_vars PROVE HandshakeInv'
  OBVIOUS
<1>1. DbInv'
  BY TypeStep, AgreementStep, ReportsStep DEF HandshakeInv, DbInv, Inv
<1>2. OwnId' /\ (~tampered' => ~tampered)
  <2>1. \A r \in Ranks : ~tampered' => ~tampered /\ stored'[r] \in {stored[r], r}
    BY StoredStep DEF HandshakeInv, DbInv, Inv
  <2> QED BY <2>1, RankFacts DEF HandshakeInv, OwnId
<1>3. ASSUME ~tampered' PROVE Shaken'
  <2>0. ~tampered
    BY <1>2, <1>3
  <2>1. ASSUME NEW r \in Ranks, Step(r) PROVE Shaken'
    BY <2>0, <2>1, Division, SenderSteps, CollectSteps, SaveSteps, ResolveSteps
  <2>2. ASSUME NEW r \in Ranks, DirectPut(r) PROVE Shaken'
    BY <1>3, <2>2 DEF DirectPut
  <2>3. CASE Relaunch
    BY <2>3, ShakenRelaunch
  <2>4. CASE UNCHANGED vars
    <3>1. Shaken
      BY <2>0 DEF HandshakeInv
    <3> QED BY <2>4, <3>1 DEF vars, Shaken, OwnIds, Elected, Quiet, Wires,
         WireShake, WireResolve, NoIdYet, NoSavedYet, NoSizeYet, AwaitsIp, Settled,
         Addresses, InOrder, Roles, Main
  <2> QED BY <2>1, <2>2, <2>3, <2>4 DEF Next
<1> QED BY <1>1, <1>2, <1>3 DEF HandshakeInv

\* The invariant holds throughout.
LEMMA HandshakeCorrect == Spec => []HandshakeInv
<1>1. Init => HandshakeInv
  <2> SUFFICES ASSUME Init PROVE HandshakeInv
    OBVIOUS
  <2>1. DbInv
    BY DbInvInit
  <2> QED BY <2>1, ShakenInit DEF HandshakeInv, Init, OwnId
<1> QED BY <1>1, HandshakeStep, PTL DEF Spec

\* Exactly one rank becomes the sharding proxy once all of them serve, and every
\* rank has its rank as proxy_rank_.
THEOREM OneProxy == Spec => []SingleProxy
<1>1. HandshakeInv => SingleProxy
  <2> SUFFICES ASSUME HandshakeInv, ~tampered, \A r \in Ranks : pc[r] \in Serving
               PROVE  \E p \in Ranks : \A r \in Ranks :
                        /\ pc[r] = "ProxyMain" <=> r = p
                        /\ proxy_rank_[r] = p
    BY DEF SingleProxy
  <2>1. \A r \in Ranks : proxy_rank_[r] = 0 /\ bcast["proxy_rank"] = 0
    BY ProxyIsZero
  <2>2. \A r \in Ranks : shard_id_[r] = r
    BY <2>1, RankFacts
    DEF HandshakeInv, DbInv, Reports, HasId, Shaken, OwnIds
  <2>3. \A r \in Ranks : pc[r] = "ProxyMain" <=> r = 0
    BY <2>2 DEF HandshakeInv, Shaken, Roles, Main
  <2> QED BY <2>1, <2>3, RankFacts
<1> QED BY <1>1, HandshakeCorrect, PTL

\* A proxy that serves has the address of the shard with id i at position i.
THEOREM TableInOrder == Spec => []RoutingTable
<1>1. HandshakeInv => RoutingTable
  <2> SUFFICES ASSUME HandshakeInv, ~tampered, NEW p \in Ranks, pc[p] = "ProxyMain"
               PROVE  /\ Len(ip_addresses_[p]) = WorldSize - 1
                      /\ \A r \in Ranks : shard_id_[r] \in DOMAIN ip_addresses_[p]
                           => ip_addresses_[p][shard_id_[r]] = r
    BY DEF RoutingTable
  <2>0. TypeOK
    BY DEF HandshakeInv, DbInv, Inv, TypeInv
  <2>1. shard_id_[p] = 0
    BY DEF HandshakeInv, Shaken, Roles, Main, Serving
  <2>2. p = 0
    BY <2>1, OtherFacts DEF HandshakeInv, Shaken, OwnIds
  <2>3. InOrder(WorldSize - 1)
    BY <2>2 DEF HandshakeInv, Shaken, Addresses, Serving
  <2>4. ip_addresses_[0] \in Seq(Int)
    BY <2>0, RankFacts DEF TypeOK
  <2>5. DOMAIN ip_addresses_[0] = 1..(WorldSize - 1)
    BY <2>3, <2>4 DEF InOrder
  <2>6. ASSUME NEW r \in Ranks, shard_id_[r] \in 1..(WorldSize - 1)
        PROVE  ip_addresses_[0][shard_id_[r]] = r
    <3>1. shard_id_[r] = r
      BY <2>6 DEF HandshakeInv, Shaken, OwnIds, Failed
    <3> QED BY <2>3, <2>6, <3>1 DEF InOrder
  <2> QED BY <2>2, <2>3, <2>5, <2>6 DEF InOrder
<1> QED BY <1>1, HandshakeCorrect, PTL

\* Every receive of rank 0 meets the message that was sent for it, although all
\* messages carry the same tag and MPI_Send may or may not buffer.
THEOREM ReceivesMatch == Spec => []MatchedReceives
<1>1. HandshakeInv => MatchedReceives
  <2> SUFFICES ASSUME HandshakeInv, ~tampered, NEW r \in Ranks,
                      pc[r] \in {"RecvShardIds", "RecvSaved", "RecvIpSizes", "RecvIp"},
                      next[r] < WorldSize, chan[<<Source(r), r>>] # <<>>
               PROVE  Head(chan[<<Source(r), r>>]).kind = Expected(r)
    BY DEF MatchedReceives
  <2>n. PICK n : n = next[0]
    OBVIOUS
  <2>1. r = 0
    BY ProxyIsZero DEF HandshakeInv, DbInv, Inv, Roots, Saving, Resolving
  <2>2. n \in Others
    BY <2>1, <2>n, Met
  <2>3. pc[0] \in {"RecvSaved", "RecvIpSizes", "RecvIp"} => id_to_rank[0][n] = n
    BY <2>1, <2>2, ProxyIsZero, OtherFacts DEF Saving, Resolving
  <2>4. Source(r) = n
    BY <2>1, <2>3, <2>n DEF Source
  <2>5. \E v, b : \/ chan[<<n, 0>>] = <<Msg(Expected(r), v)>>
                  \/ chan[<<n, 0>>] = <<Msg(Expected(r), v), b>>
    <3>1. CASE pc[0] = "RecvShardIds"
      BY <2>1, <2>4, <2>n, <3>1, Met DEF Expected
    <3>2. CASE pc[0] = "RecvSaved"
      BY <2>1, <2>4, <2>n, <3>2, Met DEF Expected
    <3>3. CASE pc[0] = "RecvIpSizes"
      BY <2>1, <2>4, <2>n, <3>3, Met DEF Expected
    <3>4. CASE pc[0] = "RecvIp"
      BY <2>1, <2>4, <2>n, <3>4, Met DEF Expected
    <3> QED BY <2>1, <3>1, <3>2, <3>3, <3>4
  <2> QED BY <2>1, <2>4, <2>5, WireFacts, MsgFacts
<1> QED BY <1>1, HandshakeCorrect, PTL

\* No message is left over once every rank serves or has exited.
THEOREM ChannelsDrained == Spec => []NothingLeftOver
<1>1. HandshakeInv => NothingLeftOver
  <2> SUFFICES ASSUME HandshakeInv, ~tampered, \A r \in Ranks : Settled(r),
                      NEW p \in Ranks \X Ranks
               PROVE  chan[p] = <<>>
    BY DEF NothingLeftOver
  <2>1. CASE p[1] = 0 \/ p[2] # 0
    BY <2>1 DEF HandshakeInv, Shaken, Quiet
  <2>2. CASE p[1] # 0 /\ p[2] = 0
    <3>1. p = <<p[1], 0>> /\ p[1] \in Others
      BY <2>2 DEF Others
    <3>2. WireResolve(p[1]) /\ Settled(p[1])
      BY <3>1 DEF HandshakeInv, Shaken, Wires
    <3> QED BY <3>1, <3>2 DEF WireResolve
  <2> QED BY <2>1, <2>2
<1> QED BY <1>1, HandshakeCorrect, PTL
=============================================================================
