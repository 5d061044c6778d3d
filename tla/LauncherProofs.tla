--------------------------- MODULE LauncherProofs ---------------------------
(***************************************************************************)
(* Proofs about Launcher, for every WorldSize, every set of ids that       *)
(* clients may store, both kinds of MPI_Send and any number of launches.   *)
(***************************************************************************)
EXTENDS Launcher, TLAPS

\* The groups of variables in the UNCHANGED conjuncts are always expanded.
USE DEF kept, ids, election, results, mpi

-----------------------------------------------------------------------------
(* The inductive invariant. *)

\* The steps up to the election, a rank that stoi ended among them, those of
\* ShakeHands after the election, and those of ResolveIpAddresses.
Electing == {"OpenDb", "GetShardId", "aborted", "ShakeHands", "RecvShardIds",
             "WaitProxyRank"}
Saving == {"SaveShardId", "SendSaved", "RecvSaved", "WaitSaved"}
Resolving == {"ResolveIp", "SendIp", "RecvIpSizes", "RecvIp", "WaitResolved"}

\* RecvIp is entered for a shard id the loop of RecvIpSizes has checked.
LoopBound == \A r \in Ranks : pc[r] = "RecvIp" => next[r] < WorldSize

TypeInv == TypeOK /\ LoopBound

\* A rank past a collective call acts on what its root broadcast.
Obeyed ==
  /\ \A r \in Ranks : pc[r] \in Saving \cup Resolving \cup Serving =>
       bcast["proxy_rank"] \in Ranks /\ proxy_rank_[r] = bcast["proxy_rank"]
  /\ \A r \in Ranks : pc[r] \in Resolving \cup Serving =>
       bcast["saved"] \notin {0, NotSent}
  /\ \A r \in Ranks : pc[r] \in Serving => bcast["resolved"] \notin {0, NotSent}
  /\ \A r \in Ranks : pc[r] = "exited" =>
       \/ bcast["proxy_rank"] = Failed
       \/ bcast["saved"] = 0
       \/ bcast["resolved"] = 0

\* Each collective call has one root, and its root has not entered it yet as
\* long as it is at an earlier step.
Roots ==
  /\ \A r \in Ranks : pc[r] = "RecvShardIds" => r = 0
  /\ \A r \in Ranks : pc[r] \in {"RecvSaved", "RecvIpSizes", "RecvIp"} =>
       r = proxy_rank_[r]
  /\ pc[0] \in Electing => bcast["proxy_rank"] = NotSent
  /\ pc[0] # "WaitProxyRank"
  /\ bcast["proxy_rank"] \notin Ranks =>
       bcast["saved"] = NotSent /\ bcast["resolved"] = NotSent
  /\ \A r \in Ranks : r = bcast["proxy_rank"] /\ pc[r] \in Electing \cup Saving =>
       bcast["saved"] = NotSent
  /\ \A r \in Ranks :
       r = bcast["proxy_rank"] /\ pc[r] \in Electing \cup Saving \cup Resolving =>
         bcast["resolved"] = NotSent

Inv == TypeInv /\ Obeyed /\ Roots

\* Rank q has read a shard id.
HasId(q) ==
  pc[q] \notin {"OpenDb", "GetShardId", "aborted"} /\ shard_id_[q] # Failed

\* What is known of the ids during the election: a proxy is elected only if
\* every rank has reported an id, and only a rank with an open store has one.
Reports ==
  /\ \A r \in Ranks : HasId(r) => db_[r]
  /\ pc[0] \in {"OpenDb", "GetShardId", "ShakeHands"} => next[0] = 1
  /\ bcast["proxy_rank"] \in Ranks => \A q \in Ranks : HasId(q)
  /\ pc[0] = "RecvShardIds" /\ proxy_rank_[0] # Failed =>
       \A q \in Ranks : q < next[0] => HasId(q)
  /\ bcast["proxy_rank"] = NotSent => \A r \in Ranks \ {0} :
       /\ pc[r] \in {"OpenDb", "GetShardId", "aborted", "ShakeHands"} =>
            chan[<<r, 0>>] = <<>>
       /\ pc[r] = "WaitProxyRank" =>
            chan[<<r, 0>>] \in {<<>>, <<Msg("shard_id", shard_id_[r])>>}

DbInv == Inv /\ Reports

-----------------------------------------------------------------------------
(* Type correctness. *)

\* What the steps need of the numbers 0..WorldSize-1.
LEMMA RankFacts ==
  /\ 0 \in Ranks /\ Failed \notin Ranks /\ Failed \in Int /\ NotSent \notin Int
  /\ \A r \in Ranks : r \in Int
  /\ \A n \in 1..WorldSize : n < WorldSize =>
       n \in Ranks /\ n + 1 \in 1..WorldSize /\ n \in 1..(WorldSize - 1)
BY WorldSizeAssumption, SentinelAssumption DEF Ranks, Failed

\* Channels carry messages, so what is received is an int.
LEMMA ChanTypes ==
  ASSUME TypeOK, NEW src \in Ranks, NEW dst \in Ranks
  PROVE  /\ chan[<<src, dst>>] # <<>> => Received(src, dst) \in Int
         /\ chan[<<src, dst>>] # <<>> => Tail(chan[<<src, dst>>]) \in Seq(Messages)
         /\ \A k \in Kinds, v \in Int :
              Append(chan[<<src, dst>>], Msg(k, v)) \in Seq(Messages)
<1>1. chan[<<src, dst>>] \in Seq(Messages)
  BY DEF TypeOK
<1>2. chan[<<src, dst>>] # <<>> =>
        /\ Head(chan[<<src, dst>>]) \in Messages
        /\ Tail(chan[<<src, dst>>]) \in Seq(Messages)
  BY <1>1
<1>3. chan[<<src, dst>>] # <<>> => Received(src, dst) \in Int
  BY <1>2 DEF Received, Messages
<1>4. \A k \in Kinds, v \in Int : Msg(k, v) \in Messages
  BY DEF Msg, Messages
<1>5. \A k \in Kinds, v \in Int : Append(chan[<<src, dst>>], Msg(k, v)) \in Seq(Messages)
  BY <1>1, <1>4
<1> QED BY <1>2, <1>3, <1>5

\* MPI_Send, to whatever rank, and MPI_Recv keep the channels well typed.
LEMMA SendType ==
  ASSUME TypeOK, NEW src, NEW dst, NEW k \in Kinds, NEW v \in Int,
         Send(src, dst, k, v)
  PROVE  chan' \in [Ranks \X Ranks -> Seq(Messages)]
<1>1. Msg(k, v) \in Messages
  BY DEF Msg, Messages
<1>2. \A p \in Ranks \X Ranks : Append(chan[p], Msg(k, v)) \in Seq(Messages)
  BY <1>1 DEF TypeOK
<1> HIDE DEF Msg
<1> QED BY <1>2 DEF Send, TypeOK

\* MPI_Recv takes a message off one channel and leaves the others.
LEMMA RecvType ==
  ASSUME TypeOK, NEW src \in Ranks, NEW dst \in Ranks, Recv(src, dst)
  PROVE  chan' \in [Ranks \X Ranks -> Seq(Messages)] /\ Received(src, dst) \in Int
BY ChanTypes DEF Recv, TypeOK

\* Storing a rank leaves a map to ranks.
LEMMA PutRankType ==
  ASSUME NEW map \in [1..(WorldSize - 1) -> Ranks], NEW id, NEW rank \in Ranks
  PROVE  PutRank(map, id, rank) \in [1..(WorldSize - 1) -> Ranks]
BY DEF PutRank

\* The receive loops stay within the map id_to_rank.
LEMMA LoopType ==
  ASSUME TypeOK, NEW r \in Ranks, next[r] < WorldSize
  PROVE  /\ next[r] \in Ranks
         /\ id_to_rank[r][next[r]] \in Ranks
         /\ next[r] + 1 \in 1..WorldSize
<1>1. next[r] \in 1..WorldSize
  BY DEF TypeOK
<1>2. next[r] \in Ranks /\ next[r] \in 1..(WorldSize - 1) /\ next[r] + 1 \in 1..WorldSize
  BY <1>1, RankFacts
<1>3. id_to_rank[r] \in [1..(WorldSize - 1) -> Ranks]
  BY DEF TypeOK
<1> QED BY <1>2, <1>3

\* Every step keeps every variable within its type.
LEMMA TypeStep == TypeInv /\ [Next]_vars => TypeInv'
<1> SUFFICES ASSUME TypeInv, [Next]_vars PROVE TypeInv'
  OBVIOUS
<1> USE DEF TypeInv, TypeOK
<1>1. ASSUME NEW r \in Ranks, OpenDb(r) PROVE TypeInv'
  <2>1. pc' \in [Ranks -> Labels]
    BY <1>1 DEF OpenDb, Goto, Labels
  <2>2. db_' \in [Ranks -> BOOLEAN]
    BY <1>1 DEF OpenDb
  <2>3. LoopBound'
    BY <1>1 DEF OpenDb, LoopBound, Goto
  <2> QED BY <1>1, <2>1, <2>2, <2>3 DEF OpenDb
<1>2. ASSUME NEW r \in Ranks, GetShardId(r) PROVE TypeInv'
  <2>1. pc' \in [Ranks -> Labels]
    BY <1>2 DEF GetShardId, Goto, Labels
  <2>2. shard_id_' \in [Ranks -> Int]
    BY <1>2, RankFacts DEF GetShardId, ReadIds
  <2>3. LoopBound'
    BY <1>2 DEF GetShardId, LoopBound, Goto
  <2> QED BY <1>2, <2>1, <2>2, <2>3 DEF GetShardId
<1>23. ASSUME NEW r \in Ranks, StoiThrows(r) PROVE TypeInv'
  <2>1. pc' \in [Ranks -> Labels]
    BY <1>23 DEF StoiThrows, Goto, Labels
  <2>2. LoopBound'
    BY <1>23 DEF StoiThrows, LoopBound, Goto
  <2> QED BY <1>23, <2>1, <2>2 DEF StoiThrows
<1>3. ASSUME NEW r \in Ranks, StartCollecting(r) PROVE TypeInv'
  <2>1. pc' \in [Ranks -> Labels]
    BY <1>3 DEF StartCollecting, Goto, Labels
  <2>2. proxy_rank_' \in [Ranks -> Ranks \cup {Failed}]
    BY <1>3 DEF StartCollecting
  <2>3. id_to_rank' \in [Ranks -> [1..(WorldSize - 1) -> Ranks]]
    BY <1>3, PutRankType DEF StartCollecting
  <2>4. LoopBound'
    BY <1>3 DEF StartCollecting, LoopBound, Goto
  <2> QED BY <1>3, <2>1, <2>2, <2>3, <2>4 DEF StartCollecting
<1>4. ASSUME NEW r \in Ranks, RecvShardId(r) PROVE TypeInv'
  <2>s. next[r] \in Ranks
    BY <1>4, LoopType DEF RecvShardId
  <2>1. proxy_rank_' \in [Ranks -> Ranks \cup {Failed}]
    BY <1>4, <2>s DEF RecvShardId, Elect
  <2>2. id_to_rank' \in [Ranks -> [1..(WorldSize - 1) -> Ranks]]
    BY <1>4, <2>s, PutRankType DEF RecvShardId
  <2>3. next' \in [Ranks -> 1..WorldSize]
    BY <1>4, LoopType DEF RecvShardId
  <2>4. chan' \in [Ranks \X Ranks -> Seq(Messages)]
    BY <1>4, <2>s, RecvType DEF RecvShardId
  <2>5. LoopBound'
    BY <1>4 DEF RecvShardId, LoopBound
  <2> QED BY <1>4, <2>1, <2>2, <2>3, <2>4, <2>5 DEF RecvShardId
<1>5. ASSUME NEW r \in Ranks, BcastProxyRank(r) PROVE TypeInv'
  <2>1. pc' \in [Ranks -> Labels]
    BY <1>5 DEF BcastProxyRank, Goto, Labels, AfterElection
  <2>2. /\ bcast' \in [Bcasts -> Int \cup {NotSent}]
        /\ bcast'["proxy_rank"] \in Ranks \cup {Failed, NotSent}
    BY <1>5, RankFacts DEF BcastProxyRank, Bcast, Bcasts
  <2>3. LoopBound'
    BY <1>5 DEF BcastProxyRank, LoopBound, Goto, AfterElection
  <2> QED BY <1>5, <2>1, <2>2, <2>3 DEF BcastProxyRank, AfterElection
<1>6. ASSUME NEW r \in Ranks, SendShardId(r) PROVE TypeInv'
  <2>1. pc' \in [Ranks -> Labels]
    BY <1>6 DEF SendShardId, Goto, Labels
  <2>2. chan' \in [Ranks \X Ranks -> Seq(Messages)]
    BY <1>6, RankFacts, SendType DEF SendShardId, Kinds
  <2>3. LoopBound'
    BY <1>6 DEF SendShardId, LoopBound, Goto
  <2> QED BY <1>6, <2>1, <2>2, <2>3 DEF SendShardId
<1>7. ASSUME NEW r \in Ranks, WaitProxyRank(r) PROVE TypeInv'
  <2>1. pc' \in [Ranks -> Labels]
    BY <1>7 DEF WaitProxyRank, Goto, Labels, AfterElection
  <2>2. proxy_rank_' \in [Ranks -> Ranks \cup {Failed}]
    BY <1>7 DEF WaitProxyRank
  <2>3. LoopBound'
    BY <1>7 DEF WaitProxyRank, LoopBound, Goto, AfterElection
  <2> QED BY <1>7, <2>1, <2>2, <2>3 DEF WaitProxyRank, AfterElection
<1>8. ASSUME NEW r \in Ranks, SaveShardId(r) PROVE TypeInv'
  <2>1. stored' \in [Ranks -> Int \cup {NotFound, NoNumber}]
    BY <1>8, RankFacts DEF SaveShardId, SavedId
  <2>2. pc' \in [Ranks -> Labels]
    BY <1>8 DEF SaveShardId, Goto, Labels
  <2>3. save_success' \in [Ranks -> Int]
    BY <1>8 DEF SaveShardId, Bools
  <2>4. next' \in [Ranks -> 1..WorldSize]
    BY <1>8, WorldSizeAssumption DEF SaveShardId
  <2>5. LoopBound'
    BY <1>8 DEF SaveShardId, LoopBound, Goto
  <2> QED BY <1>8, <2>1, <2>2, <2>3, <2>4, <2>5 DEF SaveShardId
<1>9. ASSUME NEW r \in Ranks, RecvSaved(r) PROVE TypeInv'
  <2>s. id_to_rank[r][next[r]] \in Ranks
    BY <1>9, LoopType DEF RecvSaved
  <2>1. next' \in [Ranks -> 1..WorldSize]
    BY <1>9, LoopType DEF RecvSaved
  <2>2. save_success' \in [Ranks -> Int]
    BY <1>9 DEF RecvSaved, And
  <2>3. chan' \in [Ranks \X Ranks -> Seq(Messages)]
    BY <1>9, <2>s, RecvType DEF RecvSaved
  <2>4. LoopBound'
    BY <1>9 DEF RecvSaved, LoopBound
  <2> QED BY <1>9, <2>1, <2>2, <2>3, <2>4 DEF RecvSaved
<1>10. ASSUME NEW r \in Ranks, BcastSaved(r) PROVE TypeInv'
  <2>1. pc' \in [Ranks -> Labels]
    BY <1>10 DEF BcastSaved, Goto, Labels, AfterSave
  <2>2. proxy_rank_' \in [Ranks -> Ranks \cup {Failed}]
    BY <1>10 DEF BcastSaved, AfterSave
  <2>3. /\ bcast' \in [Bcasts -> Int \cup {NotSent}]
        /\ bcast'["proxy_rank"] \in Ranks \cup {Failed, NotSent}
    BY <1>10 DEF BcastSaved, Bcast, Bcasts
  <2>4. LoopBound'
    BY <1>10 DEF BcastSaved, LoopBound, Goto, AfterSave
  <2> QED BY <1>10, <2>1, <2>2, <2>3, <2>4 DEF BcastSaved, AfterSave
<1>11. ASSUME NEW r \in Ranks, SendSaved(r) PROVE TypeInv'
  <2>1. pc' \in [Ranks -> Labels]
    BY <1>11 DEF SendSaved, Goto, Labels
  <2>2. chan' \in [Ranks \X Ranks -> Seq(Messages)]
    BY <1>11, RankFacts, SendType DEF SendSaved, Kinds
  <2>3. LoopBound'
    BY <1>11 DEF SendSaved, LoopBound, Goto
  <2> QED BY <1>11, <2>1, <2>2, <2>3 DEF SendSaved
<1>12. ASSUME NEW r \in Ranks, WaitSaved(r) PROVE TypeInv'
  <2>1. pc' \in [Ranks -> Labels]
    BY <1>12 DEF WaitSaved, Goto, Labels, AfterSave
  <2>2. proxy_rank_' \in [Ranks -> Ranks \cup {Failed}]
    BY <1>12 DEF WaitSaved, AfterSave
  <2>3. save_success' \in [Ranks -> Int]
    BY <1>12 DEF WaitSaved, Bcasts
  <2>4. LoopBound'
    BY <1>12 DEF WaitSaved, LoopBound, Goto, AfterSave
  <2> QED BY <1>12, <2>1, <2>2, <2>3, <2>4 DEF WaitSaved, AfterSave
<1>13. ASSUME NEW r \in Ranks, WriteHostname(r) PROVE TypeInv'
  <2>1. hostname_file' \in Int
    BY <1>13, RankFacts DEF WriteHostname, Address, Garbage
  <2>2. pc' \in [Ranks -> Labels]
    BY <1>13 DEF WriteHostname, Goto, Labels
  <2>3. next' \in [Ranks -> 1..WorldSize]
    BY <1>13, WorldSizeAssumption DEF WriteHostname
  <2>4. LoopBound'
    BY <1>13 DEF WriteHostname, LoopBound, Goto
  <2> QED BY <1>13, <2>1, <2>2, <2>3, <2>4 DEF WriteHostname
<1>14. ASSUME NEW r \in Ranks, RecvIpSize(r) PROVE TypeInv'
  <2>s. id_to_rank[r][next[r]] \in Ranks
    BY <1>14, LoopType DEF RecvIpSize
  <2>1. pc' \in [Ranks -> Labels]
    BY <1>14 DEF RecvIpSize, Goto, Labels
  <2>2. next' \in [Ranks -> 1..WorldSize]
    <3>1. next[r] + 1 \in 1..WorldSize
      BY <1>14, LoopType DEF RecvIpSize
    <3>2. next' = next \/ next' = [next EXCEPT ![r] = @ + 1]
      BY <1>14 DEF RecvIpSize
    <3> QED BY <3>1, <3>2
  <2>3. ip_success' \in [Ranks -> Int]
    BY <1>14 DEF RecvIpSize
  <2>4. chan' \in [Ranks \X Ranks -> Seq(Messages)]
    BY <1>14, <2>s, RecvType DEF RecvIpSize
  <2>5. LoopBound'
    BY <1>14 DEF RecvIpSize, LoopBound, Goto
  <2> QED BY <1>14, <2>1, <2>2, <2>3, <2>4, <2>5 DEF RecvIpSize
<1>15. ASSUME NEW r \in Ranks, RecvIp(r) PROVE TypeInv'
  <2>s. id_to_rank[r][next[r]] \in Ranks
    BY <1>15, LoopType DEF RecvIp, LoopBound
  <2>a. Received(id_to_rank[r][next[r]], r) \in Int
    BY <1>15, <2>s, RecvType DEF RecvIp
  <2>1. pc' \in [Ranks -> Labels]
    BY <1>15 DEF RecvIp, Goto, Labels
  <2>2. next' \in [Ranks -> 1..WorldSize]
    BY <1>15, LoopType DEF RecvIp, LoopBound
  <2>3. ip_addresses_' \in [Ranks -> Seq(Int)]
    BY <1>15, <2>a DEF RecvIp, PushBack
  <2>4. chan' \in [Ranks \X Ranks -> Seq(Messages)]
    BY <1>15, <2>s, RecvType DEF RecvIp
  <2>5. LoopBound'
    BY <1>15 DEF RecvIp, LoopBound, Goto
  <2> QED BY <1>15, <2>1, <2>2, <2>3, <2>4, <2>5 DEF RecvIp
<1>16. ASSUME NEW r \in Ranks, BcastResolved(r) PROVE TypeInv'
  <2>1. pc' \in [Ranks -> Labels]
    BY <1>16 DEF BcastResolved, Goto, Labels, Serving, AfterResolve, Main
  <2>2. ip_success' \in [Ranks -> Int]
    BY <1>16 DEF BcastResolved, AfterResolve
  <2>3. /\ bcast' \in [Bcasts -> Int \cup {NotSent}]
        /\ bcast'["proxy_rank"] \in Ranks \cup {Failed, NotSent}
    BY <1>16 DEF BcastResolved, Bcast, Bcasts
  <2>4. LoopBound'
    BY <1>16 DEF BcastResolved, LoopBound, Goto, AfterResolve, Main, Serving
  <2> QED BY <1>16, <2>1, <2>2, <2>3, <2>4 DEF BcastResolved, AfterResolve
<1>17. ASSUME NEW r \in Ranks, SendIpSize(r) PROVE TypeInv'
  <2>1. pc' \in [Ranks -> Labels]
    BY <1>17 DEF SendIpSize, Goto, Labels
  <2>2. chan' \in [Ranks \X Ranks -> Seq(Messages)]
    <3>1. PICK found \in BOOLEAN :
            Send(r, proxy_rank_[r], "ip_size", IF found THEN 1 ELSE Failed)
      BY <1>17 DEF SendIpSize
    <3>2. (IF found THEN 1 ELSE Failed) \in Int /\ "ip_size" \in Kinds
      BY RankFacts DEF Kinds
    <3> QED BY <3>1, <3>2, SendType
  <2>3. LoopBound'
    BY <1>17 DEF SendIpSize, LoopBound, Goto
  <2> QED BY <1>17, <2>1, <2>2, <2>3 DEF SendIpSize
<1>18. ASSUME NEW r \in Ranks, SendIp(r) PROVE TypeInv'
  <2>1. pc' \in [Ranks -> Labels]
    BY <1>18 DEF SendIp, Goto, Labels
  <2>2. chan' \in [Ranks \X Ranks -> Seq(Messages)]
    BY <1>18, RankFacts, SendType DEF SendIp, Kinds
  <2>3. LoopBound'
    BY <1>18 DEF SendIp, LoopBound, Goto
  <2> QED BY <1>18, <2>1, <2>2, <2>3 DEF SendIp
<1>19. ASSUME NEW r \in Ranks, WaitResolved(r) PROVE TypeInv'
  <2>1. pc' \in [Ranks -> Labels]
    BY <1>19 DEF WaitResolved, Goto, Labels, Serving, AfterResolve, Main
  <2>2. ip_success' \in [Ranks -> Int]
    BY <1>19 DEF WaitResolved, AfterResolve, Bcasts
  <2>3. LoopBound'
    BY <1>19 DEF WaitResolved, LoopBound, Goto, AfterResolve, Main, Serving
  <2> QED BY <1>19, <2>1, <2>2, <2>3 DEF WaitResolved, AfterResolve
<1>20. ASSUME NEW r \in Ranks, DirectPut(r) PROVE TypeInv'
  <2>1. stored' \in [Ranks -> Int \cup {NotFound, NoNumber}]
    BY <1>20, ClientIdsAssumption DEF DirectPut
  <2>2. LoopBound'
    BY <1>20 DEF DirectPut, LoopBound
  <2> QED BY <1>20, <2>1, <2>2 DEF DirectPut
<1>21. CASE Relaunch
  <2>1. /\ pc' \in [Ranks -> Labels]
        /\ db_' \in [Ranks -> BOOLEAN]
        /\ shard_id_' \in [Ranks -> Int]
        /\ proxy_rank_' \in [Ranks -> Ranks \cup {Failed}]
    BY <1>21, RankFacts DEF Relaunch, Started, Labels
  <2>2. /\ id_to_rank' \in [Ranks -> [1..(WorldSize - 1) -> Ranks]]
        /\ next' \in [Ranks -> 1..WorldSize]
    BY <1>21, RankFacts, WorldSizeAssumption DEF Relaunch, Started
  <2>3. /\ save_success' \in [Ranks -> Int]
        /\ ip_success' \in [Ranks -> Int]
        /\ ip_addresses_' \in [Ranks -> Seq(Int)]
    BY <1>21 DEF Relaunch, Started
  <2>4. /\ chan' \in [Ranks \X Ranks -> Seq(Messages)]
        /\ bcast' \in [Bcasts -> Int \cup {NotSent}]
        /\ bcast'["proxy_rank"] \in Ranks \cup {Failed, NotSent}
    BY <1>21 DEF Relaunch, Started, Bcasts
  <2>5. LoopBound' /\ launches' \in Nat
    BY <1>21 DEF Relaunch, Started, LoopBound
  <2> QED BY <1>21, <2>1, <2>2, <2>3, <2>4, <2>5 DEF Relaunch
<1>22. CASE UNCHANGED vars
  BY <1>22 DEF vars, LoopBound
<1> QED
  BY <1>1, <1>2, <1>3, <1>4, <1>5, <1>6, <1>7, <1>8, <1>9, <1>10, <1>11,
     <1>12, <1>13, <1>14, <1>15, <1>16, <1>17, <1>18, <1>19, <1>20, <1>21,
     <1>22, <1>23
  DEF Next, Step

\* The processes start well typed.
LEMMA TypeInit == Init => TypeInv
<1> SUFFICES ASSUME Init PROVE TypeInv
  OBVIOUS
<1>1. /\ stored \in [Ranks -> Int \cup {NotFound, NoNumber}]
      /\ hostname_file \in Int /\ launches \in Nat /\ eager \in BOOLEAN
      /\ pc \in [Ranks -> Labels]
      /\ db_ \in [Ranks -> BOOLEAN]
      /\ shard_id_ \in [Ranks -> Int]
      /\ proxy_rank_ \in [Ranks -> Ranks \cup {Failed}]
  BY RankFacts DEF Init, Started, Labels, NoFile
<1>2. /\ id_to_rank \in [Ranks -> [1..(WorldSize - 1) -> Ranks]]
      /\ next \in [Ranks -> 1..WorldSize]
  BY RankFacts, WorldSizeAssumption DEF Init, Started
<1>3. /\ save_success \in [Ranks -> Int]
      /\ ip_success \in [Ranks -> Int]
      /\ ip_addresses_ \in [Ranks -> Seq(Int)]
      /\ chan \in [Ranks \X Ranks -> Seq(Messages)]
      /\ bcast \in [Bcasts -> Int \cup {NotSent}]
      /\ bcast["proxy_rank"] \in Ranks \cup {Failed, NotSent}
  BY DEF Init, Started, Bcasts
<1>4. LoopBound
  BY DEF Init, Started, LoopBound
<1>5. tampered \in BOOLEAN
  BY Zenon DEF Init
<1> QED BY <1>1, <1>2, <1>3, <1>4, <1>5 DEF TypeInv, TypeOK

\* Type correctness: no sequence of steps gives a variable a value outside the
\* range the code handles.
THEOREM TypeCorrect == Spec => []TypeOK
<1>1. Init => TypeInv
  BY TypeInit
<1>2. TypeInv => TypeOK
  BY DEF TypeInv
<1> QED BY <1>1, <1>2, TypeStep, PTL DEF Spec

-----------------------------------------------------------------------------
(* Agreement. *)

\* The labels of the phases of a launch are different ones, and the broadcast
\* values are told apart from "not broadcast yet".
LEMMA Phases ==
  ASSUME TypeOK
  PROVE  /\ \A r \in Ranks : pc[r] \in Electing \cup Saving \cup Resolving
                                        \cup Serving \cup {"exited"}
         /\ bcast["proxy_rank"] \in Ranks \cup {Failed, NotSent}
         /\ 0 \in Ranks /\ Failed \notin Ranks
         /\ NotSent \notin Ranks /\ NotSent # Failed /\ NotSent # 0
<1>1. \A r \in Ranks : pc[r] \in Labels
  BY DEF TypeOK
<1>2. Labels = Electing \cup Saving \cup Resolving \cup Serving \cup {"exited"}
  BY DEF Labels, Electing, Saving, Resolving, Serving
<1> QED BY <1>1, <1>2, RankFacts DEF TypeOK

\* A rank that takes a step within a phase disturbs nobody.
LEMMA QuietStep ==
  ASSUME Inv, NEW r \in Ranks, NEW l \in Labels, pc' = [pc EXCEPT ![r] = l],
         bcast' = bcast,
         \A q \in Ranks : pc[q] \notin Electing => proxy_rank_'[q] = proxy_rank_[q],
         NEW P \in {Electing, Saving, Resolving}, pc[r] \in P, l \in P,
         l = "RecvShardIds" => r = 0,
         l = "WaitProxyRank" => r # 0,
         l \in {"RecvSaved", "RecvIpSizes", "RecvIp"} => r = proxy_rank_[r]
  PROVE  (Obeyed /\ Roots)'
<1>1. TypeOK
  BY DEF Inv, TypeInv
<1>2. /\ pc'[r] = l
      /\ \A q \in Ranks \ {r} : pc'[q] = pc[q]
  BY <1>1 DEF TypeOK
<1>3. \A q \in Ranks :
        /\ pc'[q] \in Electing <=> pc[q] \in Electing
        /\ pc'[q] \in Saving <=> pc[q] \in Saving
        /\ pc'[q] \in Resolving <=> pc[q] \in Resolving
        /\ pc'[q] \in Serving <=> pc[q] \in Serving
        /\ pc'[q] = "exited" <=> pc[q] = "exited"
  <2>1. \A x \in P, y \in P :
          /\ x \in Electing <=> y \in Electing
          /\ x \in Saving <=> y \in Saving
          /\ x \in Resolving <=> y \in Resolving
          /\ x \notin Serving /\ x # "exited"
    BY DEF Electing, Saving, Resolving, Serving
  <2> QED BY <1>2, <2>1
<1>4. \A q \in Ranks : pc[q] \in Saving \cup Resolving \cup Serving =>
        pc[q] \notin Electing /\ proxy_rank_'[q] = proxy_rank_[q]
  BY DEF Electing, Saving, Resolving, Serving
<1>5. Obeyed'
  BY <1>3, <1>4 DEF Inv, Obeyed
<1>6. /\ \A q \in Ranks : pc'[q] = "RecvShardIds" => q = 0
      /\ pc'[0] # "WaitProxyRank"
  BY <1>1, <1>2, Phases DEF Inv, Roots
<1>7. \A q \in Ranks : pc'[q] \in {"RecvSaved", "RecvIpSizes", "RecvIp"} =>
        q = proxy_rank_'[q]
  <2>1. \A q \in Ranks : pc'[q] \in {"RecvSaved", "RecvIpSizes", "RecvIp"} =>
          q = proxy_rank_[q] /\ pc'[q] \notin Electing
    BY <1>2 DEF Inv, Roots, Electing
  <2> QED BY <1>3, <2>1
<1>8. Roots'
  BY <1>1, <1>3, <1>6, <1>7, Phases DEF Inv, Roots
<1> QED BY <1>5, <1>8

\* Every step preserves what is known of the collective calls.
LEMMA AgreementStep == Inv /\ [Next]_vars => (Obeyed /\ Roots)'
<1> SUFFICES ASSUME Inv, [Next]_vars PROVE (Obeyed /\ Roots)'
  OBVIOUS
<1> TypeOK
  BY DEF Inv, TypeInv
<1> USE Phases DEF Inv, Goto
<1>1. ASSUME NEW r \in Ranks, OpenDb(r) PROVE (Obeyed /\ Roots)'
  <2>1. PICK l \in {"GetShardId"} :
          /\ pc' = [pc EXCEPT ![r] = l] /\ pc[r] \in Electing
          /\ l = "RecvShardIds" => r = 0
          /\ l = "WaitProxyRank" => r # 0
          /\ l \in {"RecvSaved", "RecvIpSizes", "RecvIp"} => r = proxy_rank_[r]
    BY <1>1 DEF OpenDb, Electing, TypeOK
  <2>2. l \in Electing /\ l \in Labels
    BY <2>1 DEF Electing, Labels
  <2>3. /\ bcast' = bcast
        /\ \A q \in Ranks : pc[q] \notin Electing => proxy_rank_'[q] = proxy_rank_[q]
    BY <1>1 DEF OpenDb, Electing, TypeOK
  <2> QED BY <2>1, <2>2, <2>3, QuietStep
<1>2. ASSUME NEW r \in Ranks, GetShardId(r) PROVE (Obeyed /\ Roots)'
  <2>1. PICK l \in {"ShakeHands"} :
          /\ pc' = [pc EXCEPT ![r] = l] /\ pc[r] \in Electing
          /\ l = "RecvShardIds" => r = 0
          /\ l = "WaitProxyRank" => r # 0
          /\ l \in {"RecvSaved", "RecvIpSizes", "RecvIp"} => r = proxy_rank_[r]
    BY <1>2 DEF GetShardId, Electing, TypeOK
  <2>2. l \in Electing /\ l \in Labels
    BY <2>1 DEF Electing, Labels
  <2>3. /\ bcast' = bcast
        /\ \A q \in Ranks : pc[q] \notin Electing => proxy_rank_'[q] = proxy_rank_[q]
    BY <1>2 DEF GetShardId, Electing, TypeOK
  <2> QED BY <2>1, <2>2, <2>3, QuietStep
<1>23. ASSUME NEW r \in Ranks, StoiThrows(r) PROVE (Obeyed /\ Roots)'
  <2>1. PICK l \in {"aborted"} :
          /\ pc' = [pc EXCEPT ![r] = l] /\ pc[r] \in Electing
          /\ l = "RecvShardIds" => r = 0
          /\ l = "WaitProxyRank" => r # 0
          /\ l \in {"RecvSaved", "RecvIpSizes", "RecvIp"} => r = proxy_rank_[r]
    BY <1>23 DEF StoiThrows, Electing, TypeOK
  <2>2. l \in Electing /\ l \in Labels
    BY <2>1 DEF Electing, Labels
  <2>3. /\ bcast' = bcast
        /\ \A q \in Ranks : pc[q] \notin Electing => proxy_rank_'[q] = proxy_rank_[q]
    BY <1>23 DEF StoiThrows, Electing, TypeOK
  <2> QED BY <2>1, <2>2, <2>3, QuietStep
<1>3. ASSUME NEW r \in Ranks, StartCollecting(r) PROVE (Obeyed /\ Roots)'
  <2>1. PICK l \in {"RecvShardIds"} :
          /\ pc' = [pc EXCEPT ![r] = l] /\ pc[r] \in Electing
          /\ l = "RecvShardIds" => r = 0
          /\ l = "WaitProxyRank" => r # 0
          /\ l \in {"RecvSaved", "RecvIpSizes", "RecvIp"} => r = proxy_rank_[r]
    BY <1>3 DEF StartCollecting, Electing, TypeOK
  <2>2. l \in Electing /\ l \in Labels
    BY <2>1 DEF Electing, Labels
  <2>3. /\ bcast' = bcast
        /\ \A q \in Ranks : pc[q] \notin Electing => proxy_rank_'[q] = proxy_rank_[q]
    BY <1>3 DEF StartCollecting, Electing, TypeOK
  <2> QED BY <2>1, <2>2, <2>3, QuietStep
<1>4. ASSUME NEW r \in Ranks, RecvShardId(r) PROVE (Obeyed /\ Roots)'
  <2>1. PICK l \in {"RecvShardIds"} :
          /\ pc' = [pc EXCEPT ![r] = l] /\ pc[r] \in Electing
          /\ l = "RecvShardIds" => r = 0
          /\ l = "WaitProxyRank" => r # 0
          /\ l \in {"RecvSaved", "RecvIpSizes", "RecvIp"} => r = proxy_rank_[r]
    BY <1>4 DEF RecvShardId, Roots, Electing, TypeOK
  <2>2. l \in Electing /\ l \in Labels
    BY <2>1 DEF Electing, Labels
  <2>3. /\ bcast' = bcast
        /\ \A q \in Ranks : pc[q] \notin Electing => proxy_rank_'[q] = proxy_rank_[q]
    BY <1>4 DEF RecvShardId, Electing, TypeOK
  <2> QED BY <2>1, <2>2, <2>3, QuietStep
<1>5. ASSUME NEW r \in Ranks, BcastProxyRank(r) PROVE (Obeyed /\ Roots)'
  <2>1. /\ r = 0 /\ bcast["proxy_rank"] = NotSent
        /\ bcast["saved"] = NotSent /\ bcast["resolved"] = NotSent
    BY <1>5 DEF BcastProxyRank, Roots, Electing
  <2>2. \A q \in Ranks : pc[q] \in Electing
    BY <2>1 DEF Obeyed
  <2>3. /\ bcast'["proxy_rank"] = proxy_rank_[r]
        /\ bcast'["saved"] = NotSent /\ bcast'["resolved"] = NotSent
        /\ proxy_rank_' = proxy_rank_ /\ proxy_rank_[r] \in Ranks \cup {Failed}
    BY <1>5, <2>1 DEF BcastProxyRank, Bcast, Bcasts, TypeOK
  <2>4. /\ \A q \in Ranks \ {r} : pc'[q] \in Electing
        /\ pc'[r] = IF proxy_rank_[r] = Failed THEN "exited" ELSE "SaveShardId"
        /\ \A q \in Ranks \ {r} : pc'[q] = pc[q]
    BY <1>5, <2>2 DEF BcastProxyRank, AfterElection, TypeOK
  <2>5. Obeyed'
    BY <2>3, <2>4 DEF Obeyed, Electing, Saving, Resolving, Serving
  <2>6. Roots'
    BY <2>1, <2>3, <2>4 DEF Roots, Electing, Saving, Resolving, Serving
  <2> QED BY <2>5, <2>6
<1>6. ASSUME NEW r \in Ranks, SendShardId(r) PROVE (Obeyed /\ Roots)'
  <2>1. PICK l \in {"WaitProxyRank"} :
          /\ pc' = [pc EXCEPT ![r] = l] /\ pc[r] \in Electing
          /\ l = "RecvShardIds" => r = 0
          /\ l = "WaitProxyRank" => r # 0
          /\ l \in {"RecvSaved", "RecvIpSizes", "RecvIp"} => r = proxy_rank_[r]
    BY <1>6 DEF SendShardId, Electing, TypeOK
  <2>2. l \in Electing /\ l \in Labels
    BY <2>1 DEF Electing, Labels
  <2>3. /\ bcast' = bcast
        /\ \A q \in Ranks : pc[q] \notin Electing => proxy_rank_'[q] = proxy_rank_[q]
    BY <1>6 DEF SendShardId, Electing, TypeOK
  <2> QED BY <2>1, <2>2, <2>3, QuietStep
<1>7. ASSUME NEW r \in Ranks, WaitProxyRank(r) PROVE (Obeyed /\ Roots)'
  <2>1. /\ pc[r] = "WaitProxyRank" /\ r # 0 /\ bcast' = bcast
        /\ bcast["proxy_rank"] \in Ranks \cup {Failed}
    BY <1>7 DEF WaitProxyRank, Roots
  <2>2. /\ pc'[r] = IF bcast["proxy_rank"] = Failed THEN "exited" ELSE "SaveShardId"
        /\ proxy_rank_'[r] = bcast["proxy_rank"]
        /\ \A q \in Ranks \ {r} : pc'[q] = pc[q] /\ proxy_rank_'[q] = proxy_rank_[q]
    BY <1>7 DEF WaitProxyRank, AfterElection, TypeOK
  <2>3. pc[r] \in Electing /\ "SaveShardId" \in Saving
    BY <2>1 DEF Electing, Saving
  <2>4. /\ pc'[r] \notin Electing \cup Resolving \cup Serving
        /\ pc'[r] \notin {"RecvShardIds", "RecvSaved", "RecvIpSizes", "RecvIp"}
    BY <2>2 DEF Electing, Resolving, Serving
  <2>5. pc'[r] = "exited" => bcast["proxy_rank"] = Failed
    BY <2>2
  <2>6. pc'[r] \in Saving => bcast["proxy_rank"] \in Ranks
    BY <2>1, <2>2 DEF Saving
  <2>7. Obeyed'
    BY <2>1, <2>2, <2>4, <2>5, <2>6 DEF Obeyed
  <2>8. Roots'
    BY <2>1, <2>2, <2>3, <2>4 DEF Roots
  <2> QED BY <2>7, <2>8
<1>8. ASSUME NEW r \in Ranks, SaveShardId(r) PROVE (Obeyed /\ Roots)'
  <2>1. PICK l \in {"RecvSaved", "SendSaved"} :
          /\ pc' = [pc EXCEPT ![r] = l] /\ pc[r] \in Saving
          /\ l = "RecvShardIds" => r = 0
          /\ l = "WaitProxyRank" => r # 0
          /\ l \in {"RecvSaved", "RecvIpSizes", "RecvIp"} => r = proxy_rank_[r]
    BY <1>8 DEF SaveShardId, Saving, TypeOK
  <2>2. l \in Saving /\ l \in Labels
    BY <2>1 DEF Saving, Labels
  <2>3. /\ bcast' = bcast
        /\ \A q \in Ranks : pc[q] \notin Electing => proxy_rank_'[q] = proxy_rank_[q]
    BY <1>8 DEF SaveShardId, Electing, TypeOK
  <2> QED BY <2>1, <2>2, <2>3, QuietStep
<1>9. ASSUME NEW r \in Ranks, RecvSaved(r) PROVE (Obeyed /\ Roots)'
  <2>1. PICK l \in {"RecvSaved"} :
          /\ pc' = [pc EXCEPT ![r] = l] /\ pc[r] \in Saving
          /\ l = "RecvShardIds" => r = 0
          /\ l = "WaitProxyRank" => r # 0
          /\ l \in {"RecvSaved", "RecvIpSizes", "RecvIp"} => r = proxy_rank_[r]
    BY <1>9 DEF RecvSaved, Roots, Saving, TypeOK
  <2>2. l \in Saving /\ l \in Labels
    BY <2>1 DEF Saving, Labels
  <2>3. /\ bcast' = bcast
        /\ \A q \in Ranks : pc[q] \notin Electing => proxy_rank_'[q] = proxy_rank_[q]
    BY <1>9 DEF RecvSaved, Electing, TypeOK
  <2> QED BY <2>1, <2>2, <2>3, QuietStep
<1>10. ASSUME NEW r \in Ranks, BcastSaved(r) PROVE (Obeyed /\ Roots)'
  <2>1. /\ r = bcast["proxy_rank"] /\ r = proxy_rank_[r]
        /\ bcast["saved"] = NotSent
    BY <1>10 DEF BcastSaved, Obeyed, Roots, Saving, Resolving
  <2>2. /\ bcast'["saved"] = save_success[r] /\ save_success[r] \in Int
        /\ bcast'["resolved"] = bcast["resolved"]
        /\ bcast'["proxy_rank"] = bcast["proxy_rank"]
    BY <1>10 DEF BcastSaved, Bcast, Bcasts, TypeOK
  <2>3. /\ pc'[r] = IF save_success[r] = 0 THEN "exited" ELSE "ResolveIp"
        /\ \A q \in Ranks \ {r} : pc'[q] = pc[q] /\ proxy_rank_'[q] = proxy_rank_[q]
        /\ save_success[r] # 0 => proxy_rank_'[r] = proxy_rank_[r]
    BY <1>10 DEF BcastSaved, AfterSave, TypeOK
  <2>4. pc[r] = "RecvSaved"
    BY <1>10 DEF BcastSaved
  <2>5. NotSent # save_success[r]
    BY <2>2, RankFacts
  <2>6. Obeyed'
    BY <2>1, <2>2, <2>3, <2>4, <2>5 DEF Obeyed, Electing, Saving, Resolving,
       Serving
  <2>7. pc'[r] \notin Electing \cup Saving
    BY <2>3 DEF Electing, Saving
  <2>8. pc'[r] \notin {"RecvShardIds", "RecvSaved", "RecvIpSizes", "RecvIp",
                       "WaitProxyRank"}
    BY <2>3
  <2>9. \A q \in Ranks : q = bcast'["proxy_rank"] => q = r
    BY <2>1, <2>2
  <2>10. pc'[r] \in Resolving => bcast'["resolved"] = NotSent
    BY <2>1, <2>2, <2>4 DEF Roots, Saving
  <2>11. Roots'
    BY <2>1, <2>2, <2>3, <2>7, <2>8, <2>9, <2>10 DEF Roots
  <2> QED BY <2>6, <2>11
<1>11. ASSUME NEW r \in Ranks, SendSaved(r) PROVE (Obeyed /\ Roots)'
  <2>1. PICK l \in {"WaitSaved"} :
          /\ pc' = [pc EXCEPT ![r] = l] /\ pc[r] \in Saving
          /\ l = "RecvShardIds" => r = 0
          /\ l = "WaitProxyRank" => r # 0
          /\ l \in {"RecvSaved", "RecvIpSizes", "RecvIp"} => r = proxy_rank_[r]
    BY <1>11 DEF SendSaved, Saving, TypeOK
  <2>2. l \in Saving /\ l \in Labels
    BY <2>1 DEF Saving, Labels
  <2>3. /\ bcast' = bcast
        /\ \A q \in Ranks : pc[q] \notin Electing => proxy_rank_'[q] = proxy_rank_[q]
    BY <1>11 DEF SendSaved, Electing, TypeOK
  <2> QED BY <2>1, <2>2, <2>3, QuietStep
<1>12. ASSUME NEW r \in Ranks, WaitSaved(r) PROVE (Obeyed /\ Roots)'
  <2>1. /\ pc[r] = "WaitSaved" /\ bcast' = bcast /\ bcast["saved"] # NotSent
    BY <1>12 DEF WaitSaved
  <2>2. /\ pc'[r] = IF bcast["saved"] = 0 THEN "exited" ELSE "ResolveIp"
        /\ \A q \in Ranks \ {r} : pc'[q] = pc[q] /\ proxy_rank_'[q] = proxy_rank_[q]
        /\ bcast["saved"] # 0 => proxy_rank_'[r] = proxy_rank_[r]
    BY <1>12 DEF WaitSaved, AfterSave, TypeOK
  <2>3. pc[r] \in Saving
    BY <2>1 DEF Saving
  <2>4. /\ pc'[r] \notin Electing \cup Saving \cup Serving
        /\ pc'[r] \notin {"RecvShardIds", "RecvSaved", "RecvIpSizes", "RecvIp",
                          "WaitProxyRank"}
        /\ pc'[r] \in Resolving => bcast["saved"] # 0
        /\ pc'[r] = "exited" => bcast["saved"] = 0
    BY <2>2 DEF Electing, Saving, Resolving, Serving
  <2>5. Obeyed'
    BY <2>1, <2>2, <2>3, <2>4 DEF Obeyed
  <2>6. Roots'
    BY <2>1, <2>2, <2>3, <2>4 DEF Roots
  <2> QED BY <2>5, <2>6
<1>13. ASSUME NEW r \in Ranks, WriteHostname(r) PROVE (Obeyed /\ Roots)'
  <2>1. PICK l \in {"RecvIpSizes"} :
          /\ pc' = [pc EXCEPT ![r] = l] /\ pc[r] \in Resolving
          /\ l = "RecvShardIds" => r = 0
          /\ l = "WaitProxyRank" => r # 0
          /\ l \in {"RecvSaved", "RecvIpSizes", "RecvIp"} => r = proxy_rank_[r]
    BY <1>13 DEF WriteHostname, Resolving, TypeOK
  <2>2. l \in Resolving /\ l \in Labels
    BY <2>1 DEF Resolving, Labels
  <2>3. /\ bcast' = bcast
        /\ \A q \in Ranks : pc[q] \notin Electing => proxy_rank_'[q] = proxy_rank_[q]
    BY <1>13 DEF WriteHostname, Electing, TypeOK
  <2> QED BY <2>1, <2>2, <2>3, QuietStep
<1>14. ASSUME NEW r \in Ranks, RecvIpSize(r) PROVE (Obeyed /\ Roots)'
  <2>1. PICK l \in {"RecvIpSizes", "RecvIp"} :
          /\ pc' = [pc EXCEPT ![r] = l] /\ pc[r] \in Resolving
          /\ l = "RecvShardIds" => r = 0
          /\ l = "WaitProxyRank" => r # 0
          /\ l \in {"RecvSaved", "RecvIpSizes", "RecvIp"} => r = proxy_rank_[r]
    BY <1>14 DEF RecvIpSize, Roots, Resolving, TypeOK
  <2>2. l \in Resolving /\ l \in Labels
    BY <2>1 DEF Resolving, Labels
  <2>3. /\ bcast' = bcast
        /\ \A q \in Ranks : pc[q] \notin Electing => proxy_rank_'[q] = proxy_rank_[q]
    BY <1>14 DEF RecvIpSize, Electing, TypeOK
  <2> QED BY <2>1, <2>2, <2>3, QuietStep
<1>15. ASSUME NEW r \in Ranks, RecvIp(r) PROVE (Obeyed /\ Roots)'
  <2>1. PICK l \in {"RecvIpSizes"} :
          /\ pc' = [pc EXCEPT ![r] = l] /\ pc[r] \in Resolving
          /\ l = "RecvShardIds" => r = 0
          /\ l = "WaitProxyRank" => r # 0
          /\ l \in {"RecvSaved", "RecvIpSizes", "RecvIp"} => r = proxy_rank_[r]
    BY <1>15 DEF RecvIp, Roots, Resolving, TypeOK
  <2>2. l \in Resolving /\ l \in Labels
    BY <2>1 DEF Resolving, Labels
  <2>3. /\ bcast' = bcast
        /\ \A q \in Ranks : pc[q] \notin Electing => proxy_rank_'[q] = proxy_rank_[q]
    BY <1>15 DEF RecvIp, Electing, TypeOK
  <2> QED BY <2>1, <2>2, <2>3, QuietStep
<1>16. ASSUME NEW r \in Ranks, BcastResolved(r) PROVE (Obeyed /\ Roots)'
  <2>1. /\ r = bcast["proxy_rank"] /\ r = proxy_rank_[r]
        /\ bcast["resolved"] = NotSent
    BY <1>16 DEF BcastResolved, Obeyed, Roots, Saving, Resolving
  <2>2. /\ bcast'["resolved"] = ip_success[r] /\ ip_success[r] \in Int
        /\ bcast'["saved"] = bcast["saved"]
        /\ bcast'["proxy_rank"] = bcast["proxy_rank"]
    BY <1>16 DEF BcastResolved, Bcast, Bcasts, TypeOK
  <2>3. /\ pc'[r] = IF ip_success[r] = 0 THEN "exited" ELSE Main(r)
        /\ \A q \in Ranks \ {r} : pc'[q] = pc[q] /\ proxy_rank_'[q] = proxy_rank_[q]
        /\ ip_success[r] # 0 => proxy_rank_'[r] = proxy_rank_[r]
    BY <1>16 DEF BcastResolved, AfterResolve, TypeOK
  <2>4. Main(r) \in Serving
    BY DEF Main, Serving
  <2>5. pc[r] = "RecvIpSizes"
    BY <1>16 DEF BcastResolved
  <2>6. NotSent # ip_success[r]
    BY <2>2, RankFacts
  <2>7. Obeyed'
    BY <2>1, <2>2, <2>3, <2>4, <2>5, <2>6 DEF Obeyed, Electing, Saving,
       Resolving, Serving
  <2>8. pc'[r] \notin Electing \cup Saving \cup Resolving
    BY <2>3, <2>4 DEF Electing, Saving, Resolving, Serving
  <2>9. pc'[r] \notin {"RecvShardIds", "RecvSaved", "RecvIpSizes", "RecvIp",
                       "WaitProxyRank"}
    BY <2>8 DEF Electing, Saving, Resolving
  <2>10. \A q \in Ranks : q = bcast'["proxy_rank"] => q = r
    BY <2>1, <2>2
  <2>11. Roots'
    BY <2>1, <2>2, <2>3, <2>8, <2>9, <2>10 DEF Roots
  <2> QED BY <2>7, <2>11
<1>17. ASSUME NEW r \in Ranks, SendIpSize(r) PROVE (Obeyed /\ Roots)'
  <2>1. PICK l \in {"SendIp", "WaitResolved"} :
          /\ pc' = [pc EXCEPT ![r] = l] /\ pc[r] \in Resolving
          /\ l = "RecvShardIds" => r = 0
          /\ l = "WaitProxyRank" => r # 0
          /\ l \in {"RecvSaved", "RecvIpSizes", "RecvIp"} => r = proxy_rank_[r]
    BY <1>17 DEF SendIpSize, Resolving, TypeOK
  <2>2. l \in Resolving /\ l \in Labels
    BY <2>1 DEF Resolving, Labels
  <2>3. /\ bcast' = bcast
        /\ \A q \in Ranks : pc[q] \notin Electing => proxy_rank_'[q] = proxy_rank_[q]
    BY <1>17 DEF SendIpSize, Electing, TypeOK
  <2> QED BY <2>1, <2>2, <2>3, QuietStep
<1>18. ASSUME NEW r \in Ranks, SendIp(r) PROVE (Obeyed /\ Roots)'
  <2>1. PICK l \in {"WaitResolved"} :
          /\ pc' = [pc EXCEPT ![r] = l] /\ pc[r] \in Resolving
          /\ l = "RecvShardIds" => r = 0
          /\ l = "WaitProxyRank" => r # 0
          /\ l \in {"RecvSaved", "RecvIpSizes", "RecvIp"} => r = proxy_rank_[r]
    BY <1>18 DEF SendIp, Resolving, TypeOK
  <2>2. l \in Resolving /\ l \in Labels
    BY <2>1 DEF Resolving, Labels
  <2>3. /\ bcast' = bcast
        /\ \A q \in Ranks : pc[q] \notin Electing => proxy_rank_'[q] = proxy_rank_[q]
    BY <1>18 DEF SendIp, Electing, TypeOK
  <2> QED BY <2>1, <2>2, <2>3, QuietStep
<1>19. ASSUME NEW r \in Ranks, WaitResolved(r) PROVE (Obeyed /\ Roots)'
  <2>1. Obeyed'
    BY <1>19 DEF Obeyed, Roots, WaitResolved, AfterResolve, Main, Electing,
       Saving, Resolving, Serving, TypeOK
  <2>2. Roots'
    BY <1>19 DEF Obeyed, Roots, WaitResolved, AfterResolve, Main, Electing,
       Saving, Resolving, Serving, TypeOK
  <2> QED BY <2>1, <2>2
<1>20. ASSUME NEW r \in Ranks, DirectPut(r) PROVE (Obeyed /\ Roots)'
  <2>1. Obeyed'
    BY <1>20 DEF Obeyed, Roots, DirectPut, Electing, Saving, Resolving,
       Serving, TypeOK
  <2>2. Roots'
    BY <1>20 DEF Obeyed, Roots, DirectPut, Electing, Saving, Resolving,
       Serving, TypeOK
  <2> QED BY <2>1, <2>2
<1>21. CASE Relaunch
  BY <1>21 DEF Relaunch, Started, Obeyed, Roots, Bcasts, Electing, Saving,
     Resolving, Serving
<1>22. CASE UNCHANGED vars
  BY <1>22 DEF vars, Obeyed, Roots
<1> QED
  BY <1>1, <1>2, <1>3, <1>4, <1>5, <1>6, <1>7, <1>8, <1>9, <1>10, <1>11,
     <1>12, <1>13, <1>14, <1>15, <1>16, <1>17, <1>18, <1>19, <1>20, <1>21,
     <1>22, <1>23
  DEF Next, Step

\* Nothing has been broadcast when the processes start.
LEMMA InvInit == Init => Inv
<1> SUFFICES ASSUME Init PROVE Inv
  OBVIOUS
<1>1. TypeInv
  BY TypeInit
<1>2. Obeyed /\ Roots
  BY RankFacts DEF Init, Started, Obeyed, Roots, Bcasts, Electing, Saving,
     Resolving, Serving
<1> QED BY <1>1, <1>2 DEF Inv

-----------------------------------------------------------------------------
(* No null store is used. *)

\* Once a proxy is elected, the messages in the channels no longer matter.
LEMMA ElectedStep ==
  ASSUME DbInv, NEW r \in Ranks, NEW l \in Labels \ Electing,
         pc[r] \in Saving \cup Resolving, pc' = [pc EXCEPT ![r] = l],
         bcast'["proxy_rank"] = bcast["proxy_rank"],
         db_' = db_, shard_id_' = shard_id_
  PROVE  Reports'
<1>1. TypeOK
  BY DEF DbInv, Inv, TypeInv
<1>2. bcast["proxy_rank"] \in Ranks /\ bcast["proxy_rank"] # NotSent
  BY <1>1, Phases DEF DbInv, Inv, Obeyed
<1>3. pc[0] \notin Electing /\ pc'[0] \notin Electing
  BY <1>1, <1>2, Phases DEF DbInv, Inv, Roots, TypeOK
<1>4. \A q \in Ranks : HasId(q) /\ HasId(q)' /\ db_'[q]
  <2>1. \A q \in Ranks : HasId(q) /\ db_[q]
    BY <1>2 DEF DbInv, Reports
  <2> QED BY <1>1, <2>1 DEF HasId, TypeOK, Electing
<1> QED BY <1>2, <1>3, <1>4 DEF Reports, Electing

\* A step before the handshake changes nothing that was reported.
LEMMA BeforeHandshake ==
  ASSUME DbInv, NEW r \in Ranks,
         pc[r] \in {"OpenDb", "GetShardId"},
         pc'[r] \in {"GetShardId", "aborted", "ShakeHands"},
         \A q \in Ranks \ {r} : /\ pc'[q] = pc[q] /\ db_'[q] = db_[q]
                                 /\ shard_id_'[q] = shard_id_[q],
         HasId(r)' => db_'[r],
         next' = next, chan' = chan, bcast' = bcast, proxy_rank_' = proxy_rank_
  PROVE  Reports'
<1>1. \A q \in Ranks \ {r} : HasId(q)' <=> HasId(q)
  BY DEF HasId
<1>2. ~HasId(r)
  BY DEF HasId
<1>3. \A q \in Ranks : HasId(q)' => db_'[q]
  BY <1>1 DEF DbInv, Reports
<1>4. bcast'["proxy_rank"] \notin Ranks
  BY <1>2 DEF DbInv, Reports
<1>5. 0 \in Ranks
  BY RankFacts
<1>6. pc'[0] \in {"OpenDb", "GetShardId", "ShakeHands"} => next'[0] = 1
  BY <1>5 DEF DbInv, Reports
<1>7. pc'[0] = "RecvShardIds" /\ proxy_rank_'[0] # Failed =>
        \A q \in Ranks : q < next'[0] => HasId(q)'
  BY <1>1, <1>2, <1>5 DEF DbInv, Reports
<1>8. bcast'["proxy_rank"] = NotSent => \A q \in Ranks \ {0} :
        /\ pc'[q] \in {"OpenDb", "GetShardId", "aborted", "ShakeHands"} =>
             chan'[<<q, 0>>] = <<>>
        /\ pc'[q] = "WaitProxyRank" =>
             chan'[<<q, 0>>] \in {<<>>, <<Msg("shard_id", shard_id_'[q])>>}
  BY DEF DbInv, Reports
<1> QED BY <1>3, <1>4, <1>6, <1>7, <1>8 DEF Reports

\* Every step preserves what is known of the reported ids.
LEMMA ReportsStep == DbInv /\ [Next]_vars => Reports'
<1> SUFFICES ASSUME DbInv, [Next]_vars PROVE Reports'
  OBVIOUS
<1> TypeOK
  BY DEF DbInv, Inv, TypeInv
<1> USE Phases DEF DbInv, Inv, Goto, HasId
<1>1. ASSUME NEW r \in Ranks, OpenDb(r) PROVE Reports'
  <2>1. /\ pc[r] = "OpenDb" /\ pc'[r] = "GetShardId"
        /\ \A q \in Ranks \ {r} : pc'[q] = pc[q] /\ db_'[q] = db_[q]
        /\ shard_id_' = shard_id_
    BY <1>1 DEF OpenDb, TypeOK
  <2> QED BY <1>1, <2>1, BeforeHandshake DEF OpenDb
<1>2. ASSUME NEW r \in Ranks, GetShardId(r) PROVE Reports'
  <2>1. /\ pc[r] = "GetShardId" /\ pc'[r] = "ShakeHands"
        /\ \A q \in Ranks \ {r} : pc'[q] = pc[q] /\ shard_id_'[q] = shard_id_[q]
        /\ db_' = db_ /\ (shard_id_'[r] # Failed => db_[r])
    BY <1>2 DEF GetShardId, ReadIds, TypeOK
  <2> QED BY <1>2, <2>1, BeforeHandshake DEF GetShardId
<1>23. ASSUME NEW r \in Ranks, StoiThrows(r) PROVE Reports'
  <2>1. /\ pc[r] = "GetShardId" /\ pc'[r] = "aborted"
        /\ \A q \in Ranks \ {r} : pc'[q] = pc[q]
        /\ db_' = db_ /\ shard_id_' = shard_id_
    BY <1>23 DEF StoiThrows, TypeOK
  <2> QED BY <1>23, <2>1, BeforeHandshake DEF StoiThrows
<1>3. ASSUME NEW r \in Ranks, StartCollecting(r) PROVE Reports'
  <2>1. /\ r = 0 /\ pc[0] = "ShakeHands" /\ next[0] = 1 /\ next' = next
        /\ bcast' = bcast /\ db_' = db_ /\ shard_id_' = shard_id_ /\ chan' = chan
    BY <1>3 DEF StartCollecting, Reports
  <2>2. /\ pc'[0] = "RecvShardIds"
        /\ \A q \in Ranks \ {0} : pc'[q] = pc[q]
        /\ proxy_rank_'[0] # Failed => shard_id_[0] # Failed
    BY <1>3, <2>1 DEF StartCollecting, TypeOK
  <2>3. \A q \in Ranks : HasId(q)' <=> HasId(q)
    BY <2>1, <2>2
  <2>4. \A q \in Ranks : q < 1 => q = 0
    BY DEF Ranks
  <2> HIDE DEF HasId
  <2>5. /\ \A q \in Ranks : HasId(q)' => db_'[q]
        /\ bcast'["proxy_rank"] \in Ranks => \A q \in Ranks : HasId(q)'
    BY <2>1, <2>3 DEF Reports
  <2>6. proxy_rank_'[0] # Failed => \A q \in Ranks : q < next'[0] => HasId(q)'
    BY <2>1, <2>2, <2>4 DEF HasId
  <2> QED BY <2>1, <2>2, <2>5, <2>6 DEF Reports, Roots, Electing
<1>4. ASSUME NEW r \in Ranks, RecvShardId(r) PROVE Reports'
  <2> DEFINE rank == next[0]
  <2>1. /\ r = 0 /\ pc[0] = "RecvShardIds" /\ rank < WorldSize
        /\ pc' = pc /\ bcast' = bcast /\ db_' = db_ /\ shard_id_' = shard_id_
        /\ bcast["proxy_rank"] = NotSent
    BY <1>4 DEF RecvShardId, Roots, Electing
  <2>2. rank \in Ranks \ {0} /\ chan[<<rank, 0>>] # <<>>
    <3>1. rank \in 1..WorldSize
      BY DEF TypeOK
    <3>2. rank \in Ranks \ {0}
      BY <2>1, <3>1, WorldSizeAssumption DEF Ranks
    <3> QED BY <1>4, <2>1, <3>2 DEF RecvShardId, Recv
  <2>3. pc[rank] = "WaitProxyRank"
    BY <2>1, <2>2, Phases DEF Reports, Obeyed, Roots, Electing
  <2>4. chan[<<rank, 0>>] = <<Msg("shard_id", shard_id_[rank])>>
    BY <2>1, <2>2, <2>3 DEF Reports
  <2>5. Received(rank, 0) = shard_id_[rank] /\ Tail(chan[<<rank, 0>>]) = <<>>
    BY <2>4 DEF Received, Msg
  <2>6. /\ proxy_rank_'[0] = Elect(proxy_rank_[0], shard_id_[rank], rank)
        /\ next'[0] = rank + 1
        /\ chan' = [chan EXCEPT ![<<rank, 0>>] = <<>>]
    BY <1>4, <2>1, <2>5 DEF RecvShardId, Recv, TypeOK
  <2>7. proxy_rank_'[0] # Failed =>
          proxy_rank_[0] # Failed /\ shard_id_[rank] # Failed
    BY <2>6 DEF Elect
  <2>8. \A q \in Ranks : HasId(q)' <=> HasId(q)
    BY <2>1
  <2>9. ASSUME proxy_rank_'[0] # Failed, NEW q \in Ranks, q < next'[0]
        PROVE  HasId(q)'
    <3>1. q < rank \/ q = rank
      BY <2>2, <2>6, <2>9 DEF Ranks
    <3>2. CASE q < rank
      BY <2>1, <2>7, <2>9, <3>2 DEF Reports
    <3>3. CASE q = rank
      BY <2>1, <2>3, <2>7, <2>9, <3>3
    <3> QED BY <3>1, <3>2, <3>3
  <2>10. \A q \in Ranks \ {0} :
           chan'[<<q, 0>>] = chan[<<q, 0>>] \/ chan'[<<q, 0>>] = <<>>
    BY <2>2, <2>6 DEF TypeOK
  <2> HIDE DEF HasId
  <2>11. \A q \in Ranks \ {0} :
           /\ pc'[q] \in {"OpenDb", "GetShardId", "aborted", "ShakeHands"} =>
                chan'[<<q, 0>>] = <<>>
           /\ pc'[q] = "WaitProxyRank" =>
                chan'[<<q, 0>>] \in {<<>>, <<Msg("shard_id", shard_id_'[q])>>}
    BY <2>1, <2>10 DEF Reports
  <2> QED BY <2>1, <2>8, <2>9, <2>11 DEF Reports
<1>5. ASSUME NEW r \in Ranks, BcastProxyRank(r) PROVE Reports'
  <2>1. /\ r = 0 /\ pc[0] = "RecvShardIds" /\ next[0] = WorldSize
        /\ db_' = db_ /\ shard_id_' = shard_id_ /\ proxy_rank_' = proxy_rank_
    BY <1>5 DEF BcastProxyRank, Roots
  <2>2. bcast'["proxy_rank"] = proxy_rank_[0] /\ bcast'["proxy_rank"] # NotSent
    BY <1>5, <2>1 DEF BcastProxyRank, Bcast, Bcasts, TypeOK
  <2>3. /\ pc'[0] \in {"exited", "SaveShardId"}
        /\ \A q \in Ranks \ {0} : pc'[q] = pc[q]
    BY <1>5, <2>1 DEF BcastProxyRank, AfterElection, TypeOK
  <2>4. \A q \in Ranks : HasId(q)' <=> HasId(q)
    BY <2>1, <2>3
  <2>5. \A q \in Ranks : q < WorldSize
    BY WorldSizeAssumption DEF Ranks
  <2> HIDE DEF HasId
  <2>6. proxy_rank_[0] # Failed => \A q \in Ranks : HasId(q)
    BY <2>1, <2>5 DEF Reports
  <2> QED BY <2>1, <2>2, <2>3, <2>4, <2>6 DEF Reports
<1>6. ASSUME NEW r \in Ranks, SendShardId(r) PROVE Reports'
  <2>1. /\ r # 0 /\ pc[r] = "ShakeHands" /\ next' = next
        /\ bcast' = bcast /\ db_' = db_ /\ shard_id_' = shard_id_
        /\ proxy_rank_' = proxy_rank_
    BY <1>6 DEF SendShardId
  <2>2. /\ pc'[r] = "WaitProxyRank"
        /\ \A q \in Ranks \ {r} : pc'[q] = pc[q]
    BY <1>6 DEF SendShardId, TypeOK
  <2>3. \A q \in Ranks : HasId(q)' <=> HasId(q)
    BY <2>1, <2>2
  <2>4. ASSUME bcast["proxy_rank"] = NotSent
        PROVE  chan'[<<r, 0>>] = <<Msg("shard_id", shard_id_[r])>>
    <3>1. chan[<<r, 0>>] = <<>>
      BY <2>1, <2>4 DEF Reports
    <3>2. chan'[<<r, 0>>] = Append(chan[<<r, 0>>], Msg("shard_id", shard_id_[r]))
      BY <1>6 DEF SendShardId, Send, TypeOK
    <3> QED BY <3>1, <3>2
  <2>5. \A q \in Ranks \ {r} : chan'[<<q, 0>>] = chan[<<q, 0>>]
    BY <1>6 DEF SendShardId, Send, TypeOK
  <2> HIDE DEF HasId
  <2>6. bcast'["proxy_rank"] = NotSent => \A q \in Ranks \ {0} :
           /\ pc'[q] \in {"OpenDb", "GetShardId", "aborted", "ShakeHands"} =>
                chan'[<<q, 0>>] = <<>>
           /\ pc'[q] = "WaitProxyRank" =>
                chan'[<<q, 0>>] \in {<<>>, <<Msg("shard_id", shard_id_'[q])>>}
    BY <2>1, <2>2, <2>4, <2>5 DEF Reports
  <2> QED BY <2>1, <2>2, <2>3, <2>6 DEF Reports
<1>7. ASSUME NEW r \in Ranks, WaitProxyRank(r) PROVE Reports'
  <2>1. /\ pc[r] = "WaitProxyRank" /\ bcast["proxy_rank"] # NotSent
        /\ bcast' = bcast /\ db_' = db_ /\ shard_id_' = shard_id_
    BY <1>7 DEF WaitProxyRank
  <2>2. /\ pc'[r] \in {"exited", "SaveShardId"}
        /\ \A q \in Ranks \ {r} : pc'[q] = pc[q]
    BY <1>7 DEF WaitProxyRank, AfterElection, TypeOK
  <2>3. \A q \in Ranks : HasId(q)' <=> HasId(q)
    BY <2>1, <2>2
  <2>4. pc[0] \notin Electing /\ r # 0
    BY <2>1 DEF Roots
  <2>5. pc'[0] \notin Electing
    BY <2>2, <2>4
  <2> HIDE DEF HasId
  <2> QED BY <2>1, <2>3, <2>5 DEF Reports, Electing
<1>8. ASSUME NEW r \in Ranks, SaveShardId(r) PROVE Reports'
  <2>1. PICK l \in {"RecvSaved", "SendSaved"} :
          /\ pc' = [pc EXCEPT ![r] = l] /\ pc[r] \in Saving
          /\ bcast' = bcast /\ db_' = db_ /\ shard_id_' = shard_id_
    BY <1>8 DEF SaveShardId, Saving, TypeOK
  <2>2. l \in Labels \ Electing
    BY <2>1 DEF Labels, Electing
  <2> QED BY <2>1, <2>2, ElectedStep
<1>9. ASSUME NEW r \in Ranks, RecvSaved(r) PROVE Reports'
  <2>1. /\ pc[r] \in Saving \cup Resolving
        /\ pc' = [pc EXCEPT ![r] = "RecvSaved"]
        /\ bcast' = bcast /\ db_' = db_ /\ shard_id_' = shard_id_
    BY <1>9 DEF RecvSaved, Saving, Resolving, TypeOK
  <2>2. "RecvSaved" \in Labels \ Electing
    BY DEF Labels, Electing
  <2> QED BY <2>1, <2>2, ElectedStep
<1>10. ASSUME NEW r \in Ranks, BcastSaved(r) PROVE Reports'
  <2>1. PICK l \in {"exited", "ResolveIp"} : pc' = [pc EXCEPT ![r] = l]
    BY <1>10 DEF BcastSaved, AfterSave, Bcast, Bcasts
  <2>2. /\ pc[r] \in Saving /\ db_' = db_ /\ shard_id_' = shard_id_
        /\ bcast'["proxy_rank"] = bcast["proxy_rank"]
    BY <1>10 DEF BcastSaved, AfterSave, Bcast, Bcasts, Saving, TypeOK
  <2>3. l \in Labels \ Electing
    BY <2>1 DEF Labels, Electing, Serving
  <2> QED BY <2>1, <2>2, <2>3, ElectedStep
<1>11. ASSUME NEW r \in Ranks, SendSaved(r) PROVE Reports'
  <2>1. /\ pc[r] \in Saving \cup Resolving
        /\ pc' = [pc EXCEPT ![r] = "WaitSaved"]
        /\ bcast' = bcast /\ db_' = db_ /\ shard_id_' = shard_id_
    BY <1>11 DEF SendSaved, Saving, Resolving, TypeOK
  <2>2. "WaitSaved" \in Labels \ Electing
    BY DEF Labels, Electing
  <2> QED BY <2>1, <2>2, ElectedStep
<1>12. ASSUME NEW r \in Ranks, WaitSaved(r) PROVE Reports'
  <2>1. PICK l \in {"exited", "ResolveIp"} : pc' = [pc EXCEPT ![r] = l]
    BY <1>12 DEF WaitSaved, AfterSave
  <2>2. /\ pc[r] \in Saving /\ db_' = db_ /\ shard_id_' = shard_id_
        /\ bcast'["proxy_rank"] = bcast["proxy_rank"]
    BY <1>12 DEF WaitSaved, AfterSave, Saving, TypeOK
  <2>3. l \in Labels \ Electing
    BY <2>1 DEF Labels, Electing, Serving
  <2> QED BY <2>1, <2>2, <2>3, ElectedStep
<1>13. ASSUME NEW r \in Ranks, WriteHostname(r) PROVE Reports'
  <2>1. PICK l \in {"RecvIpSizes"} :
          /\ pc' = [pc EXCEPT ![r] = l] /\ pc[r] \in Resolving
          /\ bcast' = bcast /\ db_' = db_ /\ shard_id_' = shard_id_
    BY <1>13 DEF WriteHostname, Resolving, TypeOK
  <2>2. l \in Labels \ Electing
    BY <2>1 DEF Labels, Electing
  <2> QED BY <2>1, <2>2, ElectedStep
<1>14. ASSUME NEW r \in Ranks, RecvIpSize(r) PROVE Reports'
  <2>1. PICK l \in {"RecvIpSizes", "RecvIp"} : pc' = [pc EXCEPT ![r] = l]
    BY <1>14 DEF RecvIpSize, TypeOK
  <2>2. /\ pc[r] \in Saving \cup Resolving
        /\ bcast' = bcast /\ db_' = db_ /\ shard_id_' = shard_id_
    BY <1>14 DEF RecvIpSize, Resolving
  <2>3. l \in Labels \ Electing
    BY <2>1 DEF Labels, Electing
  <2> QED BY <2>1, <2>2, <2>3, ElectedStep
<1>15. ASSUME NEW r \in Ranks, RecvIp(r) PROVE Reports'
  <2>1. PICK l \in {"RecvIpSizes"} :
          /\ pc' = [pc EXCEPT ![r] = l] /\ pc[r] \in Resolving
          /\ bcast' = bcast /\ db_' = db_ /\ shard_id_' = shard_id_
    BY <1>15 DEF RecvIp, Resolving, TypeOK
  <2>2. l \in Labels \ Electing
    BY <2>1 DEF Labels, Electing
  <2> QED BY <2>1, <2>2, ElectedStep
<1>16. ASSUME NEW r \in Ranks, BcastResolved(r) PROVE Reports'
  <2>1. PICK l \in {"exited", "ProxyMain", "ShardMain"} : pc' = [pc EXCEPT ![r] = l]
    BY <1>16 DEF BcastResolved, AfterResolve, Main, Bcast, Bcasts
  <2>2. /\ pc[r] \in Resolving /\ db_' = db_ /\ shard_id_' = shard_id_
        /\ bcast'["proxy_rank"] = bcast["proxy_rank"]
    BY <1>16 DEF BcastResolved, AfterResolve, Main, Bcast, Bcasts, Resolving, TypeOK
  <2>3. l \in Labels \ Electing
    BY <2>1 DEF Labels, Electing, Serving
  <2> QED BY <2>1, <2>2, <2>3, ElectedStep
<1>17. ASSUME NEW r \in Ranks, SendIpSize(r) PROVE Reports'
  <2>1. PICK l \in {"SendIp", "WaitResolved"} :
          /\ pc' = [pc EXCEPT ![r] = l] /\ pc[r] \in Resolving
          /\ bcast' = bcast /\ db_' = db_ /\ shard_id_' = shard_id_
    BY <1>17 DEF SendIpSize, Resolving, TypeOK
  <2>2. l \in Labels \ Electing
    BY <2>1 DEF Labels, Electing
  <2> QED BY <2>1, <2>2, ElectedStep
<1>18. ASSUME NEW r \in Ranks, SendIp(r) PROVE Reports'
  <2>1. /\ pc[r] \in Saving \cup Resolving
        /\ pc' = [pc EXCEPT ![r] = "WaitResolved"]
        /\ bcast' = bcast /\ db_' = db_ /\ shard_id_' = shard_id_
    BY <1>18 DEF SendIp, Saving, Resolving, TypeOK
  <2>2. "WaitResolved" \in Labels \ Electing
    BY DEF Labels, Electing
  <2> QED BY <2>1, <2>2, ElectedStep
<1>19. ASSUME NEW r \in Ranks, WaitResolved(r) PROVE Reports'
  <2>1. PICK l \in {"exited", "ProxyMain", "ShardMain"} : pc' = [pc EXCEPT ![r] = l]
    BY <1>19 DEF WaitResolved, AfterResolve, Main
  <2>2. /\ pc[r] \in Resolving /\ db_' = db_ /\ shard_id_' = shard_id_
        /\ bcast'["proxy_rank"] = bcast["proxy_rank"]
    BY <1>19 DEF WaitResolved, AfterResolve, Main, Resolving, TypeOK
  <2>3. l \in Labels \ Electing
    BY <2>1 DEF Labels, Electing, Serving
  <2> QED BY <2>1, <2>2, <2>3, ElectedStep
<1>20. ASSUME NEW r \in Ranks, DirectPut(r) PROVE Reports'
  BY <1>20 DEF Reports, Obeyed, Roots, DirectPut, Electing, Saving,
     Resolving, Serving, TypeOK
<1>21. CASE Relaunch
  BY <1>21 DEF Relaunch, Started, Reports, Bcasts
<1>22. CASE UNCHANGED vars
  BY <1>22 DEF vars, Reports
<1> QED
  BY <1>1, <1>2, <1>3, <1>4, <1>5, <1>6, <1>7, <1>8, <1>9, <1>10, <1>11,
     <1>12, <1>13, <1>14, <1>15, <1>16, <1>17, <1>18, <1>19, <1>20, <1>21,
     <1>22, <1>23
  DEF Next, Step

\* The invariant of the election holds when the processes start.
LEMMA DbInvInit == Init => DbInv
<1> SUFFICES ASSUME Init PROVE DbInv
  OBVIOUS
<1>1. Inv
  BY InvInit
<1>2. Reports
  BY RankFacts DEF Init, Started, Reports, HasId, Bcasts
<1> QED BY <1>1, <1>2 DEF DbInv

\* Agreement: no rank serves while another rank of the same launch exits or is
\* gone, for every number of ranks, wherever OpenDb, Get, Put or
\* GetInfinibandIp fail and whatever the clients have stored as ids.
THEOREM Agreement == Spec => []AllOrNothing
<1>1. Init => DbInv
  BY DbInvInit
<1>2. DbInv /\ [Next]_vars => DbInv'
  BY TypeStep, AgreementStep, ReportsStep DEF DbInv, Inv
<1>3. DbInv => AllOrNothing
  <2> SUFFICES ASSUME DbInv, NEW r \in Ranks, NEW q \in Ranks, pc[r] \in Serving
               PROVE  pc[q] # "exited" /\ pc[q] # "aborted"
    BY DEF AllOrNothing
  <2>1. /\ bcast["proxy_rank"] \in Ranks
        /\ bcast["saved"] # 0 /\ bcast["resolved"] # 0
    BY DEF DbInv, Inv, Obeyed
  <2>2. pc[q] # "exited"
    BY <2>1, Phases DEF DbInv, Inv, TypeInv, Obeyed
  <2>3. pc[q] # "aborted"
    BY <2>1 DEF DbInv, Reports, HasId
  <2> QED BY <2>2, <2>3
<1> QED BY <1>1, <1>2, <1>3, PTL DEF Spec

\* A store that could not be opened is never written to, and no rank serves
\* without a store: a rank whose DB::Open failed reports -1, so rank 0 elects
\* nobody and every rank exits.
THEOREM DbNeverNull == Spec => []DbUsable
<1>1. Init => DbInv
  BY DbInvInit
<1>2. DbInv /\ [Next]_vars => DbInv'
  BY TypeStep, AgreementStep, ReportsStep DEF DbInv, Inv
<1>3. DbInv => DbUsable
  BY DEF DbInv, Inv, Obeyed, Reports, DbUsable, Saving
<1> QED BY <1>1, <1>2, <1>3, PTL DEF Spec

-----------------------------------------------------------------------------
(* A relaunch finds the ids it left. *)

\* A store holds no id or its own rank, as long as no client has written one.
OwnId == ~tampered => \A r \in Ranks : stored[r] \in {r, NotFound}

\* Only SaveShardId and a client's Put write a store, and a client's Put is
\* remembered and leaves the stores of the ranks still in a handshake alone.
LEMMA StoredStep ==
  ASSUME TypeInv, [Next]_vars
  PROVE  \A r \in Ranks :
           /\ ~tampered' => ~tampered /\ stored'[r] \in {stored[r], r}
           /\ pc[r] = "SaveShardId" => stored'[r] \in {stored[r], r}
<1> DEFINE Kept == \A q \in Ranks :
             /\ ~tampered' => ~tampered /\ stored'[q] \in {stored[q], q}
             /\ pc[q] = "SaveShardId" => stored'[q] \in {stored[q], q}
<1>1. ASSUME NEW r \in Ranks, SaveShardId(r) PROVE Kept
  BY <1>1 DEF SaveShardId, SavedId, TypeInv, TypeOK
<1>2. ASSUME NEW r \in Ranks, DirectPut(r) PROVE Kept
  BY <1>2 DEF DirectPut, TypeInv, TypeOK
<1>3. CASE \A r \in Ranks : ~SaveShardId(r) /\ ~DirectPut(r)
  <2>1. stored' = stored /\ tampered' = tampered
    BY <1>3 DEF Next, Step, Relaunch, vars,
     OpenDb, GetShardId, StoiThrows, StartCollecting, RecvShardId,
         BcastProxyRank, SendShardId, WaitProxyRank, RecvSaved,
         BcastSaved, SendSaved, WaitSaved, WriteHostname,
         RecvIpSize, RecvIp, BcastResolved, SendIpSize, SendIp,
         WaitResolved
  <2> QED BY <2>1
<1> QED BY <1>1, <1>2, <1>3

\* As long as no client has written the key "shard_id", ShakeHands never replaces
\* the id a store already has, over any number of launches and crashes.
THEOREM IdsPreserved == Spec => ShardIdPreserved
<1> DEFINE Preserved ==
      ~tampered => \A r \in Ranks :
        pc[r] = "SaveShardId" /\ stored[r] # NotFound => stored'[r] = stored[r]
<1>1. Init => TypeInv /\ OwnId
  BY TypeInit DEF Init, OwnId
<1>2. TypeInv /\ OwnId /\ [Next]_vars => (TypeInv /\ OwnId)' /\ [Preserved]_vars
  <2> SUFFICES ASSUME TypeInv, OwnId, [Next]_vars
               PROVE  (TypeInv /\ OwnId)' /\ Preserved
    OBVIOUS
  <2>1. TypeInv'
    BY TypeStep
  <2>2. \A r \in Ranks :
          /\ ~tampered' => ~tampered /\ stored'[r] \in {stored[r], r}
          /\ pc[r] = "SaveShardId" => stored'[r] \in {stored[r], r}
    BY StoredStep
  <2> QED BY <2>1, <2>2 DEF OwnId
<1> QED BY <1>1, <1>2, PTL DEF Spec, ShardIdPreserved
=============================================================================
