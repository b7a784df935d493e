----------------------------- MODULE QueryMerge -----------------------------
(***************************************************************************)
(* The read path of the coordinator (cluster.py): a search is sent to one  *)
(* caught-up replica of every shard, a replica that is away, behind or     *)
(* whose answer is lost is passed over, and the shards' results are merged *)
(* into one global top-k; a hybrid search fans out twice and fuses the two *)
(* global rankings, by the coordinator's own sums: the kernel fuses inside *)
(* one collection with other roundings (query/fusion.mojo adds Float32     *)
(* contributions), so what is compared here is what is fused, not how.     *)
(*                                                                         *)
(* A ranked list has no ties: results are ordered by score and then by     *)
(* point ID.  So a list cut at k is the SET of its members, and the rank   *)
(* of one is the number of results better than it, plus one.               *)
(*                                                                         *)
(* The coordinator lock is held throughout: no write and no change of the  *)
(* placement falls between two shards.                                     *)
(***************************************************************************)
EXTENDS Integers, FiniteSets, Sequences

CONSTANTS
  Id,            \* point IDs, signed
  Width,         \* their width in bits
  shard_count,
  Replica,       \* the replicas of a shard, in query order: 1 is the leader
  Score,         \* distances or similarities
  Requests,      \* the requests that are made
  FusedScore(_, _) \* the sum a dense and a sparse rank make; rank 0: not ranked

ASSUME MergeAssumption ==
  /\ Id \subseteq Int /\ IsFiniteSet(Id)
  /\ Width \in Nat /\ shard_count \in Nat \ {0}
  /\ 2^Width \in Nat \ {0}     \* so that a proof need not know exponentiation
  /\ Replica \in Nat
  /\ Score \subseteq Int
  /\ Requests \subseteq [mode : {"exact", "sparse", "hybrid"}, metric : {"l2", "dot"},
                         k : Nat, fetch_k : Nat]

VARIABLES
  points,   \* the committed points: their IDs' dense and sparse scores
  behind,   \* the replicas that have not applied the shard's committed index, and
  missing,  \* the point they do not have
  request,
  pass,     \* which ranking the fan-out computes: "dense" or "sparse"
  shard,    \* the shard being queried
  tried,    \* how many of its replicas were passed over
  results,  \* what the fan-out has collected
  stats,    \* the counters of the shards' answers, in their order, and
  last_search_stats, \* what the last fan-out made of them
  ranking,  \* the dense ranking of a hybrid search
  pc, answer

vars == <<points, behind, missing, request, pass, shard, tried, results, stats,
          last_search_stats, ranking, pc, answer>>

-----------------------------------------------------------------------------
\* DistributedCluster.route: the ID as an unsigned number, modulo the shards.
route(id) == (id % 2^Width) % shard_count

\* The order of _global_topk, and of the kernel's BoundedTopK: ascending for l2
\* distances, descending for other scores, then by ID.
Better(ascending, a, b) ==
  \/ IF ascending THEN a.score < b.score ELSE a.score > b.score
  \/ a.score = b.score /\ a.id < b.id

BetterIn(ascending, S, a) == {b \in S : Better(ascending, b, a)}

\* The first k of the sorted results S.
TopK(ascending, S, k) == {a \in S : Cardinality(BetterIn(ascending, S, a)) < k}

Rank(ascending, S, a) == Cardinality(BetterIn(ascending, S, a)) + 1

\* The results of one ranking over the points with the IDs in `ids'.
Scored(ids, by) ==
  {[id |-> i, score |-> points[by][i]] : i \in ids \cap DOMAIN points[by]}

\* The points of shard s on one of its replicas.
Stored(s, r) ==
  {i \in DOMAIN points.dense : route(i) = s} \ (IF r \in behind THEN {missing} ELSE {})

Ascending(by) == request.metric = "l2" /\ by = "dense"

\* The k of the requests that are fanned out.
FanoutK == IF request.mode = "hybrid" THEN request.fetch_k ELSE request.k

\* What a replica answers: its collection's own top-k.
LocalTopK(ids) == TopK(Ascending(pass), Scored(ids, pass), FanoutK)

\* The rank of the result with an ID in a ranking, 0 where it is in none.
RankOf(ascending, S, id) ==
  LET found == {a \in S : a.id = id}
  IN  IF found = {} THEN 0 ELSE Rank(ascending, S, CHOOSE a \in found : TRUE)

\* Reciprocal rank fusion as _search_hybrid does it: a score is a function of the
\* two ranks, the Float64 sum of 1 / (rank_constant + rank) over the rankings the
\* ID is in, whatever its roundings are.
Fused(dense, sparse, k) ==
  LET ids == {a.id : a \in dense \cup sparse}
  IN  TopK(FALSE,
           {[id |-> i, score |-> FusedScore(RankOf(Ascending("dense"), dense, i),
                                            RankOf(FALSE, sparse, i))] : i \in ids}, k)

-----------------------------------------------------------------------------
Init ==
  /\ \E live \in SUBSET Id : \E sparse \in SUBSET live :
       points \in [dense : [live -> Score], sparse : [sparse -> Score]]
  /\ behind \in SUBSET (1..Replica) /\ missing \in Id
  /\ request \in Requests
  /\ pass = IF request.mode = "sparse" THEN "sparse" ELSE "dense"
  /\ shard = 0 /\ tried = 0
  /\ results = {} /\ stats = <<>> /\ last_search_stats = 0
  /\ ranking = {}
  /\ pc = "fanout" /\ answer = {}

input == <<points, behind, missing, request>>

Collect(counters) ==
  /\ results' = results \cup LocalTopK(Stored(shard, tried + 1))
  /\ stats' = counters
  /\ shard' = shard + 1 /\ tried' = 0
  /\ UNCHANGED <<input, pass, last_search_stats, ranking, pc, answer>>

\* The points the replica's search visits.
Count == Cardinality(Scored(Stored(shard, tried + 1), pass))

\* Mutant: the counters of an answer that is lost on the way are kept, too.
PassOver_Counted ==
  /\ pc = "fanout" /\ shard < shard_count /\ tried < Replica
  /\ tried' = tried + 1
  /\ stats' = Append(stats, Count)
  /\ UNCHANGED <<input, pass, shard, results, last_search_stats, ranking, pc, answer>>

\* _query_shard: the status is refused or lost, the replica has not applied the
\* shard's committed index, or the query's answer is lost: the next one is asked.
PassOver ==
  /\ pc = "fanout" /\ shard < shard_count /\ tried < Replica
  /\ tried' = tried + 1
  /\ UNCHANGED <<input, pass, shard, results, stats, last_search_stats, ranking, pc, answer>>

\* Mutant: the applied index is not compared with the committed one.
Answer_FromAnyone ==
  /\ pc = "fanout" /\ shard < shard_count /\ tried < Replica
  /\ Collect(Append(stats, Count))

\* The replica has applied the committed index and its answer arrives.
Answer ==
  /\ pc = "fanout" /\ shard < shard_count /\ tried < Replica
  /\ tried + 1 \notin behind
  /\ Collect(Append(stats, Count))

\* QuorumUnavailable; the stats of the search before stay.
NoReplica ==
  /\ pc = "fanout" /\ shard < shard_count /\ tried = Replica
  /\ pc' = "raised"
  /\ UNCHANGED <<input, pass, shard, tried, results, stats, last_search_stats, ranking, answer>>

\* _merge_search_stats: the counters in the list are added.
Total(counters) ==
  LET sum[n \in 0..Len(counters)] == IF n = 0 THEN 0 ELSE sum[n - 1] + counters[n]
  IN  sum[Len(counters)]

Merged == TopK(Ascending(pass), results, FanoutK)

\* _global_topk of a finished fan-out.  A hybrid search goes on with the sparse
\* ranking, and then fuses the two.
Merge ==
  /\ pc = "fanout" /\ shard = shard_count
  /\ last_search_stats' = Total(stats)
  /\ \/ /\ request.mode # "hybrid"
        /\ pc' = "done" /\ answer' = Merged
        /\ UNCHANGED <<pass, shard, results, stats, ranking>>
     \/ /\ request.mode = "hybrid" /\ pass = "dense"
        /\ ranking' = Merged
        /\ pass' = "sparse" /\ shard' = 0 /\ results' = {} /\ stats' = <<>>
        /\ UNCHANGED <<pc, answer>>
     \/ /\ request.mode = "hybrid" /\ pass = "sparse"
        /\ pc' = "done"
        /\ answer' = Fused(ranking, Merged, request.k)
        /\ UNCHANGED <<pass, shard, results, stats, ranking>>
  /\ UNCHANGED <<input, tried>>

Next == PassOver \/ Answer \/ NoReplica \/ Merge

Spec == Init /\ [][Next]_vars

-----------------------------------------------------------------------------
\* What one collection with all the points ranks, and for a hybrid search the
\* coordinator's fusion of its two rankings.
OneCollection ==
  LET all == Scored(DOMAIN points.dense, pass)
      dense == TopK(Ascending("dense"), Scored(DOMAIN points.dense, "dense"), request.fetch_k)
      sparse == TopK(FALSE, Scored(DOMAIN points.dense, "sparse"), request.fetch_k)
  IN  IF request.mode = "hybrid" THEN Fused(dense, sparse, request.k)
      ELSE TopK(Ascending(pass), all, request.k)

\* Sharding does not show: whichever replicas answered and whatever was lost on the
\* way, an exact or sparse search returns what one collection holding all the points
\* would return, in the order of ties too, and a hybrid one is fused from the ranks
\* that collection would give, cut at fetch_k: it ranks globally before it fuses.
SameAsOneCollection == pc = "done" => answer = OneCollection

\* The counters of a search count every shard once, also where an answer was lost
\* after the query was executed and another replica was asked, and of a hybrid
\* search only those of its last fan-out.
StatsCountEachShardOnce ==
  pc = "done" => last_search_stats = Cardinality(Scored(DOMAIN points.dense, pass))
=============================================================================
