-------------------------- MODULE QueryMergeProofs --------------------------
(***************************************************************************)
(* A sharded search ranks as one collection with all the points would,     *)
(* for every set of points, number of shards and replicas, k and fetch_k.  *)
(*                                                                         *)
(* The heart is the lemma TopKOfParts: the best k of a set are the best k  *)
(* of the union of the best k of its parts.  The rest is the invariant     *)
(* that the fan-out has collected the best k of every shard it is past.    *)
(***************************************************************************)
EXTENDS QueryMerge, FunctionTheorems, FiniteSetTheorems, WellFoundedInduction, TLAPS

Result == [id : Int, score : Int]

\* The order of results: no result is better than itself, and better is transitive.
LEMMA BetterOrder ==
  ASSUME NEW up \in BOOLEAN
  PROVE  /\ \A a \in Result : ~Better(up, a, a)
         /\ \A a, b, c \in Result :
              Better(up, a, b) /\ Better(up, b, c) => Better(up, a, c)
  BY DEF Better, Result

\* Results better than one in a part are better in the whole.
LEMMA BetterInSubset ==
  ASSUME NEW up, NEW S, IsFiniteSet(S), NEW T \in SUBSET S, NEW a
  PROVE  /\ Cardinality(BetterIn(up, S, a)) \in Nat
         /\ Cardinality(BetterIn(up, T, a)) \in Nat
         /\ Cardinality(BetterIn(up, T, a)) <= Cardinality(BetterIn(up, S, a))
<1>1. BetterIn(up, S, a) \subseteq S /\ BetterIn(up, T, a) \subseteq BetterIn(up, S, a)
  BY DEF BetterIn
<1>2. IsFiniteSet(BetterIn(up, S, a))
  BY <1>1, FS_Subset
<1>3. IsFiniteSet(BetterIn(up, T, a))
  BY <1>1, <1>2, FS_Subset
<1> QED
  BY <1>1, <1>2, <1>3, FS_Subset, FS_CardinalityType

\* A set of natural numbers that is not empty has a least element.
LEMMA LeastNatural ==
  ASSUME NEW T, T \subseteq Nat, T # {}
  PROVE  \E x \in T : \A y \in T : x <= y
<1> DEFINE R == OpToRel(<, Nat)
<1>1. IsWellFoundedOn(R, Nat)
  BY NatLessThanWellFounded
<1> HIDE DEF R
<1>2. PICK x \in T : \A y \in T : ~(<<y, x>> \in R)
  BY <1>1, WFMin, Zenon
<1>3. \A y \in T : ~(y < x)
  BY <1>2 DEF R, OpToRel
<1> QED
  BY <1>3

\* Among some of the results there is one that none of them is better than.
LEMMA BestExists ==
  ASSUME NEW up \in BOOLEAN, NEW S, IsFiniteSet(S), S \subseteq Result,
         NEW B \in SUBSET S, B # {}
  PROVE  \E b \in B : \A c \in B : ~Better(up, c, b)
<1> DEFINE n(c) == Cardinality(BetterIn(up, S, c))
<1>1. \A c \in B : n(c) \in Nat
  BY BetterInSubset
<1>2. PICK b \in B : \A c \in B : n(b) <= n(c)
  <2> DEFINE T == {n(c) : c \in B}
  <2>1. T \subseteq Nat /\ T # {}
    BY <1>1
  <2> HIDE DEF n
  <2>2. PICK x \in T : \A y \in T : x <= y
    BY <2>1, LeastNatural
  <2> QED
    BY <2>2
<1>3. SUFFICES ASSUME NEW c \in B, Better(up, c, b)
              PROVE  FALSE
  OBVIOUS
<1>4. BetterIn(up, S, c) \subseteq BetterIn(up, S, b)
  BY <1>3, BetterOrder DEF BetterIn
<1>5. c \in BetterIn(up, S, b) /\ c \notin BetterIn(up, S, c)
  BY <1>3, BetterOrder DEF BetterIn
<1>6. IsFiniteSet(BetterIn(up, S, b))
  BY FS_Subset DEF BetterIn
<1>7. n(c) <= n(b) /\ n(c) # n(b)
  BY <1>4, <1>5, <1>6, FS_Subset
<1> QED
  BY <1>1, <1>2, <1>7

\* The best k of a set are the best k of the union of the best k of its parts.
LEMMA TopKOfParts ==
  ASSUME NEW up \in BOOLEAN, NEW S, IsFiniteSet(S), S \subseteq Result, NEW k \in Nat,
         NEW P, UNION P = S
  PROVE  TopK(up, UNION {TopK(up, part, k) : part \in P}, k) = TopK(up, S, k)
<1> DEFINE R == UNION {TopK(up, part, k) : part \in P}
<1>1. R \subseteq S /\ \A part \in P : part \subseteq S
  BY DEF TopK
<1> HIDE DEF R
<1>2. ASSUME NEW a \in TopK(up, S, k)
      PROVE  a \in TopK(up, R, k)
  <2>1. a \in S /\ Cardinality(BetterIn(up, S, a)) < k
    BY <1>2 DEF TopK
  <2>2. PICK part \in P : a \in part
    BY <2>1
  <2>3. Cardinality(BetterIn(up, part, a)) < k
    BY <1>1, <2>1, BetterInSubset
  <2>4. a \in R
    BY <2>2, <2>3 DEF R, TopK
  <2>5. Cardinality(BetterIn(up, R, a)) < k
    BY <1>1, <2>1, BetterInSubset
  <2> QED
    BY <2>4, <2>5 DEF TopK
<1>3. ASSUME NEW a \in TopK(up, R, k), a \notin TopK(up, S, k)
      PROVE  FALSE
  <2>1. a \in S /\ Cardinality(BetterIn(up, R, a)) < k /\ ~(Cardinality(BetterIn(up, S, a)) < k)
    BY <1>1, <1>3 DEF TopK
  <2> DEFINE B == BetterIn(up, S, a) \ R
  <2>2. B # {}
    <3>1. SUFFICES ASSUME B = {} PROVE FALSE
      OBVIOUS
    <3>2. BetterIn(up, S, a) = BetterIn(up, R, a)
      BY <1>1, <3>1 DEF BetterIn
    <3> QED
      BY <2>1, <3>2
  <2>3. B \in SUBSET S
    BY DEF BetterIn
  <2>4. PICK b \in B : \A c \in B : ~Better(up, c, b)
    BY <2>2, <2>3, BestExists
  <2>5. b \in S /\ b \notin R /\ Better(up, b, a)
    BY <2>4 DEF BetterIn
  <2>6. PICK part \in P : b \in part
    BY <2>5
  <2>7. ~(Cardinality(BetterIn(up, part, b)) < k)
    BY <2>5, <2>6 DEF R, TopK
  <2>8. BetterIn(up, part, b) \subseteq BetterIn(up, R, a)
    <3>1. SUFFICES ASSUME NEW c \in part, Better(up, c, b)
                  PROVE  c \in R /\ Better(up, c, a)
      BY DEF BetterIn
    <3>2. c \in Result /\ b \in Result /\ a \in Result /\ c \in S
      BY <1>1, <2>1, <2>5
    <3>3. Better(up, c, a)
      BY <2>5, <3>1, <3>2, BetterOrder
    <3>4. c \in R
      BY <2>4, <3>1, <3>2, <3>3 DEF BetterIn
    <3> QED
      BY <3>3, <3>4
  <2>9. IsFiniteSet(BetterIn(up, R, a))
    BY <1>1, FS_Subset DEF BetterIn
  <2>10. /\ Cardinality(BetterIn(up, part, b)) <= Cardinality(BetterIn(up, R, a))
         /\ Cardinality(BetterIn(up, part, b)) \in Nat
         /\ Cardinality(BetterIn(up, R, a)) \in Nat
    BY <2>8, <2>9, FS_Subset, FS_CardinalityType
  <2> QED
    BY <2>1, <2>7, <2>10
<1>4. TopK(up, R, k) \subseteq TopK(up, S, k) /\ TopK(up, S, k) \subseteq TopK(up, R, k)
  BY <1>2, <1>3
<1> QED
  BY <1>4 DEF R

-----------------------------------------------------------------------------
(***************************************************************************)
(* The state machine.                                                      *)
(***************************************************************************)
ShardIds(s) == {i \in DOMAIN points.dense : route(i) = s}
AllScored(by) == Scored(DOMAIN points.dense, by)

PointsOK ==
  \E live \in SUBSET Id : \E sparse \in SUBSET live :
    points \in [dense : [live -> Score], sparse : [sparse -> Score]]

\* What the fan-out has after the shards before `shard'.
Collected == UNION {LocalTopK(ShardIds(s)) : s \in 0..(shard - 1)}

InputInv ==
  /\ PointsOK /\ request \in Requests
  /\ shard \in 0..shard_count
  /\ pass \in {"dense", "sparse"}
  /\ request.mode = "sparse" => pass = "sparse"
  /\ request.mode = "exact" => pass = "dense"

FanoutInv == pc = "fanout" => results = Collected

RankingInv ==
  pc = "fanout" /\ request.mode = "hybrid" /\ pass = "sparse" =>
    ranking = TopK(Ascending("dense"), AllScored("dense"), request.fetch_k)

IInv == InputInv /\ FanoutInv /\ RankingInv /\ SameAsOneCollection

\* The scored points are finitely many results.
LEMMA ScoredFinite ==
  ASSUME PointsOK, NEW by \in {"dense", "sparse"}
  PROVE  IsFiniteSet(AllScored(by)) /\ AllScored(by) \subseteq Result
<1> PICK live \in SUBSET Id : \E sparse \in SUBSET live :
           points \in [dense : [live -> Score], sparse : [sparse -> Score]]
  BY DEF PointsOK
<1> PICK sparse \in SUBSET live :
           points \in [dense : [live -> Score], sparse : [sparse -> Score]]
  OBVIOUS
<1> DEFINE ids == DOMAIN points.dense \cap DOMAIN points[by]
           f == [i \in ids |-> [id |-> i, score |-> points[by][i]]]
<1>1. points[by] \in [DOMAIN points[by] -> Score] /\ DOMAIN points.dense = live
  OBVIOUS
<1>2. IsFiniteSet(ids)
  <2>1. ids \in SUBSET Id
    BY <1>1
  <2> QED
    BY <2>1, MergeAssumption, FS_Subset
<1>3. AllScored(by) = {[id |-> i, score |-> points[by][i]] : i \in ids}
  BY DEF AllScored, Scored
<1>4. f \in Surjection(ids, AllScored(by))
  BY <1>3 DEF Surjection
<1>5. IsFiniteSet(AllScored(by))
  BY <1>2, <1>4, FS_Surjection
<1>6. \A i \in ids : i \in Int /\ points[by][i] \in Int
  BY <1>1, MergeAssumption
<1>7. AllScored(by) \subseteq Result
  BY <1>3, <1>6 DEF Result
<1> QED
  BY <1>5, <1>7

\* Every point is in one of the shards.
LEMMA ShardsCover ==
  ASSUME PointsOK, NEW by
  PROVE  UNION {Scored(ShardIds(s), by) : s \in 0..(shard_count - 1)} = AllScored(by)
<1>1. \A i \in DOMAIN points.dense : route(i) \in 0..(shard_count - 1)
  <2> SUFFICES ASSUME NEW i \in DOMAIN points.dense
               PROVE  route(i) \in 0..(shard_count - 1)
    OBVIOUS
  <2>1. i \in Int
    BY MergeAssumption DEF PointsOK
  <2>2. 2^Width \in Nat \ {0}
    BY MergeAssumption
  <2>3. i % 2^Width \in Int
    BY <2>1, <2>2
  <2> QED
    BY <2>3, MergeAssumption DEF route
<1> QED
  BY <1>1 DEF Scored, ShardIds, AllScored

\* What a request of the right type fixes about its fan-out.
LEMMA RequestFacts ==
  ASSUME InputInv
  PROVE  /\ FanoutK \in Nat
         /\ request.mode \in {"exact", "sparse", "hybrid"}
         /\ Ascending(pass) \in BOOLEAN
  BY MergeAssumption DEF InputInv, FanoutK, Ascending

\* A finished fan-out is merged into the ranking of all the points.
LEMMA MergedIsGlobal ==
  ASSUME InputInv, FanoutInv, pc = "fanout", shard = shard_count
  PROVE  Merged = TopK(Ascending(pass), AllScored(pass), FanoutK)
<1> DEFINE P == {Scored(ShardIds(s), pass) : s \in 0..(shard_count - 1)}
<1>1. UNION P = AllScored(pass)
  BY ShardsCover DEF InputInv
<1>2. {TopK(Ascending(pass), part, FanoutK) : part \in P}
        = {LocalTopK(ShardIds(s)) : s \in 0..(shard_count - 1)}
  BY DEF LocalTopK
<1>3. results = UNION {TopK(Ascending(pass), part, FanoutK) : part \in P}
  BY <1>2 DEF FanoutInv, Collected
<1>4. IsFiniteSet(AllScored(pass)) /\ AllScored(pass) \subseteq Result
  BY ScoredFinite DEF InputInv
<1> HIDE DEF P
<1> QED
  BY <1>1, <1>3, <1>4, RequestFacts, TopKOfParts DEF Merged

\* Before the first shard nothing is collected.
LEMMA InitIInv == Init => IInv
<1> SUFFICES ASSUME Init PROVE IInv
  OBVIOUS
<1>1. InputInv
  BY MergeAssumption DEF Init, InputInv, PointsOK
<1>2. FanoutInv
  <2>1. 0..(shard - 1) = {}
    BY DEF Init
  <2> QED
    BY <2>1 DEF Init, FanoutInv, Collected
<1>3. RankingInv
  BY DEF Init, RankingInv
<1>4. SameAsOneCollection
  BY DEF Init, SameAsOneCollection
<1> QED
  BY <1>1, <1>2, <1>3, <1>4 DEF IInv

\* A step that leaves the input and the pass alone leaves what depends on them.
LEMMA SamePass ==
  ASSUME UNCHANGED input, UNCHANGED pass
  PROVE  /\ PointsOK' = PointsOK
         /\ \A s : LocalTopK(ShardIds(s))' = LocalTopK(ShardIds(s))
         /\ TopK(Ascending("dense"), AllScored("dense"), request.fetch_k)'
              = TopK(Ascending("dense"), AllScored("dense"), request.fetch_k)
         /\ OneCollection' = OneCollection
<1>1. points' = points /\ request' = request /\ behind' = behind /\ missing' = missing
  BY DEF input
<1>2. PointsOK' = PointsOK
  BY <1>1 DEF PointsOK
<1>3. \A s : LocalTopK(ShardIds(s))' = LocalTopK(ShardIds(s))
  BY <1>1 DEF LocalTopK, ShardIds, Ascending, Scored, FanoutK
<1>4. TopK(Ascending("dense"), AllScored("dense"), request.fetch_k)'
        = TopK(Ascending("dense"), AllScored("dense"), request.fetch_k)
  BY <1>1 DEF AllScored, Ascending, Scored
<1>5. OneCollection' = OneCollection
  BY <1>1 DEF OneCollection, Fused, RankOf, Rank, Ascending, Scored
<1> QED
  BY <1>2, <1>3, <1>4, <1>5

\* A step that also keeps the shard, the results and the ranking, and does not end
\* with an answer, keeps the invariant.
LEMMA SameFanout ==
  ASSUME IInv, UNCHANGED <<input, pass, shard, results, ranking, answer>>,
         pc' = pc \/ pc' = "raised"
  PROVE  IInv'
<1>1. request' = request
  BY DEF input
<1>2. InputInv'
  BY <1>1, SamePass DEF IInv, InputInv
<1>3. FanoutInv'
  BY SamePass DEF IInv, FanoutInv, Collected
<1>4. RankingInv'
  BY <1>1, SamePass DEF IInv, RankingInv
<1>5. SameAsOneCollection'
  BY SamePass DEF IInv, SameAsOneCollection
<1> QED
  BY <1>2, <1>3, <1>4, <1>5 DEF IInv

\* An answer adds its shard's best k: only a replica that has every committed point of
\* the shard answers.
LEMMA AnswerIInv ==
  ASSUME IInv, Answer
  PROVE  IInv'
<1>1. /\ UNCHANGED input /\ UNCHANGED pass /\ UNCHANGED <<ranking, pc, answer>>
      /\ pc = "fanout" /\ shard < shard_count /\ shard' = shard + 1
      /\ results' = results \cup LocalTopK(Stored(shard, tried + 1))
  BY DEF Answer, Collect
<1>2. request' = request /\ shard \in Nat
  BY <1>1, MergeAssumption DEF input, IInv, InputInv
<1>3. Stored(shard, tried + 1) = ShardIds(shard)
  BY DEF Answer, Stored, ShardIds
<1>4. InputInv'
  <2>1. shard' \in 0..shard_count
    BY <1>1, <1>2, MergeAssumption
  <2> QED
    BY <1>1, <1>2, <2>1, SamePass DEF IInv, InputInv
<1>5. FanoutInv'
  <2>1. 0..(shard' - 1) = 0..(shard - 1) \cup {shard}
    BY <1>1, <1>2
  <2>2. results = UNION {LocalTopK(ShardIds(s)) : s \in 0..(shard - 1)}
    BY <1>1 DEF IInv, FanoutInv, Collected
  <2>3. results' = UNION {LocalTopK(ShardIds(s)) : s \in 0..(shard' - 1)}
    BY <1>1, <1>3, <2>1, <2>2
  <2>4. results' = UNION {LocalTopK(ShardIds(s))' : s \in 0..(shard' - 1)}
    BY <1>1, <2>3, SamePass
  <2> QED
    BY <2>4 DEF FanoutInv, Collected
<1>6. RankingInv'
  BY <1>1, <1>2, SamePass DEF IInv, RankingInv
<1>7. SameAsOneCollection'
  BY <1>1 DEF SameAsOneCollection
<1> QED
  BY <1>4, <1>5, <1>6, <1>7 DEF IInv

\* A merge makes the global ranking, of either pass, and the answer of the search.
LEMMA MergeIInv ==
  ASSUME IInv, Merge
  PROVE  IInv'
<1>1. /\ UNCHANGED input /\ request' = request /\ points' = points
      /\ pc = "fanout" /\ shard = shard_count
  BY DEF Merge, input
<1>2. Merged = TopK(Ascending(pass), AllScored(pass), FanoutK)
  BY <1>1, MergedIsGlobal DEF IInv
<1>3. request.mode \in {"exact", "sparse", "hybrid"} /\ pass \in {"dense", "sparse"}
  BY RequestFacts DEF IInv, InputInv
<1>4. CASE request.mode # "hybrid"
  <2>1. /\ pc' = "done" /\ answer' = Merged
        /\ UNCHANGED <<pass, shard>>
    BY <1>4 DEF Merge
  <2>2. Merged = OneCollection
    BY <1>2, <1>4 DEF OneCollection, FanoutK, AllScored
  <2>3. InputInv'
    BY <1>1, <2>1, SamePass DEF IInv, InputInv
  <2>4. SameAsOneCollection'
    BY <1>1, <2>1, <2>2, SamePass DEF SameAsOneCollection
  <2> QED
    BY <2>1, <2>3, <2>4 DEF IInv, FanoutInv, RankingInv
<1>5. CASE request.mode = "hybrid" /\ pass = "dense"
  <2>1. /\ ranking' = Merged /\ pass' = "sparse" /\ shard' = 0 /\ results' = {}
        /\ pc' = pc
    BY <1>5 DEF Merge
  <2>2. InputInv'
    BY <1>1, <1>5, <2>1, MergeAssumption DEF IInv, InputInv, PointsOK
  <2>3. FanoutInv'
    <3>1. 0..(shard' - 1) = {}
      BY <2>1
    <3> QED
      BY <2>1, <3>1 DEF FanoutInv, Collected
  <2>4. RankingInv'
    <3>1. ranking' = TopK(Ascending("dense"), AllScored("dense"), request.fetch_k)
      BY <1>2, <1>5, <2>1 DEF FanoutK
    <3>2. Ascending("dense")' = Ascending("dense") /\ AllScored("dense")' = AllScored("dense")
      BY <1>1 DEF Ascending, AllScored, Scored
    <3> QED
      BY <1>1, <3>1, <3>2 DEF RankingInv
  <2>5. SameAsOneCollection'
    BY <1>1, <2>1 DEF SameAsOneCollection
  <2> QED
    BY <2>2, <2>3, <2>4, <2>5 DEF IInv
<1>6. CASE request.mode = "hybrid" /\ pass = "sparse"
  <2>1. /\ pc' = "done" /\ UNCHANGED <<pass, shard>>
        /\ answer' = Fused(ranking, Merged, request.k)
    BY <1>6 DEF Merge
  <2>2. ranking = TopK(Ascending("dense"), AllScored("dense"), request.fetch_k)
    BY <1>1, <1>6 DEF IInv, RankingInv
  <2>3. Merged = TopK(FALSE, AllScored("sparse"), request.fetch_k)
    BY <1>2, <1>6 DEF Ascending, FanoutK
  <2>4. answer' = OneCollection
    BY <1>6, <2>1, <2>2, <2>3 DEF OneCollection, AllScored
  <2>5. InputInv'
    BY <1>1, <2>1, SamePass DEF IInv, InputInv
  <2>6. SameAsOneCollection'
    BY <1>1, <2>1, <2>4, SamePass DEF SameAsOneCollection
  <2> QED
    BY <2>1, <2>5, <2>6 DEF IInv, FanoutInv, RankingInv
<1> QED
  BY <1>3, <1>4, <1>5, <1>6

\* Every step keeps the invariant.
LEMMA NextIInv == IInv /\ [Next]_vars => IInv'
<1> SUFFICES ASSUME IInv, [Next]_vars PROVE IInv'
  OBVIOUS
<1>1. CASE PassOver
  BY <1>1, SameFanout DEF PassOver
<1>2. CASE Answer
  BY <1>2, AnswerIInv
<1>3. CASE NoReplica
  BY <1>3, SameFanout DEF NoReplica
<1>4. CASE Merge
  BY <1>4, MergeIInv
<1>5. CASE UNCHANGED vars
  BY <1>5, SameFanout DEF vars, input
<1> QED
  BY <1>1, <1>2, <1>3, <1>4, <1>5 DEF Next

\* A search of a sharded collection (DistributedCluster.search, _fanout, _query_shard,
\* _search_hybrid, _global_topk) ranks as one collection with all the points would:
\* for every set of points and scores, any number of shards and replicas, any of them
\* behind or away, every k and fetch_k.  An exact or sparse search returns that
\* collection's answer; a hybrid one the coordinator's fusion of that collection's two
\* rankings, for every score the fusion may give to a pair of ranks.
THEOREM ShardingDoesNotShow == Spec => []SameAsOneCollection
<1>1. IInv => SameAsOneCollection
  BY DEF IInv
<1> QED
  BY <1>1, InitIInv, NextIInv, PTL DEF Spec

-----------------------------------------------------------------------------
(***************************************************************************)
(* The stats.  The list that is added up has one count per shard, that of  *)
(* the shard's points; since the shards share no point, the sum counts     *)
(* them all.                                                               *)
(***************************************************************************)
\* The points of the shards before s.
IdsBefore(s) == {i \in DOMAIN points.dense : route(i) < s}

PointCount(ids) == Cardinality(Scored(ids, pass))

ShardCounts(n) == [i \in 1..n |-> PointCount(ShardIds(i - 1))]

ListInv == pc = "fanout" => stats = ShardCounts(shard)

StatsInv == ListInv /\ StatsCountEachShardOnce

\* One more shard adds its own points to those of the shards before it.
LEMMA CountOneMore ==
  ASSUME InputInv, NEW n \in 0..(shard_count - 1)
  PROVE  /\ PointCount(IdsBefore(n)) \in Nat /\ PointCount(ShardIds(n)) \in Nat
         /\ PointCount(IdsBefore(n + 1)) = PointCount(IdsBefore(n)) + PointCount(ShardIds(n))
<1> DEFINE A == Scored(IdsBefore(n), pass)
           B == Scored(ShardIds(n), pass)
           C == Scored(IdsBefore(n + 1), pass)
<1>1. \A i \in DOMAIN points.dense : route(i) \in Int
  <2> SUFFICES ASSUME NEW i \in DOMAIN points.dense
               PROVE  route(i) \in Int
    OBVIOUS
  <2>1. i \in Int
    BY MergeAssumption DEF InputInv, PointsOK
  <2>2. i % 2^Width \in Int
    BY <2>1, MergeAssumption
  <2> QED
    BY <2>2, MergeAssumption DEF route
<1>2. n \in Int
  OBVIOUS
<1>3. \A i \in DOMAIN points.dense : route(i) < n + 1 <=> route(i) < n \/ route(i) = n
  BY <1>1, <1>2
<1>4. C = A \cup B
  BY <1>3 DEF Scored, IdsBefore, ShardIds
<1>5. A \cap B = {}
  BY <1>1, <1>2 DEF Scored, IdsBefore, ShardIds
<1>6. IsFiniteSet(A) /\ IsFiniteSet(B)
  <2>1. A \subseteq AllScored(pass) /\ B \subseteq AllScored(pass)
    BY DEF Scored, AllScored, IdsBefore, ShardIds
  <2>2. IsFiniteSet(AllScored(pass))
    BY ScoredFinite DEF InputInv
  <2> QED
    BY <2>1, <2>2, FS_Subset
<1> HIDE DEF A, B, C
<1>7. Cardinality(A) \in Nat /\ Cardinality(B) \in Nat
  BY <1>6, FS_CardinalityType
<1>8. Cardinality(A \cup B) = Cardinality(A) + Cardinality(B)
  <2>1. Cardinality(A \cup B) = Cardinality(A) + Cardinality(B) - Cardinality(A \cap B)
    BY <1>6, FS_Union
  <2>2. Cardinality(A \cap B) = 0
    BY <1>5, FS_EmptySet
  <2> QED
    BY <1>7, <2>1, <2>2
<1> QED
  BY <1>4, <1>7, <1>8 DEF A, B, C, PointCount

\* _merge_search_stats of the counts of all the shards is the count of all the points.
LEMMA TotalOfShards ==
  ASSUME InputInv
  PROVE  Total(ShardCounts(shard_count)) = PointCount(DOMAIN points.dense)
<1> DEFINE N == shard_count
           counts == ShardCounts(N)
           Term(n) == counts[n + 1]
           IsSum(f) == f = [n \in 0..N |-> IF n = 0 THEN 0 ELSE f[n - 1] + counts[n]]
           g == [n \in 0..N |-> PointCount(IdsBefore(n))]
<1>1. N \in Nat /\ N # 0
  BY MergeAssumption
<1>2. \A n \in 0..(N - 1) : Term(n) = PointCount(ShardIds(n))
  <2> SUFFICES ASSUME NEW n \in 0..(N - 1)
               PROVE  Term(n) = PointCount(ShardIds(n))
    OBVIOUS
  <2> DEFINE P(i) == PointCount(ShardIds(i))
  <2>1. counts = [i \in 1..N |-> P(i - 1)]
    BY DEF ShardCounts
  <2> HIDE DEF P, counts
  <2>2. n + 1 \in 1..N /\ (n + 1) - 1 = n
    BY <1>1
  <2>3. counts[n + 1] = P((n + 1) - 1)
    BY <2>1, <2>2
  <2> QED
    BY <2>2, <2>3 DEF P
<1>3. \A n \in 0..(N - 1) : PointCount(IdsBefore(n + 1)) = PointCount(IdsBefore(n)) + Term(n)
  BY <1>2, CountOneMore
<1>4. PointCount(IdsBefore(0)) = 0
  <2>1. IdsBefore(0) = {}
    <3> SUFFICES ASSUME NEW i \in DOMAIN points.dense
                 PROVE  ~(route(i) < 0)
      BY DEF IdsBefore
    <3>1. i \in Int
      BY MergeAssumption DEF InputInv, PointsOK
    <3>2. i % 2^Width \in Int
      BY <3>1, MergeAssumption
    <3> QED
      BY <3>2, MergeAssumption DEF route
  <2>2. Scored(IdsBefore(0), pass) = {}
    BY <2>1 DEF Scored
  <2> QED
    BY <2>2, FS_EmptySet DEF PointCount
<1>5. \A n \in 1..N : n - 1 \in 0..(N - 1) /\ (n - 1) + 1 = n
  BY <1>1
<1>6. \A n \in 1..N : PointCount(IdsBefore(n)) = PointCount(IdsBefore(n - 1)) + counts[n]
  <2> HIDE DEF counts
  <2> QED
    BY <1>3, <1>5
<1>len. Len(counts) = N
  BY <1>1 DEF ShardCounts
<1> HIDE DEF Term, counts
<1>7. IsSum(g)
  <2>1. \A n \in 0..N : g[n] = IF n = 0 THEN 0 ELSE g[n - 1] + counts[n]
    <3> SUFFICES ASSUME NEW n \in 0..N
                 PROVE  g[n] = IF n = 0 THEN 0 ELSE g[n - 1] + counts[n]
      OBVIOUS
    <3>1. CASE n = 0
      BY <1>4, <3>1
    <3>2. CASE n # 0
      <4>1. n \in 1..N /\ n - 1 \in 0..N
        BY <1>1, <3>2
      <4> QED
        BY <1>6, <3>2, <4>1
    <3> QED
      BY <3>1, <3>2
  <2> QED
    BY <2>1
<1>8. ASSUME NEW f, IsSum(f)
      PROVE  f[N] = g[N]
  <2> DEFINE W == {n \in 0..N : f[n] # g[n]}
  <2>1. \A n \in 0..N : f[n] = IF n = 0 THEN 0 ELSE f[n - 1] + counts[n]
    BY <1>8
  <2>2. \A n \in 0..N : g[n] = IF n = 0 THEN 0 ELSE g[n - 1] + counts[n]
    BY <1>7
  <2> HIDE DEF g, IsSum
  <2>3. SUFFICES ASSUME W # {} PROVE FALSE
    BY <1>1
  <2>4. W \subseteq Nat
    OBVIOUS
  <2>5. PICK x \in W : \A y \in W : x <= y
    BY <2>3, <2>4, LeastNatural
  <2>6. x # 0 /\ x - 1 \in 0..N
    BY <1>1, <2>1, <2>2, <2>5
  <2>7. f[x - 1] = g[x - 1]
    BY <2>5, <2>6
  <2> QED
    BY <2>1, <2>2, <2>5, <2>6, <2>7
<1>9. Total(counts) = (CHOOSE f : IsSum(f))[N]
  BY <1>len DEF Total
<1>10. IsSum(CHOOSE f : IsSum(f))
  <2> HIDE DEF IsSum, g
  <2> QED
    BY <1>7, Zenon
<1>11. Total(counts) = g[N]
  <2> HIDE DEF IsSum, g
  <2> QED
    BY <1>8, <1>9, <1>10
<1>12. IdsBefore(N) = DOMAIN points.dense
  <2> SUFFICES ASSUME NEW i \in DOMAIN points.dense
               PROVE  route(i) < N
    BY DEF IdsBefore
  <2>1. i \in Int
    BY MergeAssumption DEF InputInv, PointsOK
  <2>2. i % 2^Width \in Int
    BY <2>1, MergeAssumption
  <2> QED
    BY <2>2, MergeAssumption DEF route
<1> QED
  BY <1>1, <1>11, <1>12 DEF counts

\* What was counted depends on the points and the pass.
LEMMA SameCounts ==
  ASSUME UNCHANGED input, UNCHANGED pass
  PROVE  /\ \A n : ShardCounts(n)' = ShardCounts(n)
         /\ PointCount(DOMAIN points.dense)' = PointCount(DOMAIN points.dense)
  BY DEF input, ShardCounts, PointCount, ShardIds, Scored

\* Every step keeps the counts: an answer adds its shard's, passing a replica over adds
\* none, and a second fan-out starts from none.
LEMMA NextStats == IInv /\ StatsInv /\ [Next]_vars => StatsInv'
<1> SUFFICES ASSUME IInv, StatsInv, [Next]_vars PROVE StatsInv'
  OBVIOUS
<1>1. ASSUME UNCHANGED <<input, pass, shard, stats, last_search_stats>>,
             pc' = pc \/ pc' = "raised"
      PROVE  StatsInv'
  <2>1. ListInv'
    BY <1>1, SameCounts DEF StatsInv, ListInv
  <2>2. StatsCountEachShardOnce'
    BY <1>1, SameCounts DEF StatsInv, StatsCountEachShardOnce, PointCount
  <2> QED
    BY <2>1, <2>2 DEF StatsInv
<1>2. CASE PassOver
  BY <1>1, <1>2 DEF PassOver
<1>3. CASE Answer
  <2>1. /\ UNCHANGED input /\ UNCHANGED pass /\ pc' = pc /\ pc = "fanout"
        /\ shard \in Nat /\ shard' = shard + 1
        /\ stats' = Append(stats, Count)
    BY <1>3, MergeAssumption DEF Answer, Collect, IInv, InputInv
  <2>2. Stored(shard, tried + 1) = ShardIds(shard)
    BY <1>3 DEF Answer, Stored, ShardIds
  <2>3. Count = PointCount(ShardIds(shard))
    BY <2>2 DEF Count, PointCount
  <2>4. stats = ShardCounts(shard)
    BY <2>1 DEF StatsInv, ListInv
  <2>5. stats' = ShardCounts(shard')
    <3> DEFINE P(i) == PointCount(ShardIds(i))
    <3>1. stats = [i \in 1..shard |-> P(i - 1)]
      BY <2>4 DEF ShardCounts
    <3>2. ShardCounts(shard') = [i \in 1..(shard + 1) |-> P(i - 1)]
      BY <2>1 DEF ShardCounts
    <3>3. Count = P((shard + 1) - 1)
      BY <2>1, <2>3
    <3> HIDE DEF P
    <3> QED
      BY <2>1, <3>1, <3>2, <3>3
  <2>6. ListInv'
    BY <2>1, <2>5, SameCounts DEF ListInv
  <2> QED
    BY <2>1, <2>6 DEF StatsInv, StatsCountEachShardOnce
<1>4. CASE NoReplica
  BY <1>1, <1>4 DEF NoReplica
<1>5. CASE Merge
  <2>1. /\ UNCHANGED input /\ pc = "fanout" /\ shard = shard_count
        /\ last_search_stats' = Total(stats)
    BY <1>5 DEF Merge
  <2>2. last_search_stats' = PointCount(DOMAIN points.dense)
    BY <2>1, TotalOfShards DEF StatsInv, ListInv, IInv
  <2>3. CASE pc' = "done" /\ UNCHANGED pass
    BY <2>1, <2>2, <2>3, SameCounts DEF StatsInv, ListInv, StatsCountEachShardOnce, PointCount
  <2>4. CASE pc' = pc /\ shard' = 0 /\ stats' = <<>>
    <3>1. ShardCounts(0)' = <<>>
      BY DEF ShardCounts
    <3> QED
      BY <2>1, <2>4, <3>1 DEF StatsInv, ListInv, StatsCountEachShardOnce
  <2> QED
    BY <1>5, <2>3, <2>4 DEF Merge
<1>6. CASE UNCHANGED vars
  BY <1>1, <1>6 DEF vars, input
<1> QED
  BY <1>2, <1>3, <1>4, <1>5, <1>6 DEF Next

\* The stats of a finished search (DistributedCluster._fanout, _merge_search_stats)
\* count every point once: the list that is added has one entry for each shard, also
\* where a replica's answer was lost after its search, no shard counts the point of
\* another, and a hybrid search's second fan-out starts an empty list.
THEOREM EachShardCountsOnce == Spec => []StatsCountEachShardOnce
<1>1. Init => StatsInv
  <2> SUFFICES ASSUME Init PROVE StatsInv
    OBVIOUS
  <2>1. ShardCounts(shard) = <<>>
    BY DEF Init, ShardCounts
  <2> QED
    BY <2>1 DEF Init, StatsInv, ListInv, StatsCountEachShardOnce
<1>2. StatsInv => StatsCountEachShardOnce
  BY DEF StatsInv
<1> QED
  BY <1>1, <1>2, InitIInv, NextIInv, NextStats, PTL DEF Spec
=============================================================================
