--------------------------- MODULE SchedulerProofs ---------------------------
(***************************************************************************)
(* Proofs about Scheduler, for any metrics, models, forecasts and number   *)
(* of loops, and for edits of the maps and scalings by others at any time. *)
(***************************************************************************)
EXTENDS Scheduler, ScalerStrategyProofs

-----------------------------------------------------------------------------
(* The aggregation computes integers *)

Result == [key : WithModelKey, votes : Seq(Int)]

(***************************************************************************)
(* The loop over ResChan: acc[j] is modelReplicas[k] after j results, when *)
(* every vector is in U.                                                   *)
(***************************************************************************)
Gathers(acc, pairs, k, U) ==
  /\ acc \in [0 .. Len(pairs) -> Seq(U)]
  /\ acc[0] = <<>> /\ acc[Len(pairs)] = ModelReplicas(pairs, k)
  /\ \A j \in 1 .. Len(pairs) :
       acc[j] = IF pairs[j].key[1] = k THEN Append(acc[j - 1], pairs[j].votes)
                ELSE acc[j - 1]

LEMMA ModelReplicasRuns ==
  ASSUME NEW R, NEW U, \A r \in R : r.votes \in U, NEW pairs \in Seq(R), NEW k
  PROVE  \E acc : Gathers(acc, pairs, k, U)
<1> DEFINE add(vs, r) == IF r.key[1] = k THEN Append(vs, r.votes) ELSE vs
           Body(g, S) == IF S = {} THEN <<>> ELSE add(g[S \ {Max(S)}], pairs[Max(S)])
           iter == CHOOSE g : g = [S \in SUBSET DOMAIN pairs |-> Body(g, S)]
           N == Len(pairs)
           V == Seq(U)
           step == [p \in (1 .. N) \X V |-> add(p[2], pairs[p[1]])]
<1>1. ModelReplicas(pairs, k) = iter[DOMAIN pairs]
  BY DEF ModelReplicas, FoldLeft, MapThenFoldSet
<1>2. N \in Nat /\ DOMAIN pairs = 1 .. N /\ \A i \in 1 .. N : pairs[i] \in R
  OBVIOUS
<1>3. ASSUME NEW vs \in V, NEW r \in R PROVE add(vs, r) \in V
  <2>1. r.votes \in U
    OBVIOUS
  <2> QED
    BY <2>1
<1>4. <<>> \in V
  OBVIOUS
<1>add. \A vs, r : add(vs, r) = IF r.key[1] = k THEN Append(vs, r.votes) ELSE vs
  OBVIOUS
<1> HIDE DEF N, V, add
<1>5. step \in [(1 .. N) \X V -> V]
  BY <1>2, <1>3
<1>6. \A i \in 1 .. N, v \in V : step[<<i, v>>] = add(v, pairs[i])
  OBVIOUS
<1>7. \A S \in SUBSET (1 .. N) : S # {} => Max(S) \in 1 .. N
  BY <1>2, MaxMember
<1> HIDE DEF step
<1>8. Slice(N, V, <<>>, step)
  BY <1>2, <1>4, <1>5 DEF Slice
<1>9. PICK g : SliceFolds(g, N, V, <<>>, step)
  BY <1>8, SliceExists
<1>10. g = [S \in SUBSET DOMAIN pairs |-> Body(g, S)]
  <2>1. ASSUME NEW S \in SUBSET (1 .. N), S # {} PROVE g[S \ {Max(S)}] \in V
    BY <1>9 DEF SliceFolds
  <2>2. \A S \in SUBSET (1 .. N) : g[S] = Body(g, S)
    BY <1>6, <1>7, <1>9, <2>1 DEF SliceFolds
  <2>3. g = [S \in SUBSET (1 .. N) |-> g[S]]
    BY <1>9 DEF SliceFolds
  <2> QED
    BY <1>2, <2>2, <2>3
<1>11. iter = [S \in SUBSET DOMAIN pairs |-> Body(iter, S)]
  <2> HIDE DEF Body
  <2> QED
    BY <1>10, Zenon
<1> HIDE DEF iter
<1>12. SliceIterates(iter, N, V, <<>>, step)
  BY <1>2, <1>6, <1>7, <1>11 DEF SliceIterates
<1>13. PICK acc : Accumulates(acc, N, V, <<>>, step) /\ acc[N] = iter[1 .. N]
  <2> HIDE DEF Body
  <2> QED
    BY <1>8, <1>12, SliceRuns
<1>14. acc \in [0 .. N -> V] /\ acc[0] = <<>> /\ acc[N] = ModelReplicas(pairs, k)
  BY <1>1, <1>2, <1>13 DEF Accumulates
<1>15. ASSUME NEW j \in 1 .. N
       PROVE  acc[j] = IF pairs[j].key[1] = k THEN Append(acc[j - 1], pairs[j].votes)
                       ELSE acc[j - 1]
  <2>1. j - 1 \in 0 .. N
    BY <1>2
  <2>2. acc[j - 1] \in V /\ acc[j] = step[<<j, acc[j - 1]>>]
    BY <1>13, <2>1 DEF Accumulates
  <2>3. acc[j] = add(acc[j - 1], pairs[j])
    BY <1>6, <2>2
  <2> QED
    BY <1>add, <2>3
<1>16. Gathers(acc, pairs, k, U)
  BY <1>14, <1>15 DEF N, V, Gathers
<1> QED
  BY <1>16

LEMMA AppendNotEmpty ==
  ASSUME NEW U, NEW s \in Seq(U), NEW v \in U
  PROVE  Append(s, v) # <<>>
<1>1. Len(Append(s, v)) = Len(s) + 1 /\ Len(s) \in Nat /\ Len(<<>>) = 0
  OBVIOUS
<1> QED
  BY <1>1

\* modelReplicas[k] holds vectors of the results, and one at least if k has a result.
LEMMA ModelReplicasOf ==
  ASSUME NEW R, NEW U, \A r \in R : r.votes \in U, NEW pairs \in Seq(R), NEW k
  PROVE  /\ ModelReplicas(pairs, k) \in Seq(U)
         /\ \A i \in DOMAIN pairs : pairs[i].key[1] = k => ModelReplicas(pairs, k) # <<>>
<1>1. PICK N \in Nat : N = Len(pairs) /\ DOMAIN pairs = 1 .. N
  OBVIOUS
<1>2. PICK acc \in [0 .. N -> Seq(U)] :
        /\ acc[0] = <<>> /\ acc[N] = ModelReplicas(pairs, k)
        /\ \A j \in 1 .. N : acc[j] = IF pairs[j].key[1] = k
                                      THEN Append(acc[j - 1], pairs[j].votes)
                                      ELSE acc[j - 1]
  <2>1. PICK a : Gathers(a, pairs, k, U)
    BY ModelReplicasRuns
  <2> QED
    BY <1>1, <2>1 DEF Gathers
<1>3. ModelReplicas(pairs, k) \in Seq(U)
  <2>1. N \in 0 .. N
    OBVIOUS
  <2> QED
    BY <1>2, <2>1
<1>4. ASSUME NEW i \in 1 .. N, pairs[i].key[1] = k PROVE acc[N] # <<>>
  <2> DEFINE Good == {j \in 0 .. N : i <= j => acc[j] # <<>>}
  <2>1. 0 \in Good
    OBVIOUS
  <2>2. ASSUME NEW j \in 0 .. N - 1, j \in Good PROVE j + 1 \in Good
    <3>1. j + 1 \in 1 .. N /\ j + 1 \in 0 .. N /\ (j + 1) - 1 = j /\ acc[j] \in Seq(U)
      OBVIOUS
    <3>2. acc[j + 1] = IF pairs[j + 1].key[1] = k THEN Append(acc[j], pairs[j + 1].votes)
                       ELSE acc[j]
      BY <1>2, <3>1
    <3>3. Append(acc[j], pairs[j + 1].votes) # <<>>
      <4>1. pairs[j + 1].votes \in U
        BY <1>1, <3>1
      <4> QED
        BY <3>1, <4>1, AppendNotEmpty
    <3>4. CASE j + 1 = i
      BY <1>4, <3>1, <3>2, <3>3, <3>4
    <3>5. CASE i <= j
      BY <2>2, <3>1, <3>2, <3>3, <3>5
    <3> QED
      BY <3>1, <3>4, <3>5
  <2>3. N \in Good
    <3> HIDE DEF Good
    <3>1. Inductive(N, Good)
      BY <2>1, <2>2 DEF Inductive
    <3> QED
      BY <3>1, Induction
  <2> QED
    BY <2>3
<1> QED
  BY <1>1, <1>2, <1>3, <1>4

LEMMA ModelReplicasType ==
  ASSUME NEW pairs \in Seq(Result), NEW k
  PROVE  ModelReplicas(pairs, k) \in Seq(Seq(Int))
<1>1. \A r \in Result : r.votes \in Seq(Int)
  BY DEF Result
<1> QED
  BY <1>1, ModelReplicasOf

\* The image of a finite set is finite.
LEMMA ImageFinite ==
  ASSUME NEW S, NEW f, IsFiniteSet(S)
  PROVE  IsFiniteSet({f[x] : x \in S})
<1> DEFINE T == {f[x] : x \in S}
           g == [x \in S |-> f[x]]
<1>1. g \in Surjection(S, T)
  BY DEF Surjection
<1> HIDE DEF T, g
<1>2. IsFiniteSet(T)
  BY <1>1, FS_Surjection
<1> QED
  BY <1>2 DEF T

\* The recursion of MapThenSumSet over the finite set S, of the values f.
Sums(g, S, f) ==
  g = [s \in SUBSET S |->
         IF s = {} THEN 0
         ELSE f[CHOOSE x \in s : TRUE] + g[s \ {CHOOSE x \in s : TRUE}]]

Picker(S) == [s \in (SUBSET S) \ {{}} |-> CHOOSE x \in s : TRUE]

Adder(S, f) == [p \in S \X Int |-> f[p[1]] + p[2]]

LEMMA SumFolder ==
  ASSUME NEW S, IsFiniteSet(S), NEW f \in [S -> Int]
  PROVE  Folder(S, Int, 0, Picker(S), Adder(S, f))
<1>1. Adder(S, f) \in [S \X Int -> Int]
  <2>1. ASSUME NEW p \in S \X Int PROVE f[p[1]] + p[2] \in Int
    <3>1. f[p[1]] \in Int /\ p[2] \in Int
      OBVIOUS
    <3> QED
      BY <3>1
  <2> QED
    BY <2>1 DEF Adder
<1>2. \A s \in (SUBSET S) \ {{}} : (CHOOSE x \in s : TRUE) \in s
  OBVIOUS
<1>3. /\ Picker(S) \in [(SUBSET S) \ {{}} -> S]
      /\ \A s \in (SUBSET S) \ {{}} : Picker(S)[s] \in s
  BY <1>2 DEF Picker
<1> QED
  BY <1>1, <1>3 DEF Folder

LEMMA SumExists ==
  ASSUME NEW S, IsFiniteSet(S), NEW f \in [S -> Int]
  PROVE  \E g : Sums(g, S, f)
<1>1. Folder(S, Int, 0, Picker(S), Adder(S, f))
  BY SumFolder
<1>2. PICK g \in [SUBSET S -> Int] : Folds(g, S, 0, Picker(S), Adder(S, f))
  BY <1>1, FoldExists
<1>3. ASSUME NEW s \in SUBSET S
      PROVE  g[s] = IF s = {} THEN 0
                    ELSE f[CHOOSE x \in s : TRUE] + g[s \ {CHOOSE x \in s : TRUE}]
  <2>1. CASE s = {}
    BY <1>2, <2>1 DEF Folds
  <2>2. CASE s # {}
    <3>1. PICK x : x = (CHOOSE y \in s : TRUE) /\ x \in s
      BY <2>2
    <3>2. Picker(S)[s] = x
      BY <2>2, <3>1 DEF Picker
    <3>3. g[s] = Adder(S, f)[<<x, g[s \ {x}]>>]
      BY <1>2, <2>2, <3>2 DEF Folds
    <3>4. x \in S /\ g[s \ {x}] \in Int
      BY <1>2, <3>1
    <3>5. g[s] = f[x] + g[s \ {x}]
      BY <3>3, <3>4 DEF Adder
    <3> QED
      BY <2>2, <3>1, <3>5
  <2> QED
    BY <2>1, <2>2
<1>4. g = [s \in SUBSET S |-> g[s]]
  OBVIOUS
<1>5. Sums(g, S, f)
  BY <1>3, <1>4 DEF Sums
<1> QED
  BY <1>5

LEMMA SumType ==
  ASSUME NEW S, IsFiniteSet(S), NEW f \in [S -> Int], NEW g, Sums(g, S, f)
  PROVE  g[S] \in Int
<1>1. Folder(S, Int, 0, Picker(S), Adder(S, f))
  BY SumFolder
<1>2. Iterates(g, S, Int, 0, Picker(S), Adder(S, f))
  <2> SUFFICES ASSUME NEW s \in SUBSET S
               PROVE  /\ s = {} => g[s] = 0
                      /\ s # {} /\ g[s \ {Picker(S)[s]}] \in Int =>
                           g[s] = Adder(S, f)[<<Picker(S)[s], g[s \ {Picker(S)[s]}]>>]
    BY DEF Iterates
  <2>1. CASE s = {}
    BY <2>1 DEF Sums
  <2>2. CASE s # {}
    <3>1. PICK x : x = (CHOOSE y \in s : TRUE) /\ x \in s
      BY <2>2
    <3>2. Picker(S)[s] = x /\ x \in S
      BY <2>2, <3>1 DEF Picker
    <3>3. g[s] = f[x] + g[s \ {x}]
      BY <2>2, <3>1 DEF Sums
    <3>4. g[s \ {x}] \in Int => Adder(S, f)[<<x, g[s \ {x}]>>] = f[x] + g[s \ {x}]
      BY <3>2 DEF Adder
    <3> QED
      BY <2>2, <3>2, <3>3, <3>4
  <2> QED
    BY <2>1, <2>2
<1>3. \A s \in SUBSET S : g[s] \in Int
  BY <1>1, <1>2, FoldStays
<1> QED
  BY <1>3

\* A sum of numbers that are not negative covers each of them.
LEMMA SumCovers ==
  ASSUME NEW S, IsFiniteSet(S), NEW f \in [S -> Nat], NEW g, Sums(g, S, f)
  PROVE  \A x \in S : f[x] <= g[S]
<1> DEFINE Covers(s) == g[s] \in Nat /\ \A x \in s : f[x] <= g[s]
           Good == {n \in Nat : \A s \in SUBSET S : Cardinality(s) = n => Covers(s)}
<1>1. \A s \in SUBSET S : IsFiniteSet(s) /\ Cardinality(s) \in Nat
  BY FS_Subset, FS_CardinalityType
<1>2. 0 \in Good
  <2> SUFFICES ASSUME NEW s \in SUBSET S, Cardinality(s) = 0 PROVE Covers(s)
    OBVIOUS
  <2>1. s = {}
    BY <1>1, FS_EmptySet
  <2>2. g[s] = 0
    BY <2>1 DEF Sums
  <2> QED
    BY <2>1, <2>2
<1>3. ASSUME NEW n \in Nat, n \in Good PROVE n + 1 \in Good
  <2> SUFFICES ASSUME NEW s \in SUBSET S, Cardinality(s) = n + 1 PROVE Covers(s)
    OBVIOUS
  <2>1. IsFiniteSet(s) /\ s # {}
    BY <1>1, FS_EmptySet
  <2>2. PICK x : x = (CHOOSE y \in s : TRUE) /\ x \in s
    BY <2>1
  <2>3. g[s] = f[x] + g[s \ {x}]
    BY <2>1, <2>2 DEF Sums
  <2>4. Cardinality(s \ {x}) = n
    <3>1. Cardinality(s \ {x}) = Cardinality(s) - 1
      BY <2>1, <2>2, FS_RemoveElement
    <3> QED
      BY <3>1
  <2>5. Covers(s \ {x})
    BY <1>3, <2>4
  <2>6. f[x] \in Nat /\ g[s \ {x}] \in Nat /\ \A y \in s \ {x} : f[y] \in Nat /\ f[y] <= g[s \ {x}]
    BY <2>2, <2>5
  <2> HIDE DEF Good
  <2>7. ASSUME NEW y \in s PROVE f[y] <= g[s]
    <3>1. CASE y = x
      BY <2>3, <2>6, <3>1
    <3>2. CASE y # x
      <4>1. f[y] \in Nat /\ f[y] <= g[s \ {x}]
        BY <2>6, <3>2
      <4> QED
        BY <2>3, <2>6, <4>1
    <3> QED
      BY <3>1, <3>2
  <2> QED
    BY <2>3, <2>6, <2>7
<1>4. PICK n \in Nat : n = Cardinality(S)
  BY FS_CardinalityType
<1>5. n \in Good
  <2> HIDE DEF Good
  <2>1. Inductive(n, Good)
    BY <1>2, <1>3 DEF Inductive
  <2> QED
    BY <2>1, Induction
<1> QED
  BY <1>4, <1>5

-----------------------------------------------------------------------------
(* The numbers of a tick are integers *)

Metrics == [Key -> Metric \cup {Absent}]

\* The metrics that answered are finitely many, with integer weights and vectors.
LEMMA WeightedType ==
  ASSUME NEW l \in Loop, results[l] \in Seq(Result), metricMap \in Metrics
  PROVE  /\ IsFiniteSet(Weighted(l))
         /\ \A k \in Weighted(l) : /\ k \in Key /\ metricMap[k].weight \in Int
                                   /\ MaxStrategy(ModelReplicas(results[l], k)) \in Seq(Int)
<1>1. Weighted(l) \subseteq Key
  BY DEF Weighted, Answered
<1>2. IsFiniteSet(Weighted(l))
  BY <1>1, SchedulerAssumption, FS_Subset
<1>3. ASSUME NEW k \in Weighted(l)
      PROVE  /\ k \in Key /\ metricMap[k].weight \in Int
             /\ MaxStrategy(ModelReplicas(results[l], k)) \in Seq(Int)
  <2>1. metricMap[k] \in Metric
    BY <1>1, <1>3 DEF Weighted, Metrics
  <2>2. ModelReplicas(results[l], k) \in Seq(Seq(Int))
    BY ModelReplicasType
  <2> QED
    BY <1>1, <2>1, <2>2, MaxStrategyType DEF Metric
<1> QED
  BY <1>2, <1>3

\* mReplicas is a slice of slices, in whatever order the map is ranged over.
LEMMA MReplicasType ==
  ASSUME NEW l \in Loop, results[l] \in Seq(Result), metricMap \in Metrics,
         NEW order \in SetToSeqs(Weighted(l))
  PROVE  MReplicas(l, order) \in Seq(Seq(Int))
<1>1. PICK n \in Nat : n = Cardinality(Weighted(l))
  BY WeightedType, FS_CardinalityType
<1>2. order \in [1 .. n -> Weighted(l)]
  BY <1>1 DEF SetToSeqs
<1>3. ASSUME NEW i \in 1 .. n
      PROVE  MulSlice(metricMap[order[i]].weight,
                      MaxStrategy(ModelReplicas(results[l], order[i]))) \in Seq(Int)
  <2>1. order[i] \in Weighted(l)
    BY <1>2
  <2> QED
    BY <2>1, WeightedType, MulSliceType
<1>4. MReplicas(l, order) \in [1 .. n -> Seq(Int)]
  BY <1>2, <1>3 DEF MReplicas
<1> QED
  BY <1>4

\* The number that Aggregate gives UpTo.
LEMMA WantType ==
  ASSUME NEW m \in Seq(Seq(Int)), ~SumPanics(m)
  PROVE  TruncDiv(SelectMax(AddSlice(m)), 100) \in Int
<1>1. ~AddSlicePanics(m) /\ ~SelectMaxPanics(AddSlice(m))
  BY DEF SumPanics
<1>2. AddSlice(m) \in Seq(Int) /\ AddSlice(m) # <<>>
  BY <1>1, AddSliceType DEF SelectMaxPanics
<1>3. SelectMax(AddSlice(m)) \in Int
  BY <1>2, SelectMaxIsGreatest
<1> QED
  BY <1>3, TruncDivType

\* The vector that a metric enters with, and its weighted element i.
Vector(l, k) == MaxStrategy(ModelReplicas(results[l], k))
Share(l, k, i) == metricMap[k].weight * Vector(l, k)[i]

\* No metric has a weight below zero.
NoneNegative == \A k \in Key : metricMap[k] # Absent => metricMap[k].weight >= 0

LEMMA ShareNatural ==
  ASSUME NEW l \in Loop, results[l] \in Seq(Result), metricMap \in Metrics, NoneNegative,
         NEW k \in Weighted(l), NEW i \in DOMAIN Vector(l, k)
  PROVE  Share(l, k, i) \in Nat
<1>1. PICK v \in Seq(Int) : v = Vector(l, k)
  BY WeightedType DEF Vector
<1>2. PICK c \in Nat : c = metricMap[k].weight
  <2>1. metricMap[k].weight \in Int /\ k \in Key /\ metricMap[k] # Absent
    BY WeightedType DEF Weighted
  <2> QED
    BY <2>1 DEF NoneNegative
<1>3. ModelReplicas(results[l], k) \in Seq(Seq(Int)) /\ ModelReplicas(results[l], k) # <<>>
  BY ModelReplicasType DEF Weighted, Answered
<1>4. /\ v \in [1 .. Len(ModelReplicas(results[l], k)[1]) -> Int]
      /\ \A j \in 1 .. Len(ModelReplicas(results[l], k)[1]) : 0 <= v[j]
  BY <1>1, <1>3, MaxStrategyIsGreatest DEF Vector
<1>5. PICK x \in Nat : x = v[i]
  BY <1>1, <1>4
<1>6. c * x \in Nat
  OBVIOUS
<1> QED
  BY <1>1, <1>2, <1>5, <1>6 DEF Share

(***************************************************************************)
(* The history variable need is an integer too: a maximum of finitely many *)
(* sums, and each of them covers its terms where no weight is negative.    *)
(***************************************************************************)
LEMMA WeightedPeakCovers ==
  ASSUME NEW l \in Loop, results[l] \in Seq(Result), metricMap \in Metrics
  PROVE  /\ WeightedPeak(l) \in Int /\ 0 <= WeightedPeak(l)
         /\ NoneNegative => \A k \in Weighted(l) : \A i \in DOMAIN Vector(l, k) :
              Share(l, k, i) \div 100 <= WeightedPeak(l)
<1> DEFINE vector(k) == MaxStrategy(ModelReplicas(results[l], k))
           part(i, k) == LET v == vector(k)
                         IN IF i \in DOMAIN v THEN metricMap[k].weight * v[i] ELSE 0
           at(i) == MapThenSumSet(LAMBDA k : part(i, k), Weighted(l))
           len == {Len(vector(k)) : k \in Weighted(l)}
           peaks == {0} \cup {at(i) \div 100 : i \in 1 .. Max({0} \cup len)}
<1>0. WeightedPeak(l) = Max(peaks)
  BY DEF WeightedPeak
<1>1. ASSUME NEW i \in Int
      PROVE  /\ at(i) \in Int
             /\ NoneNegative => \A k \in Weighted(l) : part(i, k) <= at(i)
  <2> DEFINE Body(g, s) == IF s = {} THEN 0
                           ELSE LET x == CHOOSE x \in s : TRUE
                                IN  part(i, x) + g[s \ {x}]
             iter == CHOOSE g : g = [s \in SUBSET Weighted(l) |-> Body(g, s)]
             f == [k \in Weighted(l) |-> part(i, k)]
  <2>1. at(i) = iter[Weighted(l)]
    BY DEF MapThenSumSet, MapThenFoldSet
  <2>2. ASSUME NEW k \in Weighted(l) PROVE part(i, k) \in Int
    <3>1. PICK v \in Seq(Int) : v = vector(k)
      BY WeightedType
    <3>2. PICK c \in Int : c = metricMap[k].weight
      BY WeightedType
    <3>3. i \in DOMAIN v => v[i] \in Int
      OBVIOUS
    <3>4. i \in DOMAIN v => c * v[i] \in Int
      BY <3>3
    <3> QED
      BY <3>1, <3>2, <3>4
  <2>0. ASSUME NoneNegative, NEW k \in Weighted(l) PROVE part(i, k) \in Nat
    <3>1. i \in DOMAIN vector(k) => Share(l, k, i) \in Nat
      BY <2>0, ShareNatural DEF Vector
    <3> QED
      BY <3>1 DEF Share, Vector
  <2> HIDE DEF part, at
  <2>3. f \in [Weighted(l) -> Int]
    BY <2>2
  <2>4. \A k \in Weighted(l) : f[k] = part(i, k)
    OBVIOUS
  <2> HIDE DEF f
  <2>5. IsFiniteSet(Weighted(l))
    BY WeightedType
  <2>6. ASSUME NEW g
        PROVE  Sums(g, Weighted(l), f) <=> g = [s \in SUBSET Weighted(l) |-> Body(g, s)]
    <3>1. ASSUME NEW s \in SUBSET Weighted(l)
          PROVE  Body(g, s) = IF s = {} THEN 0
                              ELSE f[CHOOSE x \in s : TRUE] + g[s \ {CHOOSE x \in s : TRUE}]
      <4>1. s # {} => (CHOOSE x \in s : TRUE) \in Weighted(l)
        OBVIOUS
      <4> QED
        BY <2>4, <4>1
    <3> HIDE DEF Body
    <3> QED
      BY <3>1 DEF Sums
  <2>7. PICK g : Sums(g, Weighted(l), f)
    BY <2>3, <2>5, SumExists
  <2>8. Sums(iter, Weighted(l), f)
    <3> HIDE DEF Body
    <3>1. g = [s \in SUBSET Weighted(l) |-> Body(g, s)]
      BY <2>6, <2>7
    <3>2. iter = [s \in SUBSET Weighted(l) |-> Body(iter, s)]
      BY <3>1, Zenon
    <3> HIDE DEF iter
    <3> QED
      BY <2>6, <3>2
  <2> HIDE DEF iter
  <2>9. at(i) \in Int
    BY <2>1, <2>3, <2>5, <2>8, SumType
  <2>10. ASSUME NoneNegative, NEW k \in Weighted(l) PROVE part(i, k) <= at(i)
    <3>1. f \in [Weighted(l) -> Nat]
      BY <2>0, <2>3, <2>4, <2>10
    <3> QED
      BY <2>1, <2>4, <2>5, <2>8, <2>10, <3>1, SumCovers
  <2> QED
    BY <2>9, <2>10
<1>part. ASSUME NEW k \in Weighted(l), NEW i \in DOMAIN Vector(l, k)
         PROVE  part(i, k) = Share(l, k, i) /\ Share(l, k, i) \in Int
  <2>1. Vector(l, k) \in Seq(Int) /\ metricMap[k].weight \in Int
    BY WeightedType DEF Vector
  <2>2. Vector(l, k)[i] \in Int
    BY <2>1
  <2> QED
    BY <2>1, <2>2 DEF Vector, Share
<1>len. \A k \in Weighted(l) : Len(vector(k)) \in len
  OBVIOUS
<1> HIDE DEF at, part
<1>2. IsFiniteSet({0} \cup len) /\ {0} \cup len \in SUBSET Int
  <2>1. ASSUME NEW k \in Weighted(l) PROVE Len(vector(k)) \in Int
    BY WeightedType
  <2>2. PICK f : f = [k \in Weighted(l) |-> Len(vector(k))]
    OBVIOUS
  <2> HIDE DEF vector
  <2>3. len = {f[k] : k \in Weighted(l)}
    BY <2>2
  <2>4. IsFiniteSet(len)
    BY <2>3, WeightedType, ImageFinite
  <2>5. {0} \cup len = len \cup {0}
    OBVIOUS
  <2>6. IsFiniteSet(len \cup {0})
    BY <2>4, FS_AddElement
  <2>7. len \subseteq Int
    BY <2>1
  <2> HIDE DEF len
  <2>8. {0} \cup len \in SUBSET Int
    BY <2>7
  <2> QED
    BY <2>5, <2>6, <2>8
<1> HIDE DEF len
<1>3. PICK n \in Int : n = Max({0} \cup len) /\ \A x \in len : x <= n
  BY <1>2, MaxOfFinite
<1>4. peaks \in SUBSET Int
  <2>1. ASSUME NEW i \in 1 .. n PROVE at(i) \div 100 \in Int
    <3>1. at(i) \in Int
      BY <1>1
    <3> QED
      BY <3>1
  <2>2. PICK T : T = {at(i) \div 100 : i \in 1 .. n}
    OBVIOUS
  <2>3. T \subseteq Int
    BY <2>1, <2>2
  <2>4. peaks = {0} \cup T
    BY <1>3, <2>2
  <2> HIDE DEF peaks
  <2>5. {0} \cup T \in SUBSET Int
    BY <2>3
  <2> QED
    BY <2>4, <2>5
<1>5. IsFiniteSet(peaks)
  <2>1. PICK f : f = [i \in 1 .. n |-> at(i) \div 100]
    OBVIOUS
  <2>2. PICK T : T = {f[i] : i \in 1 .. n}
    OBVIOUS
  <2>3. IsFiniteSet(T)
    <3>1. IsFiniteSet(1 .. n)
      BY FS_Interval
    <3> QED
      BY <2>2, <3>1, ImageFinite
  <2>4. peaks = T \cup {0}
    BY <1>3, <2>1, <2>2
  <2> QED
    BY <2>3, <2>4, FS_AddElement
<1>6. 0 \in peaks
  OBVIOUS
<1>7. \A i \in 1 .. n : at(i) \div 100 \in peaks
  BY <1>3
<1> HIDE DEF peaks
<1>8. Max(peaks) \in peaks /\ \A x \in peaks : x <= Max(peaks)
  BY <1>4, <1>5, <1>6, MaxOfFinite
<1>9. ASSUME NoneNegative, NEW k \in Weighted(l), NEW i \in DOMAIN Vector(l, k)
      PROVE  Share(l, k, i) \div 100 <= WeightedPeak(l)
  <2>1. Vector(l, k) \in Seq(Int) /\ Len(Vector(l, k)) <= n
    BY <1>3, <1>len, WeightedType DEF Vector
  <2>2. i \in 1 .. n
    BY <2>1
  <2>3. PICK s \in Int, a \in Int : s = Share(l, k, i) /\ a = at(i) /\ s <= a
    BY <1>1, <1>9, <1>part, <2>2
  <2>4. s \div 100 <= a \div 100
    BY <2>3
  <2>5. a \div 100 \in peaks /\ a \div 100 <= Max(peaks) /\ Max(peaks) \in Int
    BY <1>4, <1>7, <1>8, <2>2, <2>3
  <2>6. s \div 100 \in Int /\ a \div 100 \in Int
    BY <2>3
  <2> QED
    BY <1>0, <2>3, <2>4, <2>5, <2>6
<1> QED
  BY <1>0, <1>4, <1>6, <1>8, <1>9

-----------------------------------------------------------------------------
(* The inductive invariant *)

(***************************************************************************)
(* ChanHasRoom with what is still to come: every predictor the range loop  *)
(* has not visited may start one more goroutine.                           *)
(***************************************************************************)
RoomForAll ==
  \A l \in Loop :
    /\ IsFiniteSet(running[l]) /\ IsFiniteSet(left[l])
    /\ Len(results[l]) + Cardinality(running[l]) + Cardinality(left[l]) <= cap[l]

\* A predictor is waited for, running or answered, and only one of these.
OneEach ==
  \A l \in Loop :
    /\ \A p, q \in running[l] : p.key = q.key => p = q
    /\ \A p \in running[l] : p.key \notin left[l]
    /\ \A i \in DOMAIN results[l] :
         /\ results[l][i].key \notin left[l]
         /\ \A p \in running[l] : p.key # results[l][i].key

\* What a loop has at hand at each point.
StagesAgree ==
  \A l \in Loop :
    /\ pc[l] \notin {"range", "train"} => left[l] = {}
    /\ pc[l] \in {"tick", "scale", "set"} => running[l] = {}
    /\ pc[l] \in {"scale", "set"} => results[l] # <<>>

\* The count that UpTo is about to write is above the one it read, or capped.
CountsInBounds ==
  /\ replicas \in Nat
  /\ \A l \in Loop :
       /\ cur[l] \in Nat
       /\ pc[l] = "set" => /\ want[l] \in 0 .. MaxReplica
                           /\ want[l] = MaxReplica \/ cur[l] < want[l]

SchedInv ==
  TypeOK /\ RangeIsExclusive /\ StagesAgree /\ RoomForAll /\ OneEach /\ CountsInBounds

LEMMA InitInv == Init => SchedInv
<1> SUFFICES ASSUME Init PROVE SchedInv
  OBVIOUS
<1>1. PICK c \in Configs : /\ metricMap = c.metrics /\ modelMap = c.models
                           /\ predictorMap = Listed(c) /\ goal = c
  BY DEF Init
<1>2. c \in Config /\ Listed(c) \subseteq WithModelKey
  BY SchedulerAssumption DEF Listed
<1>3. TypeOK
  BY <1>1, <1>2, SchedulerAssumption DEF Init, TypeOK, Config, Points
<1>4. RangeIsExclusive /\ StagesAgree
  BY DEF Init, RangeIsExclusive, StagesAgree
<1>5. RoomForAll
  BY FS_EmptySet DEF Init, RoomForAll
<1>6. OneEach
  BY DEF Init, OneEach
<1>7. CountsInBounds
  BY SchedulerAssumption DEF Init, CountsInBounds
<1> QED
  BY <1>3, <1>4, <1>5, <1>6, <1>7 DEF SchedInv

-----------------------------------------------------------------------------
(* Exclusion and stages *)

\* The lock keeps other loops and the reconciler out of a range.
LEMMA ExclusiveStep ==
  ASSUME TypeOK, RangeIsExclusive, [Next]_vars
  PROVE  RangeIsExclusive'
<1>0. Absent \notin Loop /\ pc \in [Loop -> Points] /\ left \in [Loop -> SUBSET WithModelKey]
  BY SchedulerAssumption DEF TypeOK
<1>1. ASSUME NEW l \in Loop, Tick(l) PROVE RangeIsExclusive'
  BY <1>0, <1>1 DEF Tick, At, CanLock, GoTo, RangeIsExclusive, storeVars
<1>2. ASSUME NEW l \in Loop, NEW w \in WithModelKey, Skip(l, w) PROVE RangeIsExclusive'
  BY <1>0, <1>2 DEF Skip, At, RangeIsExclusive, storeVars
<1>3. ASSUME NEW l \in Loop, NEW w \in WithModelKey, Dispatch(l, w) PROVE RangeIsExclusive'
  BY <1>0, <1>3 DEF Dispatch, At, GoTo, RangeIsExclusive, storeVars
<1>4. ASSUME NEW l \in Loop, TrainReturns(l) PROVE RangeIsExclusive'
  BY <1>0, <1>4 DEF TrainReturns, At, GoTo, RangeIsExclusive, storeVars, tickVars
<1>5. ASSUME NEW l \in Loop, Unlock(l) PROVE RangeIsExclusive'
  BY <1>0, <1>5 DEF Unlock, At, GoTo, RangeIsExclusive, storeVars, tickVars
<1>6. ASSUME NEW l \in Loop, Predicting(l) PROVE RangeIsExclusive'
  BY <1>0, <1>6 DEF Predicting, Predicted, PredictFails, RangeIsExclusive, storeVars
<1>7. ASSUME NEW l \in Loop,
             NoResults(l) \/ UpToRefuses(l) \/ SetReplica(l) \/ ScaleFails(l)
      PROVE  RangeIsExclusive'
  BY <1>0, <1>7 DEF NoResults, UpToRefuses, SetReplica, ScaleFails, EndTick, GoTo,
                    RangeIsExclusive, storeVars
<1>8. ASSUME NEW l \in Loop, Aggregate(l) \/ UpToDecides(l) PROVE RangeIsExclusive'
  BY <1>0, <1>8 DEF Aggregate, UpToDecides, GoTo, RangeIsExclusive, storeVars
<1>9. ASSUME NEW w \in WithModelKey, ReconcilePredictor(w) PROVE RangeIsExclusive'
  BY <1>0, <1>9 DEF ReconcilePredictor, CanLock, RangeIsExclusive, tickVars
<1>10. ASSUME UNCHANGED <<pc, lock, left, predictorMap>> PROVE RangeIsExclusive'
  BY <1>10 DEF RangeIsExclusive
<1>11. ASSUME NEW l \in Loop, AggregatePanics(l) PROVE RangeIsExclusive'
  BY <1>10, <1>11 DEF AggregatePanics, storeVars, tickVars
<1>12. ASSUME \/ NextHandler
              \/ \E k \in Key : ReconcileMetric(k)
              \/ \E w \in WithModelKey : ReconcileModel(w) \/ IntervalPasses(w)
              \/ \E c \in Configs : StartPass(c)
              \/ \E n \in Counts : OthersScale(n)
              \/ UNCHANGED vars
       PROVE  RangeIsExclusive'
  BY <1>10, <1>12 DEF NextHandler, ReconcileMetric, ReconcileModel, IntervalPasses, StartPass,
                      OthersScale, vars, storeVars, tickVars
<1> QED
  BY <1>1, <1>2, <1>3, <1>4, <1>5, <1>6, <1>7, <1>8, <1>9, <1>11, <1>12
     DEF Next, Locked, Deciding, Reconciling

LEMMA StagesStep ==
  ASSUME TypeOK, StagesAgree, [Next]_vars
  PROVE  StagesAgree'
<1>0. /\ pc \in [Loop -> Points] /\ left \in [Loop -> SUBSET WithModelKey]
      /\ running \in [Loop -> SUBSET Prediction] /\ results \in [Loop -> Seq(Result)]
  BY DEF TypeOK, Result
<1>1. ASSUME NEW l \in Loop, Tick(l) PROVE StagesAgree'
  BY <1>0, <1>1 DEF Tick, At, GoTo, StagesAgree
<1>2. ASSUME NEW l \in Loop, NEW w \in WithModelKey, Skip(l, w) PROVE StagesAgree'
  BY <1>0, <1>2 DEF Skip, At, StagesAgree
<1>3. ASSUME NEW l \in Loop, NEW w \in WithModelKey, Dispatch(l, w) PROVE StagesAgree'
  BY <1>0, <1>3 DEF Dispatch, At, GoTo, StagesAgree
<1>4. ASSUME NEW l \in Loop, TrainReturns(l) \/ Unlock(l) PROVE StagesAgree'
  BY <1>0, <1>4 DEF TrainReturns, Unlock, At, GoTo, StagesAgree, tickVars
<1>5. ASSUME NEW l \in Loop, NEW p \in running[l], NEW f, Predicted(l, p, f)
      PROVE  StagesAgree'
  BY <1>0, <1>5 DEF Predicted, StagesAgree
<1>6. ASSUME NEW l \in Loop, NEW p \in running[l], PredictFails(l, p) PROVE StagesAgree'
  BY <1>0, <1>6 DEF PredictFails, StagesAgree
<1>7. ASSUME NEW l \in Loop,
             NoResults(l) \/ UpToRefuses(l) \/ SetReplica(l) \/ ScaleFails(l)
      PROVE  StagesAgree'
  BY <1>0, <1>7 DEF NoResults, Joined, UpToRefuses, SetReplica, ScaleFails, EndTick, At, GoTo,
                    StagesAgree
<1>8. ASSUME NEW l \in Loop, Aggregate(l) PROVE StagesAgree'
  BY <1>0, <1>8 DEF Aggregate, Joined, At, GoTo, StagesAgree
<1>9. ASSUME NEW l \in Loop, UpToDecides(l) PROVE StagesAgree'
  BY <1>0, <1>9 DEF UpToDecides, At, GoTo, StagesAgree
<1>10. ASSUME UNCHANGED <<pc, left, running, results>> PROVE StagesAgree'
  BY <1>10 DEF StagesAgree
<1>11. ASSUME NEW l \in Loop, AggregatePanics(l) PROVE StagesAgree'
  BY <1>10, <1>11 DEF AggregatePanics, tickVars
<1>12. ASSUME \/ Reconciling
              \/ \E w \in WithModelKey : IntervalPasses(w)
              \/ \E c \in Configs : StartPass(c)
              \/ \E n \in Counts : OthersScale(n)
              \/ UNCHANGED vars
       PROVE  StagesAgree'
  BY <1>10, <1>12 DEF Reconciling, NextHandler, ReconcileMetric, ReconcileModel,
                      ReconcilePredictor, IntervalPasses, StartPass, OthersScale, vars, tickVars
<1> QED
  BY <1>1, <1>2, <1>3, <1>4, <1>5, <1>6, <1>7, <1>8, <1>9, <1>11, <1>12
     DEF Next, Locked, Predicting, Deciding

-----------------------------------------------------------------------------
(* The results channel *)

LEMMA OneEachStep ==
  ASSUME TypeOK, StagesAgree, OneEach, [Next]_vars
  PROVE  OneEach'
<1>0. /\ pc \in [Loop -> Points] /\ left \in [Loop -> SUBSET WithModelKey]
      /\ running \in [Loop -> SUBSET Prediction] /\ results \in [Loop -> Seq(Result)]
      /\ \A l \in Loop : pc[l] = "tick" => results[l] = <<>>
  BY DEF TypeOK, Result
<1>1. ASSUME NEW l \in Loop, Tick(l) PROVE OneEach'
  <2>1. running[l] = {} /\ results[l] = <<>>
    BY <1>0, <1>1 DEF Tick, At, StagesAgree
  <2> QED
    BY <1>0, <1>1, <2>1 DEF Tick, OneEach
<1>2. ASSUME NEW l \in Loop, NEW w \in WithModelKey, Skip(l, w) PROVE OneEach'
  BY <1>0, <1>2 DEF Skip, OneEach
<1>3. ASSUME NEW l \in Loop, NEW w \in WithModelKey, Dispatch(l, w) PROVE OneEach'
  <2>1. PICK p : p.key = w /\ running' = [running EXCEPT ![l] = @ \cup {p}]
    <3>1. [key |-> w, target |-> metricMap[w[1]].target].key = w
      OBVIOUS
    <3> QED
      BY <1>3, <3>1 DEF Dispatch
  <2>2. w \in left[l] /\ left' = [left EXCEPT ![l] = @ \ {w}] /\ results' = results
    BY <1>3 DEF Dispatch
  <2> QED
    BY <1>0, <2>1, <2>2 DEF OneEach
<1>4. ASSUME NEW l \in Loop, NEW p \in running[l], NEW f, Predicted(l, p, f)
      PROVE  OneEach'
  <2>1. PICK r : /\ r.key = p.key /\ results' = [results EXCEPT ![l] = Append(@, r)]
                 /\ running' = [running EXCEPT ![l] = @ \ {p}] /\ left' = left
    <3>1. [key |-> p.key, votes |-> UnderThreshold(p.target, f)].key = p.key
      OBVIOUS
    <3> QED
      BY <1>4, <3>1 DEF Predicted
  <2>2. ASSUME NEW i \in DOMAIN results'[l]
        PROVE  \/ results'[l][i].key = p.key
               \/ i \in DOMAIN results[l] /\ results'[l][i] = results[l][i]
    BY <1>0, <2>1
  <2>3. ASSUME NEW m \in Loop, m # l
        PROVE  results'[m] = results[m] /\ running'[m] = running[m] /\ left'[m] = left[m]
    BY <1>0, <2>1, <2>3
  <2>4. running'[l] = running[l] \ {p} /\ left'[l] = left[l]
    BY <1>0, <2>1
  <2>5. ASSUME NEW m \in Loop
        PROVE  /\ \A q, o \in running'[m] : q.key = o.key => q = o
               /\ \A q \in running'[m] : q.key \notin left'[m]
               /\ \A i \in DOMAIN results'[m] :
                    /\ results'[m][i].key \notin left'[m]
                    /\ \A q \in running'[m] : q.key # results'[m][i].key
    <3>1. CASE m = l
      BY <2>2, <2>4, <3>1 DEF OneEach
    <3>2. CASE m # l
      BY <2>3, <3>2 DEF OneEach
    <3> QED
      BY <3>1, <3>2
  <2> QED
    BY <2>5 DEF OneEach
<1>5. ASSUME NEW l \in Loop, NEW p \in running[l], PredictFails(l, p) PROVE OneEach'
  BY <1>0, <1>5 DEF PredictFails, OneEach
<1>6. ASSUME NEW l \in Loop,
             NoResults(l) \/ UpToRefuses(l) \/ SetReplica(l) \/ ScaleFails(l)
      PROVE  OneEach'
  <2>1. EndTick(l)
    BY <1>6 DEF NoResults, UpToRefuses, SetReplica, ScaleFails
  <2>2. /\ left' = left /\ running' = running /\ results'[l] = <<>>
        /\ \A m \in Loop : m # l => results'[m] = results[m]
    BY <1>0, <2>1 DEF EndTick
  <2>3. \A m \in Loop : \A i \in DOMAIN results'[m] :
          i \in DOMAIN results[m] /\ results'[m][i] = results[m][i]
    BY <2>2
  <2> QED
    BY <2>2, <2>3 DEF OneEach
<1>7. ASSUME UNCHANGED <<left, running, results>> PROVE OneEach'
  BY <1>7 DEF OneEach
<1>8. ASSUME NEW l \in Loop,
             \/ TrainReturns(l) \/ Unlock(l) \/ Aggregate(l) \/ AggregatePanics(l)
             \/ UpToDecides(l)
      PROVE  OneEach'
  BY <1>7, <1>8 DEF TrainReturns, Unlock, Aggregate, AggregatePanics, UpToDecides, tickVars
<1>9. ASSUME \/ Reconciling
             \/ \E w \in WithModelKey : IntervalPasses(w)
             \/ \E c \in Configs : StartPass(c)
             \/ \E n \in Counts : OthersScale(n)
             \/ UNCHANGED vars
      PROVE  OneEach'
  BY <1>7, <1>9 DEF Reconciling, NextHandler, ReconcileMetric, ReconcileModel,
                    ReconcilePredictor, IntervalPasses, StartPass, OthersScale, vars, tickVars
<1> QED
  BY <1>1, <1>2, <1>3, <1>4, <1>5, <1>6, <1>8, <1>9 DEF Next, Locked, Predicting, Deciding

\* The room of one loop.
RoomFor(l) ==
  /\ IsFiniteSet(running[l]) /\ IsFiniteSet(left[l])
  /\ Len(results[l]) + Cardinality(running[l]) + Cardinality(left[l]) <= cap[l]

LEMMA RoomStep ==
  ASSUME TypeOK, StagesAgree, RoomForAll, [Next]_vars
  PROVE  RoomForAll'
<1>0. /\ pc \in [Loop -> Points] /\ left \in [Loop -> SUBSET WithModelKey]
      /\ running \in [Loop -> SUBSET Prediction] /\ results \in [Loop -> Seq(Result)]
      /\ cap \in [Loop -> Nat] /\ predictorMap \subseteq WithModelKey
      /\ \A l \in Loop : pc[l] = "tick" => results[l] = <<>>
  BY DEF TypeOK, Result
<1>1. ASSUME NEW l \in Loop, RoomFor(l)',
             \A m \in Loop \ {l} : /\ results'[m] = results[m] /\ running'[m] = running[m]
                                   /\ left'[m] = left[m] /\ cap'[m] = cap[m]
      PROVE  RoomForAll'
  BY <1>1 DEF RoomForAll, RoomFor
<1>2. \A l \in Loop : /\ IsFiniteSet(running[l]) /\ Cardinality(running[l]) \in Nat
                      /\ IsFiniteSet(left[l]) /\ Cardinality(left[l]) \in Nat
                      /\ Len(results[l]) \in Nat /\ cap[l] \in Nat
                      /\ Len(results[l]) + Cardinality(running[l]) + Cardinality(left[l])
                           <= cap[l]
  BY <1>0, FS_CardinalityType DEF RoomForAll
<1>3. ASSUME NEW l \in Loop, Tick(l) PROVE RoomForAll'
  <2>1. running[l] = {} /\ results[l] = <<>>
    BY <1>0, <1>3 DEF Tick, At, StagesAgree
  <2>2. IsFiniteSet(predictorMap) /\ Cardinality(predictorMap) \in Nat
    BY <1>0, SchedulerAssumption, FS_Product, FS_Subset, FS_CardinalityType DEF WithModelKey
  <2>3. /\ running' = running /\ results' = results
        /\ left' = [left EXCEPT ![l] = predictorMap]
        /\ cap' = [cap EXCEPT ![l] = Cardinality(predictorMap)]
    BY <1>3 DEF Tick, Capacity
  <2>4. RoomFor(l)'
    <3>1. Len(results'[l]) = 0 /\ running'[l] = {} /\ left'[l] = predictorMap
          /\ cap'[l] = Cardinality(predictorMap)
      BY <1>0, <2>1, <2>3
    <3>2. IsFiniteSet({}) /\ Cardinality({}) = 0
      BY FS_EmptySet
    <3> QED
      BY <2>2, <3>1, <3>2 DEF RoomFor
  <2> QED
    BY <1>0, <1>1, <2>3, <2>4
<1>4. ASSUME NEW l \in Loop, NEW w \in left[l],
             left' = [left EXCEPT ![l] = @ \ {w}], results' = results, cap' = cap,
             NEW P \in {{}} \cup {{p} : p \in Prediction},
             running' = [running EXCEPT ![l] = @ \cup P]
      PROVE  RoomForAll'
  <2>1. left'[l] = left[l] \ {w} /\ running'[l] = running[l] \cup P
        /\ results'[l] = results[l] /\ cap'[l] = cap[l]
    BY <1>0, <1>4
  <2>2. IsFiniteSet(left'[l]) /\ Cardinality(left'[l]) = Cardinality(left[l]) - 1
    <3>1. IsFiniteSet(left[l]) /\ w \in left[l]
      BY <1>2
    <3> QED
      BY <2>1, <3>1, FS_RemoveElement
  <2>3. /\ IsFiniteSet(running'[l]) /\ Cardinality(running'[l]) \in Nat
        /\ Cardinality(running'[l]) <= Cardinality(running[l]) + 1
    <3>1. CASE P = {}
      BY <1>2, <2>1, <3>1
    <3>2. CASE P # {}
      <4>1. PICK p : P = {p}
        BY <3>2
      <4>2. IsFiniteSet(running[l]) /\ Cardinality(running[l]) \in Nat
        BY <1>2
      <4>3. running'[l] = running[l] \cup {p}
        BY <2>1, <4>1
      <4>4. /\ IsFiniteSet(running'[l])
            /\ \/ Cardinality(running'[l]) = Cardinality(running[l])
               \/ Cardinality(running'[l]) = Cardinality(running[l]) + 1
        <5>1. PICK A : A = running[l]
          OBVIOUS
        <5>2. IsFiniteSet(A \cup {p})
              /\ (Cardinality(A \cup {p}) = IF p \in A THEN Cardinality(A) ELSE Cardinality(A) + 1)
          BY <4>2, <5>1, FS_AddElement
        <5> QED
          BY <4>3, <5>1, <5>2
      <4> QED
        BY <4>2, <4>4
    <3> QED
      BY <3>1, <3>2
  <2>4. RoomFor(l)'
    BY <1>2, <2>1, <2>2, <2>3 DEF RoomFor
  <2> QED
    BY <1>0, <1>1, <1>4, <2>4
<1>5. ASSUME NEW l \in Loop, NEW w \in WithModelKey, Skip(l, w) PROVE RoomForAll'
  <2>1. running' = [running EXCEPT ![l] = @ \cup {}]
    BY <1>0, <1>5 DEF Skip
  <2> QED
    BY <1>4, <1>5, <2>1 DEF Skip
<1>6. ASSUME NEW l \in Loop, NEW w \in WithModelKey, Dispatch(l, w) PROVE RoomForAll'
  <2>1. metricMap[w[1]] \in Metric
    BY <1>6 DEF Dispatch, Known, TypeOK, WithModelKey
  <2>2. [key |-> w, target |-> metricMap[w[1]].target] \in Prediction
    BY <2>1 DEF Prediction, Metric
  <2>3. PICK p \in Prediction : running' = [running EXCEPT ![l] = @ \cup {p}]
    BY <1>6, <2>2 DEF Dispatch
  <2>4. PICK P \in {{}} \cup {{q} : q \in Prediction} : P = {p}
    OBVIOUS
  <2>5. running' = [running EXCEPT ![l] = @ \cup P]
    BY <2>3, <2>4
  <2>6. /\ w \in left[l] /\ left' = [left EXCEPT ![l] = @ \ {w}]
        /\ results' = results /\ cap' = cap
    BY <1>6 DEF Dispatch
  <2> QED
    BY <1>4, <2>5, <2>6
<1>7. ASSUME NEW l \in Loop, NEW p \in running[l],
             running' = [running EXCEPT ![l] = @ \ {p}], left' = left, cap' = cap,
             \A m \in Loop \ {l} : results'[m] = results[m],
             Len(results'[l]) \in Nat, Len(results'[l]) <= Len(results[l]) + 1
      PROVE  RoomForAll'
  <2>1. /\ IsFiniteSet(running'[l]) /\ Cardinality(running'[l]) = Cardinality(running[l]) - 1
        /\ left'[l] = left[l] /\ cap'[l] = cap[l]
    BY <1>0, <1>2, <1>7, FS_RemoveElement
  <2>2. RoomFor(l)'
    <3>1. PICK r, c, e, z \in Nat : /\ r = Len(results[l]) /\ c = Cardinality(running[l])
                                    /\ e = Cardinality(left[l]) /\ z = cap[l]
      BY <1>2
    <3>2. r + c + e <= z
      BY <1>2, <3>1, Zenon
    <3>3. PICK y \in Nat : y = Len(results'[l]) /\ y <= r + 1
      BY <1>7, <3>1, Zenon
    <3>4. y + (c - 1) + e <= z
      BY <3>2, <3>3
    <3> QED
      BY <1>2, <2>1, <3>1, <3>3, <3>4, Zenon DEF RoomFor
  <2> QED
    BY <1>0, <1>1, <1>7, <2>2
<1>8. ASSUME NEW l \in Loop, NEW p \in running[l], NEW f, Predicted(l, p, f)
      PROVE  RoomForAll'
  <2>1. PICK r : results' = [results EXCEPT ![l] = Append(@, r)]
    BY <1>8 DEF Predicted
  <2>2. /\ running' = [running EXCEPT ![l] = @ \ {p}] /\ left' = left /\ cap' = cap
        /\ \A m \in Loop \ {l} : results'[m] = results[m]
    BY <1>0, <1>8, <2>1 DEF Predicted
  <2>3. Len(results'[l]) = Len(results[l]) + 1 /\ Len(results[l]) \in Nat
    BY <1>0, <2>1
  <2>4. Len(results'[l]) \in Nat /\ Len(results'[l]) <= Len(results[l]) + 1
    BY <2>3
  <2> QED
    BY <1>7, <2>2, <2>4
<1>9. ASSUME NEW l \in Loop, NEW p \in running[l], PredictFails(l, p) PROVE RoomForAll'
  <2>1. /\ running' = [running EXCEPT ![l] = @ \ {p}] /\ left' = left /\ cap' = cap
        /\ \A m \in Loop \ {l} : results'[m] = results[m]
    BY <1>9 DEF PredictFails
  <2>2. Len(results'[l]) = Len(results[l]) /\ Len(results[l]) \in Nat
    BY <1>0, <1>9 DEF PredictFails
  <2>3. Len(results'[l]) \in Nat /\ Len(results'[l]) <= Len(results[l]) + 1
    BY <2>2
  <2> QED
    BY <1>7, <2>1, <2>3
<1>10. ASSUME NEW l \in Loop, EndTick(l), pc[l] \in {"wait", "scale", "set"}, running[l] = {}
       PROVE  RoomForAll'
  <2>1. /\ results'[l] = <<>> /\ cap'[l] = 0 /\ left'[l] = {} /\ running'[l] = {}
        /\ \A m \in Loop \ {l} : /\ results'[m] = results[m] /\ running'[m] = running[m]
                                 /\ left'[m] = left[m] /\ cap'[m] = cap[m]
    BY <1>0, <1>10 DEF EndTick, StagesAgree
  <2>2. RoomFor(l)'
    BY <2>1, FS_EmptySet DEF RoomFor
  <2> QED
    BY <1>1, <2>1, <2>2
<1>11. ASSUME NEW l \in Loop,
              NoResults(l) \/ UpToRefuses(l) \/ SetReplica(l) \/ ScaleFails(l)
       PROVE  RoomForAll'
  BY <1>10, <1>11 DEF NoResults, Joined, UpToRefuses, SetReplica, ScaleFails, At, StagesAgree
<1>12. ASSUME UNCHANGED <<cap, left, running, results>> PROVE RoomForAll'
  BY <1>12 DEF RoomForAll
<1>13. ASSUME NEW l \in Loop,
              \/ TrainReturns(l) \/ Unlock(l) \/ Aggregate(l) \/ AggregatePanics(l)
              \/ UpToDecides(l)
       PROVE  RoomForAll'
  BY <1>12, <1>13 DEF TrainReturns, Unlock, Aggregate, AggregatePanics, UpToDecides, tickVars
<1>14. ASSUME \/ Reconciling
              \/ \E w \in WithModelKey : IntervalPasses(w)
              \/ \E c \in Configs : StartPass(c)
              \/ \E n \in Counts : OthersScale(n)
              \/ UNCHANGED vars
       PROVE  RoomForAll'
  BY <1>12, <1>14 DEF Reconciling, NextHandler, ReconcileMetric, ReconcileModel,
                      ReconcilePredictor, IntervalPasses, StartPass, OthersScale, vars, tickVars
<1> QED
  BY <1>3, <1>5, <1>6, <1>8, <1>9, <1>11, <1>13, <1>14
     DEF Next, Locked, Predicting, Deciding

-----------------------------------------------------------------------------
(* Counts and types *)

LEMMA BoundsStep ==
  ASSUME TypeOK, CountsInBounds, [Next]_vars
  PROVE  CountsInBounds'
<1>0. /\ pc \in [Loop -> Points] /\ cur \in [Loop -> Int] /\ want \in [Loop -> Int]
      /\ MaxReplica \in Nat /\ Counts \subseteq Nat
  BY SchedulerAssumption DEF TypeOK
<1>1. ASSUME UNCHANGED <<replicas, cur, want>>, NEW l \in Loop, NEW pt \in Points \ {"set"},
             GoTo(l, pt) \/ UNCHANGED pc
      PROVE  CountsInBounds'
  BY <1>0, <1>1 DEF CountsInBounds, GoTo
<1>2. ASSUME NEW l \in Loop,
             Tick(l) \/ TrainReturns(l) \/ Unlock(l) \/ AggregatePanics(l) \/ Predicting(l)
      PROVE  CountsInBounds'
  <2>1. {"tick", "range", "wait"} \subseteq Points \ {"set"}
    BY DEF Points
  <2> QED
    BY <1>1, <1>2, <2>1 DEF Tick, TrainReturns, Unlock, AggregatePanics, Predicting, Predicted,
                            PredictFails, tickVars
<1>3. ASSUME NEW l \in Loop, Locked(l) PROVE CountsInBounds'
  <2>1. {"train"} \subseteq Points \ {"set"}
    BY DEF Points
  <2> QED
    BY <1>1, <1>3, <2>1 DEF Locked, Skip, Dispatch
<1>4. ASSUME NEW l \in Loop, EndTick(l), replicas' \in Nat PROVE CountsInBounds'
  BY <1>0, <1>4 DEF EndTick, GoTo, CountsInBounds
<1>5. ASSUME NEW l \in Loop, NoResults(l) \/ UpToRefuses(l) \/ ScaleFails(l)
      PROVE  CountsInBounds'
  BY <1>4, <1>5 DEF NoResults, UpToRefuses, ScaleFails, CountsInBounds
<1>6. ASSUME NEW l \in Loop, SetReplica(l) PROVE CountsInBounds'
  <2>1. replicas' = want[l] /\ want[l] \in 0 .. MaxReplica
    BY <1>6 DEF SetReplica, At, CountsInBounds
  <2> QED
    BY <1>0, <1>4, <1>6, <2>1 DEF SetReplica
<1>7. ASSUME NEW l \in Loop, Aggregate(l) PROVE CountsInBounds'
  <2>1. /\ UNCHANGED <<replicas, cur>> /\ pc' = [pc EXCEPT ![l] = "scale"]
        /\ \A m \in Loop \ {l} : want'[m] = want[m]
    BY <1>0, <1>7 DEF Aggregate, GoTo
  <2> QED
    BY <1>0, <2>1 DEF CountsInBounds
<1>8. ASSUME NEW l \in Loop, UpToDecides(l) PROVE CountsInBounds'
  <2>1. /\ replicas' = replicas /\ replicas \in Nat /\ replicas < want[l] /\ want[l] \in Int
        /\ cur' = [cur EXCEPT ![l] = replicas]
        /\ want' = [want EXCEPT ![l] = Smaller(want[l], MaxReplica)]
        /\ pc' = [pc EXCEPT ![l] = "set"]
    BY <1>0, <1>8 DEF UpToDecides, Capped, GoTo, CountsInBounds
  <2>2. /\ Smaller(want[l], MaxReplica) \in 0 .. MaxReplica
        /\ Smaller(want[l], MaxReplica) = MaxReplica \/ replicas < Smaller(want[l], MaxReplica)
    BY <1>0, <2>1 DEF Smaller
  <2> QED
    BY <1>0, <2>1, <2>2 DEF CountsInBounds
<1>9. ASSUME UNCHANGED <<pc, cur, want>>, replicas' \in Nat PROVE CountsInBounds'
  BY <1>9 DEF CountsInBounds
<1>10. ASSUME \/ Reconciling
              \/ \E w \in WithModelKey : IntervalPasses(w)
              \/ \E c \in Configs : StartPass(c)
              \/ \E n \in Counts : OthersScale(n)
              \/ UNCHANGED vars
       PROVE  CountsInBounds'
  <2>1. UNCHANGED <<pc, cur, want>> /\ (replicas' = replicas \/ replicas' \in Counts)
    BY <1>10 DEF Reconciling, NextHandler, ReconcileMetric, ReconcileModel,
                 ReconcilePredictor, IntervalPasses, StartPass, OthersScale, vars, tickVars
  <2> QED
    BY <1>0, <1>9, <2>1 DEF CountsInBounds
<1> QED
  BY <1>2, <1>3, <1>5, <1>6, <1>7, <1>8, <1>10 DEF Next, Deciding

\* TypeOK in two parts: what the loops share, and what each of them has.
SharedOK ==
  /\ metricMap \in Metrics
  /\ modelMap \in [WithModelKey -> Model \cup {Absent}]
  /\ predictorMap \subseteq WithModelKey
  /\ lock \in Loop \cup {Absent}
  /\ goal \in Configs /\ rpc \in {"idle", "metrics", "models", "predictors"}
  /\ replicas \in Int
  /\ panicked \in {Absent, "MaxStrategy", "AddSlice"}
  /\ recent \subseteq WithModelKey

LoopsOK ==
  /\ pc \in [Loop -> Points]
  /\ cap \in [Loop -> Nat]
  /\ left \in [Loop -> SUBSET WithModelKey]
  /\ running \in [Loop -> SUBSET Prediction]
  /\ results \in [Loop -> Seq(Result)]
  /\ cur \in [Loop -> Int] /\ want \in [Loop -> Int] /\ need \in [Loop -> Int]
  /\ \A l \in Loop : pc[l] = "tick" => running[l] = {} /\ results[l] = <<>>

LEMMA TypesSplit == TypeOK <=> SharedOK /\ LoopsOK
BY DEF TypeOK, SharedOK, LoopsOK, Metrics, Result

LEMMA TypesJoin == SharedOK' /\ LoopsOK' => TypeOK'
BY DEF TypeOK, SharedOK, LoopsOK, Metrics, Result

LEMMA SharedStep ==
  ASSUME TypeOK, [Next]_vars
  PROVE  SharedOK'
<1>0. SharedOK /\ LoopsOK /\ \A l \in Loop : want[l] \in Int
  BY TypesSplit DEF LoopsOK
<1>1. ASSUME NEW l \in Loop, Tick(l) \/ TrainReturns(l) \/ Unlock(l) PROVE SharedOK'
  BY <1>0, <1>1 DEF Tick, TrainReturns, Unlock, SharedOK, storeVars, passVars
<1>2. ASSUME NEW l \in Loop, Locked(l) PROVE SharedOK'
  BY <1>0, <1>2 DEF Locked, Skip, Dispatch, SharedOK, storeVars, passVars
<1>3. ASSUME NEW l \in Loop, Predicting(l) PROVE SharedOK'
  BY <1>0, <1>3 DEF Predicting, Predicted, PredictFails, SharedOK, storeVars, passVars
<1>4. ASSUME NEW l \in Loop,
             \/ NoResults(l) \/ Aggregate(l) \/ AggregatePanics(l) \/ UpToRefuses(l)
             \/ UpToDecides(l) \/ ScaleFails(l)
      PROVE  SharedOK'
  BY <1>0, <1>4 DEF NoResults, Aggregate, AggregatePanics, UpToRefuses, UpToDecides, ScaleFails,
                    SharedOK, storeVars, passVars
<1>5. ASSUME NEW l \in Loop, SetReplica(l) PROVE SharedOK'
  <2>1. replicas' \in Int
    BY <1>0, <1>5 DEF SetReplica, At
  <2> QED
    BY <1>0, <1>5, <2>1 DEF SetReplica, SharedOK, storeVars, passVars
<1>6. ASSUME NEW c \in Configs, StartPass(c) PROVE SharedOK'
  BY <1>0, <1>6 DEF StartPass, SharedOK, storeVars
<1>7. goal.metrics \in Metrics /\ goal.models \in [WithModelKey -> Model \cup {Absent}]
  BY <1>0, SchedulerAssumption DEF SharedOK, Config, Metrics
<1>8. ASSUME Reconciling PROVE SharedOK'
  <2>1. CASE NextHandler
    BY <1>0, <2>1 DEF NextHandler, SharedOK, storeVars
  <2>2. ASSUME NEW k \in Key, ReconcileMetric(k) PROVE SharedOK'
    <3>1. metricMap' \in Metrics
      BY <1>0, <1>7, <2>2 DEF ReconcileMetric, SharedOK, Metrics
    <3> QED
      BY <1>0, <2>2, <3>1 DEF ReconcileMetric, SharedOK, passVars
  <2>3. ASSUME NEW w \in WithModelKey, ReconcileModel(w) PROVE SharedOK'
    <3>1. modelMap' \in [WithModelKey -> Model \cup {Absent}]
      BY <1>0, <1>7, <2>3 DEF ReconcileModel, SharedOK
    <3> QED
      BY <1>0, <2>3, <3>1 DEF ReconcileModel, SharedOK, passVars
  <2>4. ASSUME NEW w \in WithModelKey, ReconcilePredictor(w) PROVE SharedOK'
    <3>1. predictorMap' \subseteq WithModelKey
      BY <1>0, <2>4 DEF ReconcilePredictor, SharedOK
    <3> QED
      BY <1>0, <2>4, <3>1 DEF ReconcilePredictor, SharedOK, passVars
  <2> QED
    BY <1>8, <2>1, <2>2, <2>3, <2>4 DEF Reconciling
<1>9. ASSUME NEW n \in Counts, OthersScale(n) PROVE SharedOK'
  BY <1>0, <1>9, SchedulerAssumption DEF OthersScale, SharedOK, storeVars, passVars
<1>10. ASSUME NEW w \in WithModelKey, IntervalPasses(w) PROVE SharedOK'
  BY <1>0, <1>10 DEF IntervalPasses, SharedOK, storeVars, passVars
<1>11. CASE UNCHANGED vars
  BY <1>0, <1>11 DEF vars, SharedOK, storeVars, passVars
<1> QED
  BY <1>1, <1>2, <1>3, <1>4, <1>5, <1>6, <1>8, <1>9, <1>10, <1>11 DEF Next, Deciding

LEMMA LoopsStep ==
  ASSUME TypeOK, StagesAgree, [Next]_vars
  PROVE  LoopsOK'
<1>0. SharedOK /\ LoopsOK
  BY TypesSplit
<1>1. ASSUME NEW l \in Loop, Tick(l) PROVE LoopsOK'
  <2>1. Cardinality(predictorMap) \in Nat
    BY <1>0, SchedulerAssumption, FS_Product, FS_Subset, FS_CardinalityType
       DEF SharedOK, WithModelKey
  <2> QED
    BY <1>0, <1>1, <2>1 DEF Tick, Capacity, GoTo, LoopsOK, SharedOK, Points
<1>2. ASSUME NEW l \in Loop, NEW w \in WithModelKey, Skip(l, w) PROVE LoopsOK'
  BY <1>0, <1>2 DEF Skip, LoopsOK
<1>3. ASSUME NEW l \in Loop, NEW w \in WithModelKey, Dispatch(l, w) PROVE LoopsOK'
  <2>1. metricMap[w[1]] \in Metric
    BY <1>0, <1>3 DEF Dispatch, Known, SharedOK, Metrics, WithModelKey
  <2>2. PICK p \in Prediction : running' = [running EXCEPT ![l] = @ \cup {p}]
    BY <1>3, <2>1 DEF Dispatch, Prediction, Metric
  <2>3. /\ left' = [left EXCEPT ![l] = @ \ {w}] /\ pc[l] = "range"
        /\ pc' = [pc EXCEPT ![l] = "train"] \/ pc' = pc
        /\ UNCHANGED <<cap, results, cur, want, need>>
    BY <1>3 DEF Dispatch, At, GoTo
  <2> QED
    BY <1>0, <2>2, <2>3 DEF LoopsOK, Points
<1>4. ASSUME NEW l \in Loop, TrainReturns(l) \/ Unlock(l) PROVE LoopsOK'
  BY <1>0, <1>4 DEF TrainReturns, Unlock, GoTo, tickVars, LoopsOK, Points
<1>5. ASSUME NEW l \in Loop, NEW p \in running[l], NEW f \in Forecasts[p.key[2]],
             Predicted(l, p, f)
      PROVE  LoopsOK'
  <2>1. p \in Prediction /\ p.target \in Int /\ f \in Seq(Int)
    BY <1>0, <1>5, SchedulerAssumption DEF LoopsOK, Prediction, Predicted, WithModelKey
  <2>2. UnderThreshold(p.target, f) \in Seq(Int)
    BY <2>1, UnderThresholdType
  <2>3. PICK r \in Result : results' = [results EXCEPT ![l] = Append(@, r)]
    BY <1>5, <2>1, <2>2 DEF Predicted, Result, Prediction
  <2>4. /\ running' = [running EXCEPT ![l] = @ \ {p}] /\ pc[l] # "tick"
        /\ UNCHANGED <<pc, cap, left, cur, want, need>>
    BY <1>5 DEF Predicted, StagesAgree
  <2> QED
    BY <1>0, <2>3, <2>4 DEF LoopsOK
<1>6. ASSUME NEW l \in Loop, NEW p \in running[l], PredictFails(l, p) PROVE LoopsOK'
  BY <1>0, <1>6 DEF PredictFails, LoopsOK
<1>7. ASSUME NEW l \in Loop, EndTick(l), running[l] = {} PROVE LoopsOK'
  BY <1>0, <1>7 DEF EndTick, GoTo, LoopsOK, Points
<1>8. ASSUME NEW l \in Loop,
             NoResults(l) \/ UpToRefuses(l) \/ SetReplica(l) \/ ScaleFails(l)
      PROVE  LoopsOK'
  BY <1>7, <1>8 DEF NoResults, Joined, UpToRefuses, SetReplica, ScaleFails, At, StagesAgree
<1>9. ASSUME NEW l \in Loop, Aggregate(l) PROVE LoopsOK'
  <2>1. results[l] \in Seq(Result) /\ metricMap \in Metrics
    BY <1>0 DEF LoopsOK, SharedOK
  <2>2. PICK order \in SetToSeqs(Weighted(l)) :
          /\ ~SumPanics(MReplicas(l, order))
          /\ want' = [want EXCEPT ![l] =
                        TruncDiv(SelectMax(AddSlice(MReplicas(l, order))), 100)]
    BY <1>9 DEF Aggregate
  <2>3. MReplicas(l, order) \in Seq(Seq(Int))
    BY <2>1, MReplicasType
  <2>4. PICK n \in Int : want' = [want EXCEPT ![l] = n]
    BY <2>2, <2>3, WantType
  <2>5. PICK d \in Int : need' = [need EXCEPT ![l] = d]
    BY <1>9, <2>1, WeightedPeakCovers DEF Aggregate
  <2>6. pc' = [pc EXCEPT ![l] = "scale"] /\ UNCHANGED <<cap, left, running, results, cur>>
    BY <1>9 DEF Aggregate, GoTo
  <2> QED
    BY <1>0, <2>4, <2>5, <2>6 DEF LoopsOK, Points
<1>10. ASSUME NEW l \in Loop, UpToDecides(l) PROVE LoopsOK'
  <2>1. Capped(want[l]) \in Int /\ replicas \in Int
    BY <1>0, SchedulerAssumption DEF LoopsOK, SharedOK, Capped, Smaller
  <2>2. /\ cur' = [cur EXCEPT ![l] = replicas]
        /\ want' = [want EXCEPT ![l] = Capped(want[l])]
        /\ pc' = [pc EXCEPT ![l] = "set"]
        /\ UNCHANGED <<cap, left, running, results, need>>
    BY <1>10 DEF UpToDecides, GoTo
  <2> QED
    BY <1>0, <2>1, <2>2 DEF LoopsOK, Points
<1>11. ASSUME \/ \E l \in Loop : AggregatePanics(l)
              \/ Reconciling
              \/ \E w \in WithModelKey : IntervalPasses(w)
              \/ \E c \in Configs : StartPass(c)
              \/ \E n \in Counts : OthersScale(n)
              \/ UNCHANGED vars
       PROVE  LoopsOK'
  <2>1. UNCHANGED <<pc, tickVars>>
    BY <1>11 DEF AggregatePanics, Reconciling, NextHandler, ReconcileMetric, ReconcileModel,
                 ReconcilePredictor, IntervalPasses, StartPass, OthersScale, vars
  <2> QED
    BY <1>0, <2>1 DEF tickVars, LoopsOK
<1> QED
  BY <1>1, <1>2, <1>3, <1>4, <1>5, <1>6, <1>8, <1>9, <1>10, <1>11
     DEF Next, Locked, Predicting, Deciding

-----------------------------------------------------------------------------
(* The theorems *)

LEMMA StepInv == SchedInv /\ [Next]_vars => SchedInv'
<1> SUFFICES ASSUME SchedInv, [Next]_vars PROVE SchedInv'
  OBVIOUS
<1>0. /\ TypeOK /\ RangeIsExclusive /\ StagesAgree /\ RoomForAll /\ OneEach
      /\ CountsInBounds
  BY DEF SchedInv
<1>1. TypeOK'
  BY <1>0, SharedStep, LoopsStep, TypesJoin
<1>2. RangeIsExclusive' /\ StagesAgree'
  BY <1>0, ExclusiveStep, StagesStep
<1>3. RoomForAll' /\ OneEach'
  BY <1>0, RoomStep, OneEachStep
<1>4. CountsInBounds'
  BY <1>0, BoundsStep
<1> QED
  BY <1>1, <1>2, <1>3, <1>4 DEF SchedInv

LEMMA Invariance == Spec => []SchedInv
BY InitInv, StepInv, PTL DEF Spec

\* What a tick holds has its type, and nothing of a tick outlives it.
THEOREM TypeCorrect == Spec => []TypeOK
<1>1. SchedInv => TypeOK
  BY DEF SchedInv
<1> QED
  BY <1>1, Invariance, PTL

(***************************************************************************)
(* ResChan, made with the number of predictors under the lock, never fills *)
(* up: no prediction goroutine blocks on its send before waitGroup.Wait.   *)
(***************************************************************************)
THEOREM SendsNeverBlock == Spec => []ChanHasRoom
<1>1. SchedInv => ChanHasRoom
  <2> SUFFICES ASSUME SchedInv, NEW l \in Loop
               PROVE  Len(results[l]) + Cardinality(running[l]) <= cap[l]
    BY DEF ChanHasRoom
  <2>1. /\ Cardinality(running[l]) \in Nat /\ Cardinality(left[l]) \in Nat
        /\ Len(results[l]) + Cardinality(running[l]) + Cardinality(left[l]) <= cap[l]
    BY FS_CardinalityType DEF SchedInv, RoomForAll
  <2>2. Len(results[l]) \in Nat /\ cap[l] \in Nat
    BY DEF SchedInv, TypeOK
  <2> QED
    BY <2>1, <2>2
<1> QED
  BY <1>1, Invariance, PTL

(***************************************************************************)
(* However many Run goroutines an object has got, one at a time ranges     *)
(* over PredictorMap, and the reconciler changes nothing of what is left   *)
(* of the range.                                                           *)
(***************************************************************************)
THEOREM RangesExclude == Spec => []RangeIsExclusive
<1>1. SchedInv => RangeIsExclusive
  BY DEF SchedInv
<1> QED
  BY <1>1, Invariance, PTL

(***************************************************************************)
(* UpTo lowers the count only where another writer came between its read   *)
(* and its write, or where the count was above MaxReplica.                 *)
(***************************************************************************)
THEOREM LoweringIsARace == Spec => LowersOnlyWhenRaced
<1>1. SchedInv /\ [Next]_vars =>
        [\A l \in Loop : SetReplica(l) /\ replicas' < replicas =>
           replicas # cur[l] \/ cur[l] > MaxReplica]_vars
  <2> SUFFICES ASSUME SchedInv, NEW l \in Loop, SetReplica(l), replicas' < replicas,
                      replicas = cur[l]
               PROVE  cur[l] > MaxReplica
    OBVIOUS
  <2>1. /\ replicas' = want[l] /\ want[l] \in 0 .. MaxReplica /\ cur[l] \in Nat
        /\ want[l] = MaxReplica \/ cur[l] < want[l]
    BY DEF SchedInv, CountsInBounds, SetReplica, At
  <2>2. MaxReplica \in Nat
    BY SchedulerAssumption
  <2> QED
    BY <2>1, <2>2
<1> QED
  BY <1>1, Invariance, PTL DEF Spec, LowersOnlyWhenRaced

-----------------------------------------------------------------------------
(* The ticks are the rounds of ScalingRound *)

PhaseOf(point) == CASE point = "tick" -> "closed"
                    [] point \in {"range", "train", "wait"} -> "voting"
                    [] point \in {"scale", "set"} -> "decided"

\* What Round's variables stand for.
Phase   == [l \in Loop |-> PhaseOf(pc[l])]
Pending == [l \in Loop |-> left[l] \cup {p.key : p \in running[l]}]
Voted   == [l \in Loop |-> {r.key : r \in Range(results[l])}]

\* The actions of ScalingRound over these.
LEMMA RoundActions ==
  /\ \A l \in Loop :
       Round!Open(l) <=>
         /\ panicked = Absent /\ Phase[l] = "closed"
         /\ Phase' = [Phase EXCEPT ![l] = "voting"]
         /\ \E invited \in SUBSET WithModelKey :
              Pending' = [Pending EXCEPT ![l] = invited]
         /\ UNCHANGED <<panicked = Absent, Voted, replicas>>
  /\ \A l \in Loop, w \in WithModelKey :
       Round!Vote(l, w) <=>
         /\ panicked = Absent /\ Phase[l] = "voting" /\ w \in Pending[l]
         /\ Pending' = [Pending EXCEPT ![l] = @ \ {w}]
         /\ Voted' = [Voted EXCEPT ![l] = @ \cup {w}]
         /\ UNCHANGED <<panicked = Absent, Phase, replicas>>
  /\ \A l \in Loop, w \in WithModelKey :
       Round!Abstain(l, w) <=>
         /\ panicked = Absent /\ Phase[l] = "voting" /\ w \in Pending[l]
         /\ Pending' = [Pending EXCEPT ![l] = @ \ {w}]
         /\ UNCHANGED <<panicked = Absent, Phase, Voted, replicas>>
  /\ \A l \in Loop :
       Round!CloseEmpty(l) <=>
         /\ panicked = Absent /\ Phase[l] = "voting" /\ Pending[l] = {} /\ Voted[l] = {}
         /\ Phase' = [Phase EXCEPT ![l] = "closed"]
         /\ UNCHANGED <<panicked = Absent, Pending, Voted, replicas>>
  /\ \A l \in Loop :
       Round!Decide(l) <=>
         /\ panicked = Absent /\ Phase[l] = "voting" /\ Pending[l] = {} /\ Voted[l] # {}
         /\ Phase' = [Phase EXCEPT ![l] = "decided"]
         /\ UNCHANGED <<panicked = Absent, Pending, Voted, replicas>>
  /\ \A l \in Loop :
       Round!Close(l) <=>
         /\ panicked = Absent /\ Phase[l] = "decided"
         /\ Phase' = [Phase EXCEPT ![l] = "closed"]
         /\ Voted' = [Voted EXCEPT ![l] = {}]
         /\ replicas' \in {replicas} \cup 0 .. MaxReplica
         /\ UNCHANGED <<panicked = Absent, Pending>>
  /\ \A l \in Loop :
       Round!Die(l) <=>
         /\ panicked = Absent /\ Phase[l] = "voting" /\ Pending[l] = {} /\ Voted[l] # {}
         /\ (panicked = Absent)' = FALSE
         /\ UNCHANGED <<Phase, Pending, Voted, replicas>>
  /\ \A n :
       Round!OthersScale(n) <=>
         /\ panicked = Absent /\ replicas' = n
         /\ UNCHANGED <<panicked = Absent, Phase, Pending, Voted>>
  /\ UNCHANGED Round!vars <=> UNCHANGED <<panicked = Absent, Phase, Pending, Voted, replicas>>
BY DEF Round!Open, Round!Vote, Round!Abstain, Round!CloseEmpty, Round!Decide, Round!Close,
       Round!Die, Round!OthersScale, Round!AllIn, Round!At, Round!vars,
       Phase, PhaseOf, Pending, Voted

LEMMA PhaseValues ==
  /\ PhaseOf("tick") = "closed"
  /\ PhaseOf("range") = "voting" /\ PhaseOf("train") = "voting" /\ PhaseOf("wait") = "voting"
  /\ PhaseOf("scale") = "decided" /\ PhaseOf("set") = "decided"
BY DEF PhaseOf

LEMMA PhaseMoves ==
  ASSUME pc \in [Loop -> Points], NEW l \in Loop, NEW pt, GoTo(l, pt)
  PROVE  /\ Phase' = [Phase EXCEPT ![l] = PhaseOf(pt)]
         /\ PhaseOf(pt) = PhaseOf(pc[l]) => Phase' = Phase
<1>1. \A m \in Loop : pc'[m] = IF m = l THEN pt ELSE pc[m]
  BY DEF GoTo
<1>2. \A m \in Loop : PhaseOf(pc'[m]) = IF m = l THEN PhaseOf(pt) ELSE PhaseOf(pc[m])
  BY <1>1
<1>3. Phase' = [m \in Loop |-> PhaseOf(pc'[m])]
  BY DEF Phase, PhaseOf
<1> QED
  BY <1>2, <1>3 DEF Phase

Keys(P)  == {p.key : p \in P}
Voters(s) == {r.key : r \in Range(s)}

LEMMA PendingMoves ==
  ASSUME left \in [Loop -> SUBSET WithModelKey], running \in [Loop -> SUBSET Prediction],
         NEW l \in Loop, NEW A, NEW B,
         left' = [left EXCEPT ![l] = A], running' = [running EXCEPT ![l] = B]
  PROVE  /\ Pending' = [Pending EXCEPT ![l] = A \cup Keys(B)]
         /\ A \cup Keys(B) = Pending[l] => Pending' = Pending
<1>1. \A m \in Loop : left'[m] \cup Keys(running'[m])
                        = IF m = l THEN A \cup Keys(B) ELSE left[m] \cup Keys(running[m])
  OBVIOUS
<1>2. Pending' = [m \in Loop |-> left'[m] \cup Keys(running'[m])]
  BY DEF Pending, Keys
<1>3. Pending = [m \in Loop |-> left[m] \cup Keys(running[m])]
  BY DEF Pending, Keys
<1> QED
  BY <1>1, <1>2, <1>3

LEMMA VotedMoves ==
  ASSUME results \in [Loop -> Seq(Result)], NEW l \in Loop, NEW s,
         results' = [results EXCEPT ![l] = s]
  PROVE  Voted' = [Voted EXCEPT ![l] = Voters(s)]
<1>1. \A m \in Loop : Voters(results'[m]) = IF m = l THEN Voters(s) ELSE Voters(results[m])
  OBVIOUS
<1>2. Voted' = [m \in Loop |-> Voters(results'[m])] /\ Voted = [m \in Loop |-> Voters(results[m])]
  BY DEF Voted, Voters
<1> QED
  BY <1>1, <1>2

LEMMA RoundStays ==
  /\ UNCHANGED pc => UNCHANGED Phase
  /\ UNCHANGED <<left, running>> => UNCHANGED Pending
  /\ UNCHANGED results => UNCHANGED Voted
<1>1. Phase' = [m \in Loop |-> PhaseOf(pc'[m])]
  BY DEF Phase, PhaseOf
<1>2. UNCHANGED pc => UNCHANGED Phase
  BY <1>1 DEF Phase
<1> QED
  BY <1>2 DEF Pending, Voted

\* The keys of the goroutines and of the results change with them.
LEMMA KeysChange ==
  /\ \A P, p : Keys(P \cup {p}) = Keys(P) \cup {p.key}
  /\ \A P, p : (\A q \in P : q.key = p.key => q = p) /\ p \in P
                 => Keys(P \ {p}) = Keys(P) \ {p.key}
  /\ Keys({}) = {} /\ Voters(<<>>) = {}
  /\ \A s \in Seq(Result), r \in Result : Voters(Append(s, r)) = Voters(s) \cup {r.key}
  /\ \A s \in Seq(Result) : s # <<>> => Voters(s) # {}
<1>1. \A P, p : Keys(P \cup {p}) = Keys(P) \cup {p.key}
  BY DEF Keys
<1>2. ASSUME NEW P, NEW p \in P, \A q \in P : q.key = p.key => q = p
      PROVE  Keys(P \ {p}) = Keys(P) \ {p.key}
  BY <1>2 DEF Keys
<1>3. Keys({}) = {} /\ Voters(<<>>) = {}
  BY DEF Keys, Voters, Range
<1>4. ASSUME NEW s \in Seq(Result), NEW r \in Result
      PROVE  Voters(Append(s, r)) = Voters(s) \cup {r.key}
  <2>1. Range(Append(s, r)) = Range(s) \cup {r}
    <3>1. PICK t : t = Append(s, r)
      OBVIOUS
    <3>2. /\ Len(s) \in Nat /\ DOMAIN s = 1 .. Len(s) /\ DOMAIN t = 1 .. Len(s) + 1
          /\ t[Len(s) + 1] = r /\ \A i \in 1 .. Len(s) : t[i] = s[i]
      BY <3>1
    <3>3. ASSUME NEW x \in Range(t) PROVE x \in Range(s) \cup {r}
      BY <3>2 DEF Range
    <3>4. ASSUME NEW x \in Range(s) PROVE x \in Range(t)
      BY <3>2 DEF Range
    <3>5. r \in Range(t)
      BY <3>2 DEF Range
    <3> QED
      BY <3>1, <3>3, <3>4, <3>5
  <2> QED
    BY <2>1 DEF Voters
<1>5. ASSUME NEW s \in Seq(Result), s # <<>> PROVE Voters(s) # {}
  <2>1. 1 \in DOMAIN s
    BY <1>5
  <2>2. s[1] \in Range(s)
    BY <2>1 DEF Range
  <2> QED
    BY <2>2 DEF Voters
<1> QED
  BY <1>1, <1>2, <1>3, <1>4, <1>5

\* Every step of the scheduler is a step of ScalingRound, or changes nothing of it.
LEMMA RoundStep ==
  ASSUME SchedInv, [Next]_vars
  PROVE  [Round!Next]_Round!vars
<1>0. /\ pc \in [Loop -> Points] /\ left \in [Loop -> SUBSET WithModelKey]
      /\ running \in [Loop -> SUBSET Prediction] /\ results \in [Loop -> Seq(Result)]
  BY DEF SchedInv, TypeOK, Result
<1>1. \A l \in Loop : /\ Phase[l] = PhaseOf(pc[l])
                      /\ Pending[l] = left[l] \cup Keys(running[l])
                      /\ Voted[l] = Voters(results[l])
  BY DEF Phase, Pending, Voted, Keys, Voters
<1>2. ASSUME UNCHANGED <<panicked, pc, left, running, results>>, UNCHANGED replicas
      PROVE  UNCHANGED Round!vars
  BY <1>2, RoundStays, RoundActions
<1>3. ASSUME NEW l \in Loop, Tick(l) PROVE Round!Open(l)
  <2>1. running[l] = {} /\ predictorMap \in SUBSET WithModelKey
    BY <1>3 DEF SchedInv, TypeOK, Tick, At
  <2>2. Phase[l] = "closed" /\ Phase' = [Phase EXCEPT ![l] = "voting"]
    BY <1>0, <1>1, <1>3, PhaseMoves, PhaseValues DEF Tick, At
  <2>3. /\ running' = [running EXCEPT ![l] = {}]
        /\ left' = [left EXCEPT ![l] = predictorMap]
    BY <1>0, <1>3, <2>1 DEF Tick
  <2>4. Pending' = [Pending EXCEPT ![l] = predictorMap \cup Keys({})]
    BY <1>0, <2>3, PendingMoves
  <2>5. Pending' = [Pending EXCEPT ![l] = predictorMap]
    BY <2>4, KeysChange
  <2>6. panicked = Absent /\ UNCHANGED <<panicked, results, replicas>>
    BY <1>3 DEF Tick, At
  <2> QED
    BY <2>1, <2>2, <2>5, <2>6, RoundStays, RoundActions
<1>4. ASSUME NEW l \in Loop, NEW w \in WithModelKey, Skip(l, w) PROVE Round!Abstain(l, w)
  <2>1. /\ w \in left[l] /\ w \notin Keys(running[l])
    BY <1>4 DEF SchedInv, OneEach, Skip, Keys
  <2>2. left' = [left EXCEPT ![l] = left[l] \ {w}] /\ running' = [running EXCEPT ![l] = running[l]]
    BY <1>0, <1>4 DEF Skip
  <2>3. Pending' = [Pending EXCEPT ![l] = (left[l] \ {w}) \cup Keys(running[l])]
    BY <1>0, <2>2, PendingMoves
  <2>4. (left[l] \ {w}) \cup Keys(running[l]) = Pending[l] \ {w} /\ w \in Pending[l]
    BY <1>1, <2>1
  <2>5. /\ panicked = Absent /\ Phase[l] = "voting"
        /\ UNCHANGED <<panicked, pc, results, replicas>>
    BY <1>1, <1>4, PhaseValues DEF Skip, At
  <2> QED
    BY <2>3, <2>4, <2>5, RoundStays, RoundActions
<1>5. ASSUME NEW l \in Loop, NEW w \in WithModelKey, Dispatch(l, w) PROVE UNCHANGED Round!vars
  <2>1. PICK p : p.key = w /\ running' = [running EXCEPT ![l] = running[l] \cup {p}]
    <3>1. [key |-> w, target |-> metricMap[w[1]].target].key = w
      OBVIOUS
    <3> QED
      BY <1>5, <3>1 DEF Dispatch
  <2>2. w \in left[l] /\ left' = [left EXCEPT ![l] = left[l] \ {w}]
    BY <1>5 DEF Dispatch
  <2>3. (left[l] \ {w}) \cup Keys(running[l] \cup {p}) = Pending[l]
    BY <1>1, <2>1, <2>2, KeysChange
  <2>4. Pending' = Pending
    BY <1>0, <2>1, <2>2, <2>3, PendingMoves
  <2>5. Phase' = Phase
    <3>1. pc[l] = "range" /\ (GoTo(l, "train") \/ UNCHANGED pc)
      BY <1>5 DEF Dispatch, At
    <3> QED
      BY <1>0, <3>1, PhaseMoves, PhaseValues, RoundStays
  <2>6. UNCHANGED <<panicked, results, replicas>>
    BY <1>5 DEF Dispatch
  <2> QED
    BY <2>4, <2>5, <2>6, RoundStays, RoundActions
<1>6. ASSUME NEW l \in Loop, TrainReturns(l) \/ Unlock(l) \/ UpToDecides(l)
      PROVE  UNCHANGED Round!vars
  <2>1. \/ pc[l] = "train" /\ GoTo(l, "range")
        \/ pc[l] = "range" /\ GoTo(l, "wait")
        \/ pc[l] = "scale" /\ GoTo(l, "set")
    BY <1>6 DEF TrainReturns, Unlock, UpToDecides, At
  <2>2. Phase' = Phase
    BY <1>0, <2>1, PhaseMoves, PhaseValues
  <2>3. UNCHANGED <<panicked, left, running, results, replicas>>
    BY <1>6 DEF TrainReturns, Unlock, UpToDecides, tickVars
  <2> QED
    BY <2>2, <2>3, RoundStays, RoundActions
<1>7. ASSUME NEW l \in Loop, NEW p \in running[l]
      PROVE  /\ p.key \in WithModelKey /\ p.key \in Pending[l]
             /\ Phase[l] = "voting"
             /\ left[l] \cup Keys(running[l] \ {p}) = Pending[l] \ {p.key}
  <2>1. p.key \in WithModelKey
    BY <1>0 DEF Prediction
  <2>2. p.key \in Keys(running[l]) /\ p.key \notin left[l]
    BY DEF Keys, SchedInv, OneEach
  <2>3. Keys(running[l] \ {p}) = Keys(running[l]) \ {p.key}
    BY KeysChange DEF SchedInv, OneEach
  <2>4. pc[l] \in {"range", "train", "wait"}
    BY <1>0 DEF SchedInv, StagesAgree, Points
  <2> QED
    BY <1>1, <2>1, <2>2, <2>3, <2>4, PhaseValues
<1>8. ASSUME NEW l \in Loop, NEW p \in running[l],
             running' = [running EXCEPT ![l] = @ \ {p}], left' = left
      PROVE  Pending' = [Pending EXCEPT ![l] = @ \ {p.key}]
  <2>1. left' = [left EXCEPT ![l] = left[l]] /\ running' = [running EXCEPT ![l] = running[l] \ {p}]
    BY <1>0, <1>8
  <2>2. Pending' = [Pending EXCEPT ![l] = left[l] \cup Keys(running[l] \ {p})]
    BY <1>0, <2>1, PendingMoves
  <2> QED
    BY <1>7, <2>2
<1>9. ASSUME NEW l \in Loop, NEW p \in running[l], NEW f \in Forecasts[p.key[2]],
             Predicted(l, p, f)
      PROVE  Round!Vote(l, p.key)
  <2>1. p.target \in Int /\ f \in Seq(Int)
    BY <1>0, <1>9, <1>7, SchedulerAssumption DEF Prediction, Predicted, WithModelKey
  <2>2. UnderThreshold(p.target, f) \in Seq(Int)
    BY <2>1, UnderThresholdType
  <2>3. PICK r \in Result : r.key = p.key /\ results' = [results EXCEPT ![l] = Append(results[l], r)]
    <3>1. [key |-> p.key, votes |-> UnderThreshold(p.target, f)] \in Result
      BY <1>7, <2>2 DEF Result
    <3> QED
      BY <1>9, <3>1 DEF Predicted
  <2>4. Voted' = [Voted EXCEPT ![l] = Voters(Append(results[l], r))]
    BY <1>0, <2>3, VotedMoves
  <2>5. Voters(Append(results[l], r)) = Voted[l] \cup {p.key}
    BY <1>0, <1>1, <2>3, KeysChange
  <2>6. /\ panicked = Absent /\ UNCHANGED <<panicked, pc, replicas>>
        /\ running' = [running EXCEPT ![l] = @ \ {p}] /\ left' = left
    BY <1>9 DEF Predicted
  <2>7. Pending' = [Pending EXCEPT ![l] = @ \ {p.key}]
    BY <1>8, <2>6
  <2> QED
    BY <1>7, <2>4, <2>5, <2>6, <2>7, RoundStays, RoundActions
<1>10. ASSUME NEW l \in Loop, NEW p \in running[l], PredictFails(l, p)
       PROVE  Round!Abstain(l, p.key)
  <2>1. /\ panicked = Absent /\ UNCHANGED <<panicked, pc, results, replicas>>
        /\ running' = [running EXCEPT ![l] = @ \ {p}] /\ left' = left
    BY <1>10 DEF PredictFails
  <2>2. Pending' = [Pending EXCEPT ![l] = @ \ {p.key}]
    BY <1>8, <2>1
  <2> QED
    BY <1>7, <2>1, <2>2, RoundStays, RoundActions
<1>11. ASSUME NEW l \in Loop, Joined(l)
       PROVE  panicked = Absent /\ Phase[l] = "voting" /\ Pending[l] = {}
  BY <1>1, <1>11, PhaseValues, KeysChange DEF Joined, At, SchedInv, StagesAgree
<1>12. ASSUME NEW l \in Loop, EndTick(l)
       PROVE  /\ Phase' = [Phase EXCEPT ![l] = "closed"] /\ Voted' = [Voted EXCEPT ![l] = {}]
              /\ Pending' = Pending
  <2>1. GoTo(l, "tick") /\ results' = [results EXCEPT ![l] = <<>>] /\ UNCHANGED <<left, running>>
    BY <1>12 DEF EndTick
  <2>2. Phase' = [Phase EXCEPT ![l] = "closed"]
    BY <1>0, <2>1, PhaseMoves, PhaseValues
  <2>3. Voted' = [Voted EXCEPT ![l] = {}]
    BY <1>0, <2>1, VotedMoves, KeysChange
  <2> QED
    BY <2>1, <2>2, <2>3, RoundStays
<1>13. ASSUME NEW l \in Loop, NoResults(l) PROVE Round!CloseEmpty(l)
  <2>1. results[l] = <<>> /\ Joined(l) /\ EndTick(l) /\ UNCHANGED <<panicked, replicas>>
    BY <1>13 DEF NoResults
  <2>2. Voted[l] = {}
    BY <1>1, <2>1, KeysChange
  <2>3. results' = results
    BY <1>0, <2>1 DEF EndTick
  <2> QED
    BY <1>11, <1>12, <2>1, <2>2, <2>3, RoundStays, RoundActions
<1>14. ASSUME NEW l \in Loop, Aggregate(l) PROVE Round!Decide(l)
  <2>1. /\ Joined(l) /\ results[l] # <<>> /\ GoTo(l, "scale")
        /\ UNCHANGED <<panicked, left, running, results, replicas>>
    BY <1>14 DEF Aggregate
  <2>2. Voted[l] # {}
    BY <1>0, <1>1, <2>1, KeysChange
  <2>3. Phase' = [Phase EXCEPT ![l] = "decided"]
    BY <1>0, <2>1, PhaseMoves, PhaseValues
  <2> QED
    BY <1>11, <2>1, <2>2, <2>3, RoundStays, RoundActions
<1>15. ASSUME NEW l \in Loop, AggregatePanics(l) PROVE Round!Die(l)
  <2>1. /\ Joined(l) /\ results[l] # <<>> /\ panicked' \in {"MaxStrategy", "AddSlice"}
        /\ UNCHANGED <<pc, left, running, results, replicas>>
    BY <1>15 DEF AggregatePanics, tickVars
  <2>2. Voted[l] # {}
    BY <1>0, <1>1, <2>1, KeysChange
  <2>3. (panicked = Absent)' = FALSE
    BY <2>1, SchedulerAssumption
  <2> QED
    BY <1>11, <2>1, <2>2, <2>3, RoundStays, RoundActions
<1>16. ASSUME NEW l \in Loop, UpToRefuses(l) \/ SetReplica(l) \/ ScaleFails(l)
       PROVE  Round!Close(l)
  <2>1. /\ panicked = Absent /\ pc[l] \in {"scale", "set"} /\ EndTick(l) /\ UNCHANGED panicked
        /\ replicas' = replicas \/ (pc[l] = "set" /\ replicas' = want[l])
    BY <1>16 DEF UpToRefuses, SetReplica, ScaleFails, At
  <2>2. replicas' \in {replicas} \cup 0 .. MaxReplica
    BY <2>1 DEF SchedInv, CountsInBounds
  <2>3. Phase[l] = "decided"
    BY <1>1, <2>1, PhaseValues
  <2> QED
    BY <1>12, <2>1, <2>2, <2>3, RoundActions
<1>17. ASSUME NEW n \in Counts, OthersScale(n) PROVE Round!OthersScale(n)
  BY <1>17, RoundStays, RoundActions DEF OthersScale, tickVars
<1>18. ASSUME \/ Reconciling
              \/ \E w \in WithModelKey : IntervalPasses(w)
              \/ \E c \in Configs : StartPass(c)
              \/ UNCHANGED vars
       PROVE  UNCHANGED Round!vars
  <2>1. UNCHANGED <<panicked, pc, left, running, results>> /\ UNCHANGED replicas
    BY <1>18 DEF Reconciling, NextHandler, ReconcileMetric, ReconcileModel, ReconcilePredictor,
                 IntervalPasses, StartPass, vars, tickVars
  <2> QED
    BY <1>2, <2>1
<1>19. ASSUME NEW l \in Loop, Predicting(l) PROVE Round!Next
  <2>1. ASSUME NEW p \in running[l], NEW f \in Forecasts[p.key[2]], Predicted(l, p, f)
        PROVE  Round!Next
    BY <1>7, <1>9, <2>1 DEF Round!Next
  <2>2. ASSUME NEW p \in running[l], PredictFails(l, p) PROVE Round!Next
    BY <1>7, <1>10, <2>2 DEF Round!Next
  <2> QED
    BY <1>19, <2>1, <2>2 DEF Predicting
<1> QED
  BY <1>3, <1>4, <1>5, <1>6, <1>13, <1>14, <1>15, <1>16, <1>17, <1>18, <1>19
     DEF Next, Locked, Deciding, Round!Next

(***************************************************************************)
(* The scheduler carries out ScalingRound: in every tick each predictor    *)
(* votes at most once, the count is decided when all of them have answered *)
(* or failed, and at most one count of at most MaxReplica is written.      *)
(***************************************************************************)
THEOREM RoundsAreKept == Spec => TicksAreRounds
<1>1. Init => Round!Init
  <2> SUFFICES ASSUME Init PROVE Round!Init
    OBVIOUS
  <2>1. Phase = [l \in Loop |-> "closed"]
    BY PhaseValues DEF Init, Phase
  <2>2. Pending = [l \in Loop |-> {}] /\ Voted = [l \in Loop |-> {}]
    BY DEF Init, Pending, Voted, Range
  <2>3. (panicked = Absent) = TRUE /\ replicas \in Counts
    BY DEF Init
  <2> QED
    BY <2>1, <2>2, <2>3 DEF Round!Init, Phase, PhaseOf, Pending, Voted
<1>2. SchedInv /\ [Next]_vars => [Round!Next]_Round!vars
  BY RoundStep
<1> QED
  BY <1>1, <1>2, Invariance, PTL DEF Spec, TicksAreRounds, Round!Spec

-----------------------------------------------------------------------------
(* The aggregation errs on the low side *)

\* Dividing by 100 keeps the order.
LEMMA DivMonotone ==
  \A x, y \in Int : x <= y => /\ x \div 100 <= y \div 100
                             /\ x \div 100 \in Int /\ y \div 100 \in Int
OBVIOUS

\* The number for UpTo is one weighted element, or 0, and never more than the peak.
LEMMA WantCovered ==
  ASSUME NEW l \in Loop, results[l] \in Seq(Result), metricMap \in Metrics, NoneNegative,
         NEW order \in SetToSeqs(Weighted(l)), ~SumPanics(MReplicas(l, order))
  PROVE  TruncDiv(SelectMax(AddSlice(MReplicas(l, order))), 100) <= WeightedPeak(l)
<1>1. PICK m \in Seq(Seq(Int)) : m = MReplicas(l, order)
  BY MReplicasType
<1>2. ~AddSlicePanics(m) /\ ~SelectMaxPanics(AddSlice(m))
  BY <1>1 DEF SumPanics
<1>3. AddSlice(m) \in Seq(Int) /\ AddSlice(m) # <<>>
  BY <1>2, AddSliceType DEF SelectMaxPanics
<1>4. PICK i \in DOMAIN AddSlice(m) : SelectMax(AddSlice(m)) = AddSlice(m)[i]
  BY <1>3, SelectMaxIsGreatest
<1>5. AddSlice(m)[i] = IF i \in DOMAIN m THEN m[i][i] ELSE 0
  BY <1>4 DEF AddSlice
<1>6. PICK peak \in Int : /\ peak = WeightedPeak(l) /\ 0 <= peak
                          /\ \A k \in Weighted(l) : \A j \in DOMAIN Vector(l, k) :
                               Share(l, k, j) \div 100 <= peak
  BY WeightedPeakCovers
<1>7. CASE i \notin DOMAIN m
  <2>1. TruncDiv(0, 100) = 0
    BY DEF TruncDiv
  <2> QED
    BY <1>1, <1>4, <1>5, <1>6, <1>7, <2>1
<1>8. CASE i \in DOMAIN m
  <2>1. PICK k \in Weighted(l) : m[i] = MulSlice(metricMap[k].weight, Vector(l, k))
    <3>1. PICK n \in Nat : n = Cardinality(Weighted(l))
      BY WeightedType, FS_CardinalityType
    <3>2. order \in [1 .. n -> Weighted(l)]
      BY <3>1 DEF SetToSeqs
    <3>3. order[i] \in Weighted(l)
          /\ m[i] = MulSlice(metricMap[order[i]].weight, Vector(l, order[i]))
      BY <1>1, <1>8, <3>2 DEF MReplicas, Vector
    <3> QED
      BY <3>3
  <2>2. i \in DOMAIN m[i]
    <3>1. ~(i > Len(m[i]))
      BY <1>2, <1>8, Zenon DEF AddSlicePanics
    <3>2. PICK v \in Seq(Int) : v = m[i]
      BY <1>8
    <3>3. i \in Nat \ {0} /\ Len(v) \in Nat /\ ~(i > Len(v))
      BY <1>8, <3>1, <3>2
    <3> QED
      BY <3>2, <3>3
  <2>3. i \in DOMAIN Vector(l, k) /\ m[i][i] = Int32(Share(l, k, i))
    BY <2>1, <2>2 DEF MulSlice, Share
  <2>4. PICK s \in Nat : s = Share(l, k, i)
    BY <2>3, ShareNatural
  <2>5. PICK x \in Int : x = m[i][i] /\ x <= s
    BY <2>3, <2>4, Int32Type, Int32AtMost
  <2>6. s \div 100 <= peak
    BY <1>6, <2>3, <2>4
  <2>7. TruncDiv(x, 100) <= peak
    <3>1. CASE x >= 0
      <4>1. x \div 100 <= s \div 100 /\ x \div 100 \in Int /\ s \div 100 \in Int
        <5>1. x \in Int /\ s \in Int /\ x <= s
          BY <2>4, <2>5
        <5> QED
          BY ONLY <5>1, DivMonotone
      <4>2. x \div 100 <= peak
        BY <1>6, <2>6, <4>1
      <4> QED
        BY <3>1, <4>2 DEF TruncDiv
    <3>2. CASE ~(x >= 0)
      <4>1. (-x) \div 100 >= 0 /\ (-x) \div 100 \in Int
        <5>1. -x \in Int /\ 0 <= -x /\ 0 \in Int
          BY <2>5, <3>2
        <5> QED
          BY ONLY <5>1, DivMonotone
      <4>2. -((-x) \div 100) <= peak
        BY <1>6, <4>1
      <4> QED
        BY <3>2, <4>2 DEF TruncDiv
    <3> QED
      BY <3>1, <3>2
  <2> QED
    BY <1>1, <1>4, <1>5, <1>6, <1>8, <2>5, <2>7
<1> QED
  BY <1>7, <1>8

\* What keeps NeverOverscales: the weights in MetricMap are those of some config.
LowSide == NoneNegative /\ \A l \in Loop : pc[l] \in {"scale", "set"} => want[l] <= need[l]

LEMMA LowSideStep ==
  ASSUME WeightsNonNegative, SchedInv, LowSide, [Next]_vars
  PROVE  LowSide'
<1>0. /\ metricMap \in Metrics /\ goal \in Configs /\ pc \in [Loop -> Points]
      /\ want \in [Loop -> Int] /\ need \in [Loop -> Int] /\ results \in [Loop -> Seq(Result)]
  BY TypesSplit DEF SchedInv, SharedOK, LoopsOK
<1>1. NoneNegative'
  <2>1. CASE metricMap' = metricMap
    BY <2>1 DEF LowSide, NoneNegative
  <2>2. ASSUME NEW k \in Key, ReconcileMetric(k) PROVE NoneNegative'
    <3>1. metricMap' = [metricMap EXCEPT ![k] = goal.metrics[k]]
      BY <2>2 DEF ReconcileMetric
    <3>2. goal.metrics[k] # Absent => goal.metrics[k].weight >= 0
      BY <1>0 DEF WeightsNonNegative
    <3> QED
      BY <1>0, <3>1, <3>2 DEF LowSide, NoneNegative, Metrics
  <2>3. metricMap' = metricMap \/ \E k \in Key : ReconcileMetric(k)
    <3>1. ASSUME NEW l \in Loop, Deciding(l) PROVE metricMap' = metricMap
      BY <3>1 DEF Deciding, NoResults, Aggregate, AggregatePanics, UpToRefuses, UpToDecides,
           SetReplica, ScaleFails, EndTick, storeVars
    <3>2. ASSUME NEW l \in Loop,
                 Tick(l) \/ Locked(l) \/ TrainReturns(l) \/ Unlock(l) \/ Predicting(l)
          PROVE  metricMap' = metricMap
      BY <3>2 DEF Tick, Locked, Skip, Dispatch, TrainReturns, Unlock, Predicting, Predicted,
           PredictFails, storeVars
    <3>3. ASSUME Reconciling PROVE metricMap' = metricMap \/ \E k \in Key : ReconcileMetric(k)
      BY <3>3 DEF Reconciling, NextHandler, ReconcileModel, ReconcilePredictor, storeVars
    <3>4. ASSUME \/ \E c \in Configs : StartPass(c)
                 \/ \E n \in Counts : OthersScale(n)
                 \/ \E w \in WithModelKey : IntervalPasses(w)
                 \/ UNCHANGED vars
          PROVE  metricMap' = metricMap
      BY <3>4 DEF StartPass, OthersScale, IntervalPasses, vars, storeVars
    <3> QED
      BY <3>1, <3>2, <3>3, <3>4 DEF Next
  <2> QED
    BY <2>1, <2>2, <2>3
<1> DEFINE Low(l) == pc[l] \in {"scale", "set"} => want[l] <= need[l]
<1>2. \A l \in Loop : Low(l)
  BY DEF LowSide
<1>3. ASSUME NEW l \in Loop, NEW pt \in Points \ {"scale", "set"},
             GoTo(l, pt), UNCHANGED <<want, need>>
      PROVE  \A m \in Loop : Low(m)'
  BY <1>0, <1>2, <1>3 DEF GoTo
<1>4. ASSUME UNCHANGED <<pc, want, need>> PROVE \A m \in Loop : Low(m)'
  BY <1>2, <1>4
<1>5. ASSUME NEW l \in Loop, EndTick(l) PROVE \A m \in Loop : Low(m)'
  BY <1>0, <1>2, <1>5 DEF EndTick, GoTo
<1>6. ASSUME NEW l \in Loop,
             \/ Tick(l) \/ Locked(l) \/ TrainReturns(l) \/ Unlock(l) \/ Predicting(l)
             \/ AggregatePanics(l)
      PROVE  \A m \in Loop : Low(m)'
  <2>1. {"range", "train", "wait"} \subseteq Points \ {"scale", "set"}
    BY DEF Points
  <2> QED
    BY <1>3, <1>4, <1>6, <2>1 DEF Tick, Locked, Skip, Dispatch, TrainReturns, Unlock,
         Predicting, Predicted, PredictFails, AggregatePanics, tickVars
<1>7. ASSUME NEW l \in Loop, NoResults(l) \/ UpToRefuses(l) \/ SetReplica(l) \/ ScaleFails(l)
      PROVE  \A m \in Loop : Low(m)'
  BY <1>5, <1>7 DEF NoResults, UpToRefuses, SetReplica, ScaleFails
<1>8. ASSUME NEW l \in Loop, Aggregate(l) PROVE \A m \in Loop : Low(m)'
  <2>1. PICK order \in SetToSeqs(Weighted(l)) :
          /\ ~SumPanics(MReplicas(l, order))
          /\ want' = [want EXCEPT ![l] =
                        TruncDiv(SelectMax(AddSlice(MReplicas(l, order))), 100)]
    BY <1>8 DEF Aggregate
  <2>2. TruncDiv(SelectMax(AddSlice(MReplicas(l, order))), 100) <= WeightedPeak(l)
    BY <1>0, <2>1, WantCovered DEF LowSide
  <2>3. /\ need' = [need EXCEPT ![l] = WeightedPeak(l)]
        /\ pc' = [pc EXCEPT ![l] = "scale"]
    BY <1>8 DEF Aggregate, GoTo
  <2> QED
    BY <1>0, <1>2, <2>1, <2>2, <2>3
<1>9. ASSUME NEW l \in Loop, UpToDecides(l) PROVE \A m \in Loop : Low(m)'
  <2>1. Capped(want[l]) <= want[l]
    BY <1>0, SchedulerAssumption DEF Capped, Smaller
  <2>2. /\ want' = [want EXCEPT ![l] = Capped(want[l])] /\ need' = need
        /\ pc' = [pc EXCEPT ![l] = "set"] /\ pc[l] = "scale"
    BY <1>9 DEF UpToDecides, GoTo, At
  <2>3. Capped(want[l]) \in Int /\ want[l] \in Int /\ need[l] \in Int /\ want[l] <= need[l]
    BY <1>0, <1>2, <2>2, SchedulerAssumption DEF Capped, Smaller
  <2> QED
    BY <1>0, <1>2, <2>1, <2>2, <2>3
<1>10. ASSUME \/ Reconciling
              \/ \E w \in WithModelKey : IntervalPasses(w)
              \/ \E c \in Configs : StartPass(c)
              \/ \E n \in Counts : OthersScale(n)
              \/ UNCHANGED vars
       PROVE  \A m \in Loop : Low(m)'
  BY <1>4, <1>10 DEF Reconciling, NextHandler, ReconcileMetric, ReconcileModel,
       ReconcilePredictor, IntervalPasses, StartPass, OthersScale, vars, tickVars
<1>11. \A m \in Loop : Low(m)'
  BY <1>6, <1>7, <1>8, <1>9, <1>10 DEF Next, Deciding
<1> QED
  BY <1>1, <1>11 DEF LowSide

(***************************************************************************)
(* With weights of zero and more, of any size, what Aggregate hands to     *)
(* UpTo and what UpTo writes is never above the peak of the weighted sum,  *)
(* for any number of metrics and models and any map iteration order.       *)
(***************************************************************************)
THEOREM NoOverscaling == Spec => []NeverOverscales
<1>1. Init => (WeightsNonNegative => LowSide)
  <2> SUFFICES ASSUME Init, WeightsNonNegative PROVE LowSide
    OBVIOUS
  <2>1. PICK c \in Configs : metricMap = c.metrics
    BY DEF Init
  <2> QED
    BY <2>1 DEF Init, LowSide, NoneNegative, WeightsNonNegative
<1>2. SchedInv /\ (WeightsNonNegative => LowSide) /\ [Next]_vars
        => (WeightsNonNegative => LowSide)'
  BY LowSideStep DEF WeightsNonNegative
<1>3. (WeightsNonNegative => LowSide) => NeverOverscales
  BY DEF LowSide, NeverOverscales
<1> QED
  BY <1>1, <1>2, <1>3, Invariance, PTL DEF Spec

-----------------------------------------------------------------------------
(* The aggregation stays in range *)

\* A vector has one element for each point of the forecast.
LEMMA UnderThresholdLen ==
  ASSUME NEW target \in Int, NEW predict \in Seq(Int)
  PROVE  Len(UnderThreshold(target, predict)) = Len(predict)
<1>1. UnderThreshold(target, predict) \in Seq(Int)
  BY UnderThresholdType
<1>2. DOMAIN UnderThreshold(target, predict) = DOMAIN predict
  BY DEF UnderThreshold, Replicas
<1> QED
  BY <1>1, <1>2

\* The vectors of length n.
Vectors(n) == {v \in Seq(Int) : Len(v) = n}

\* Results whose vectors have the length of the forecasts.
Answers(n) == [key : WithModelKey, votes : Vectors(n)]

\* Vectors of one length go through MaxStrategy, which returns another.
LEMMA SameLengthMerges ==
  ASSUME NEW n \in Nat, NEW pairs \in Seq(Answers(n)), NEW k
  PROVE  /\ ~StrategyPanics(ModelReplicas(pairs, k))
         /\ ModelReplicas(pairs, k) # <<>> => MaxStrategy(ModelReplicas(pairs, k)) \in Vectors(n)
<1>1. \A r \in Answers(n) : r.votes \in Vectors(n)
  BY DEF Answers
<1>2. PICK rs \in Seq(Vectors(n)) : rs = ModelReplicas(pairs, k)
  BY <1>1, ModelReplicasOf
<1>3. \A j \in DOMAIN rs : rs[j] \in Seq(Int) /\ Len(rs[j]) = n /\ 1 \in DOMAIN rs
  BY DEF Vectors
<1>4. ~StrategyPanics(rs)
  <2>1. ASSUME NEW j \in DOMAIN rs PROVE ~(Len(rs[j]) > Len(rs[1]))
    BY <1>3
  <2> QED
    BY <2>1 DEF StrategyPanics
<1>5. ASSUME rs # <<>> PROVE MaxStrategy(rs) \in Vectors(n)
  <2>1. rs \in Seq(Seq(Int)) /\ Len(rs[1]) = n
    BY <1>3, <1>5 DEF Vectors
  <2>2. MaxStrategy(rs) \in [1 .. n -> Int]
    BY <1>5, <2>1, MaxStrategyIsGreatest
  <2> QED
    BY <2>2 DEF Vectors
<1> QED
  BY <1>2, <1>4, <1>5

\* MulSlice keeps the length.
LEMMA MulSliceLen ==
  ASSUME NEW c \in Int, NEW n \in Nat, NEW v \in Vectors(n)
  PROVE  MulSlice(c, v) \in Vectors(n)
<1>1. MulSlice(c, v) \in Seq(Int)
  BY MulSliceType DEF Vectors
<1>2. DOMAIN MulSlice(c, v) = DOMAIN v
  BY DEF MulSlice
<1> QED
  BY <1>1, <1>2 DEF Vectors

\* At least one slice, and no more of them than each has elements.
LEMMA ShortSumsAreInRange ==
  ASSUME NEW n \in Nat, NEW c \in 1 .. n, NEW m \in [1 .. c -> Vectors(n)]
  PROVE  ~SumPanics(m)
<1>1. /\ m \in Seq(Seq(Int)) /\ DOMAIN m = 1 .. c /\ m # <<>>
      /\ \A i \in 1 .. c : Len(m[i]) = n
  BY DEF Vectors
<1>2. ASSUME NEW i \in DOMAIN m PROVE ~(i > Len(m[1]) \/ i > Len(m[i]))
  <2>1. i \in 1 .. c /\ Len(m[1]) = n /\ Len(m[i]) = n
    BY <1>1
  <2> QED
    BY <2>1
<1>3. ~AddSlicePanics(m)
  BY <1>1, <1>2 DEF AddSlicePanics
<1>4. AddSlice(m) \in Seq(Int) /\ Len(AddSlice(m)) = n
  <2>1. AddSlice(m) \in Seq(Int) /\ Len(AddSlice(m)) = Len(m[1])
    BY <1>1, <1>3, AddSliceType
  <2> QED
    BY <1>1, <2>1
<1>5. AddSlice(m) # <<>>
  <2>1. Len(<<>>) = 0 /\ n # 0
    OBVIOUS
  <2> QED
    BY <1>4, <2>1
<1> QED
  BY <1>3, <1>5 DEF SumPanics, SelectMaxPanics

(***************************************************************************)
(* What keeps NeverPanics.  MetricMap has the keys of every config, so     *)
(* what runs and what has answered still has a metric, and the vectors     *)
(* have the length of the forecasts.                                       *)
(***************************************************************************)
ForecastLengths == {Len(f) : f \in UNION {Forecasts[t] : t \in Type}}

InRange ==
  /\ \A k \in Key : metricMap[k] # Absent <=> k \in MetricKeys(goal)
  /\ \A l \in Loop :
       /\ \A p \in running[l] : metricMap[p.key[1]] # Absent
       /\ \A i \in DOMAIN results[l] : /\ metricMap[results[l][i].key[1]] # Absent
                                       /\ Len(results[l][i].votes) \in ForecastLengths
  /\ panicked = Absent

\* With such results no step of a tick indexes out of range.
LEMMA AggregationInRange ==
  ASSUME Aggregable, SchedInv, InRange, NEW l \in Loop, results[l] # <<>>
  PROVE  /\ \A k \in Answered(l) : ~StrategyPanics(ModelReplicas(results[l], k))
         /\ \A order \in SetToSeqs(Weighted(l)) : ~SumPanics(MReplicas(l, order))
<1>0. metricMap \in Metrics /\ goal \in Configs /\ results[l] \in Seq(Result)
  BY TypesSplit DEF SchedInv, SharedOK, LoopsOK
<1>1. 1 \in DOMAIN results[l] /\ \A i \in DOMAIN results[l] : results[l][i] \in Result
  BY <1>0
<1>2. PICK f \in UNION {Forecasts[t] : t \in Type} : Len(results[l][1].votes) = Len(f)
  BY <1>1 DEF InRange, ForecastLengths
<1>3. PICK n \in Nat : n = Len(f)
  <2>1. f \in Seq(Int)
    BY SchedulerAssumption
  <2> QED
    BY <2>1
<1>4. \A x \in ForecastLengths : x = n
  BY <1>2, <1>3 DEF ForecastLengths, Aggregable
<1>5. results[l] \in Seq(Answers(n))
  <2>1. ASSUME NEW i \in DOMAIN results[l] PROVE results[l][i] \in Answers(n)
    <3>1. PICK r \in Result : r = results[l][i]
      BY <1>1
    <3>2. Len(r.votes) = n
      BY <1>4, <3>1 DEF InRange
    <3> QED
      BY <3>1, <3>2 DEF Result, Answers, Vectors
  <2> QED
    BY <1>0, <2>1
<1>6. \A k : ~StrategyPanics(ModelReplicas(results[l], k))
  BY <1>5, SameLengthMerges
<1>7. Weighted(l) # {}
  <2>1. PICK k \in Key : k = results[l][1].key[1]
    BY <1>1 DEF Result, WithModelKey
  <2>2. \A r \in Answers(n) : r.votes \in Vectors(n)
    BY DEF Answers
  <2>3. ModelReplicas(results[l], k) # <<>>
    BY <1>1, <1>5, <2>1, <2>2, ModelReplicasOf
  <2>4. metricMap[k] # Absent
    BY <1>1, <2>1 DEF InRange
  <2> QED
    BY <2>3, <2>4 DEF Weighted, Answered
<1>8. PICK c \in Nat : c = Cardinality(Weighted(l)) /\ c \in 1 .. n
  <2>1. IsFiniteSet(Weighted(l)) /\ Cardinality(Weighted(l)) \in Nat
        /\ Cardinality(Weighted(l)) # 0
    BY <1>0, <1>7, WeightedType, FS_CardinalityType, FS_EmptySet
  <2>2. Weighted(l) \subseteq MetricKeys(goal)
    BY DEF InRange, Weighted, Answered
  <2>3. IsFiniteSet(MetricKeys(goal))
    BY SchedulerAssumption, FS_Subset DEF MetricKeys
  <2>4. Cardinality(Weighted(l)) <= Cardinality(MetricKeys(goal))
        /\ Cardinality(MetricKeys(goal)) \in Nat
    BY <2>2, <2>3, FS_Subset, FS_CardinalityType
  <2>5. Cardinality(MetricKeys(goal)) <= n
    BY <1>0, <1>2, <1>3 DEF Aggregable
  <2> QED
    BY <2>1, <2>4, <2>5
<1>9. ASSUME NEW order \in SetToSeqs(Weighted(l)) PROVE ~SumPanics(MReplicas(l, order))
  <2>1. order \in [1 .. c -> Weighted(l)]
    BY <1>8 DEF SetToSeqs
  <2>2. ASSUME NEW i \in 1 .. c
        PROVE  MulSlice(metricMap[order[i]].weight, MaxStrategy(ModelReplicas(results[l], order[i])))
                 \in Vectors(n)
    <3>1. PICK k \in Weighted(l) : k = order[i]
      BY <2>1
    <3>2. metricMap[k].weight \in Int /\ ModelReplicas(results[l], k) # <<>>
      BY <1>0, WeightedType DEF Weighted, Answered
    <3>3. MaxStrategy(ModelReplicas(results[l], k)) \in Vectors(n)
      BY <1>5, <3>2, SameLengthMerges
    <3> QED
      BY <3>1, <3>2, <3>3, MulSliceLen
  <2>3. MReplicas(l, order) \in [1 .. c -> Vectors(n)]
    BY <2>1, <2>2 DEF MReplicas
  <2> QED
    BY <1>8, <2>3, ShortSumsAreInRange
<1> QED
  BY <1>6, <1>9

LEMMA InRangeStep ==
  ASSUME Aggregable, SchedInv, InRange, [Next]_vars
  PROVE  InRange'
<1>0. /\ metricMap \in Metrics /\ goal \in Configs
      /\ running \in [Loop -> SUBSET Prediction] /\ results \in [Loop -> Seq(Result)]
  BY TypesSplit DEF SchedInv, SharedOK, LoopsOK
<1> DEFINE Present == \A k \in Key : metricMap[k] # Absent <=> k \in MetricKeys(goal)
           Runs(l) == \A p \in running[l] : metricMap[p.key[1]] # Absent
           Answer(l) == \A i \in DOMAIN results[l] :
                          /\ metricMap[results[l][i].key[1]] # Absent
                          /\ Len(results[l][i].votes) \in ForecastLengths
<1>1. Present /\ panicked = Absent /\ \A l \in Loop : Runs(l) /\ Answer(l)
  BY DEF InRange
<1>2. ASSUME UNCHANGED <<metricMap, goal, panicked, running, results>> PROVE InRange'
  BY <1>2 DEF InRange
<1>3. ASSUME NEW l \in Loop,
             UNCHANGED <<metricMap, goal, panicked>>,
             \A m \in Loop \ {l} : running'[m] = running[m] /\ results'[m] = results[m],
             Runs(l)', Answer(l)'
      PROVE  InRange'
  BY <1>1, <1>3 DEF InRange
<1>4. ASSUME NEW l \in Loop, Tick(l) \/ TrainReturns(l) \/ Unlock(l) PROVE InRange'
  BY <1>2, <1>4 DEF Tick, TrainReturns, Unlock, storeVars, passVars, tickVars
<1>5. ASSUME NEW l \in Loop, NEW w \in WithModelKey, Skip(l, w) PROVE InRange'
  BY <1>2, <1>5 DEF Skip, storeVars, passVars
<1>6. ASSUME NEW l \in Loop, NEW w \in WithModelKey, Dispatch(l, w) PROVE InRange'
  <2>1. PICK p : p = [key |-> w, target |-> metricMap[w[1]].target]
    OBVIOUS
  <2>2. /\ running' = [running EXCEPT ![l] = @ \cup {p}] /\ metricMap[w[1]] # Absent
        /\ UNCHANGED <<metricMap, goal, panicked, results>>
    BY <1>6, <2>1 DEF Dispatch, Known, storeVars, passVars
  <2>3. Runs(l)' /\ Answer(l)'
    BY <1>0, <1>1, <2>1, <2>2
  <2> QED
    BY <1>0, <1>3, <2>2, <2>3
<1>7. ASSUME NEW l \in Loop, NEW p \in running[l], NEW f \in Forecasts[p.key[2]],
             Predicted(l, p, f)
      PROVE  InRange'
  <2>1. p \in Prediction /\ p.target \in Int /\ p.key[2] \in Type /\ f \in Seq(Int)
    BY <1>0, <1>7, SchedulerAssumption DEF Prediction, Predicted, WithModelKey
  <2>2. PICK r : r = [key |-> p.key, votes |-> UnderThreshold(p.target, f)]
    OBVIOUS
  <2>3. r \in Result
    BY <2>1, <2>2, UnderThresholdType DEF Result, Prediction
  <2>4. Len(r.votes) \in ForecastLengths
    BY <2>1, <2>2, UnderThresholdLen DEF ForecastLengths
  <2>5. /\ running' = [running EXCEPT ![l] = @ \ {p}]
        /\ results' = [results EXCEPT ![l] = Append(@, r)]
        /\ UNCHANGED <<metricMap, goal, panicked>>
    BY <1>7, <2>2 DEF Predicted, storeVars, passVars
  <2>6. metricMap[r.key[1]] # Absent
    BY <1>1, <2>2
  <2>7. PICK s \in Seq(Result) : s = results[l] /\ results'[l] = Append(s, r)
    BY <1>0, <2>5
  <2>8. \A i \in DOMAIN Append(s, r) : Append(s, r)[i] = r \/ (i \in DOMAIN s /\ Append(s, r)[i] = s[i])
    BY <2>3, <2>7
  <2>9. Answer(l)'
    BY <1>1, <2>4, <2>5, <2>6, <2>7, <2>8
  <2>10. Runs(l)'
    BY <1>0, <1>1, <2>5
  <2> QED
    BY <1>0, <1>3, <2>5, <2>9, <2>10
<1>8. ASSUME NEW l \in Loop, NEW p \in running[l], PredictFails(l, p) PROVE InRange'
  <2>1. /\ running' = [running EXCEPT ![l] = @ \ {p}]
        /\ UNCHANGED <<metricMap, goal, panicked, results>>
    BY <1>8 DEF PredictFails, storeVars, passVars
  <2>2. Runs(l)' /\ Answer(l)'
    BY <1>0, <1>1, <2>1
  <2> QED
    BY <1>0, <1>3, <2>1, <2>2
<1>9. ASSUME NEW l \in Loop, NoResults(l) \/ UpToRefuses(l) \/ SetReplica(l) \/ ScaleFails(l)
      PROVE  InRange'
  <2>1. /\ results' = [results EXCEPT ![l] = <<>>]
        /\ UNCHANGED <<metricMap, goal, panicked, running>>
    BY <1>9 DEF NoResults, UpToRefuses, SetReplica, ScaleFails, EndTick, storeVars, passVars
  <2>2. Runs(l)' /\ Answer(l)'
    BY <1>0, <1>1, <2>1
  <2> QED
    BY <1>0, <1>3, <2>1, <2>2
<1>10. ASSUME NEW l \in Loop, Aggregate(l) \/ UpToDecides(l) PROVE InRange'
  BY <1>2, <1>10 DEF Aggregate, UpToDecides, storeVars, passVars
<1>11. ASSUME NEW l \in Loop, AggregatePanics(l) PROVE FALSE
  BY <1>11, AggregationInRange DEF AggregatePanics
<1>12. ASSUME NEW c \in Configs, StartPass(c) PROVE InRange'
  <2>1. goal' = c /\ UNCHANGED <<metricMap, panicked, running, results>>
    BY <1>12 DEF StartPass, storeVars, tickVars
  <2>2. MetricKeys(c) = MetricKeys(goal)
    BY <1>0 DEF Aggregable
  <2> QED
    BY <2>1, <2>2 DEF InRange
<1>13. ASSUME NEW k \in Key, ReconcileMetric(k) PROVE InRange'
  <2>1. /\ metricMap' = [metricMap EXCEPT ![k] = goal.metrics[k]]
        /\ UNCHANGED <<goal, panicked, running, results>>
    BY <1>13 DEF ReconcileMetric, passVars, tickVars
  <2>2. goal.metrics[k] # Absent <=> metricMap[k] # Absent
    BY <1>1 DEF MetricKeys
  <2>3. \A j \in Key : metricMap'[j] # Absent <=> metricMap[j] # Absent
    BY <1>0, <2>1, <2>2 DEF Metrics
  <2>4. \A w \in WithModelKey : metricMap'[w[1]] # Absent <=> metricMap[w[1]] # Absent
    BY <2>3 DEF WithModelKey
  <2>5. \A l \in Loop : /\ \A p \in running[l] : p.key \in WithModelKey
                        /\ \A i \in DOMAIN results[l] : results[l][i].key \in WithModelKey
    <3>1. (\A p \in Prediction : p.key \in WithModelKey) /\ \A r \in Result : r.key \in WithModelKey
      BY DEF Prediction, Result
    <3>2. ASSUME NEW l \in Loop, NEW p \in running[l] PROVE p \in Prediction
      BY <1>0
    <3>3. ASSUME NEW l \in Loop, NEW i \in DOMAIN results[l] PROVE results[l][i] \in Result
      <4>1. results[l] \in Seq(Result)
        BY <1>0
      <4> QED
        BY <4>1
    <3> QED
      BY <3>1, <3>2, <3>3
  <2>6. Present'
    BY <1>1, <2>1, <2>3
  <2>7. ASSUME NEW l \in Loop PROVE Runs(l)' /\ Answer(l)'
    BY <1>1, <2>1, <2>4, <2>5
  <2> QED
    BY <1>1, <2>1, <2>6, <2>7 DEF InRange
<1>14. ASSUME \/ NextHandler
              \/ \E w \in WithModelKey : ReconcileModel(w) \/ ReconcilePredictor(w)
              \/ \E n \in Counts : OthersScale(n)
              \/ \E w \in WithModelKey : IntervalPasses(w)
              \/ UNCHANGED vars
       PROVE  InRange'
  BY <1>2, <1>14 DEF NextHandler, ReconcileModel, ReconcilePredictor, OthersScale,
       IntervalPasses, vars, storeVars, passVars, tickVars
<1> QED
  BY <1>4, <1>5, <1>6, <1>7, <1>8, <1>9, <1>10, <1>11, <1>12, <1>13, <1>14
     DEF Next, Locked, Predicting, Deciding, Reconciling

(***************************************************************************)
(* Forecasts of one length, no more metrics than forecast points and no    *)
(* metric added or removed: then no index of MaxStrategy, AddSlice or      *)
(* utils.Max is out of range, for any number of loops, metrics and models  *)
(* and any interleaving with edits of targets, weights and models.         *)
(***************************************************************************)
THEOREM NoPanics == Spec => []NeverPanics
<1>1. Init => (Aggregable => InRange)
  <2> SUFFICES ASSUME Init PROVE InRange
    OBVIOUS
  <2>1. PICK c \in Configs : metricMap = c.metrics /\ goal = c
    BY DEF Init
  <2> QED
    BY <2>1 DEF Init, InRange, MetricKeys
<1>2. SchedInv /\ (Aggregable => InRange) /\ [Next]_vars => (Aggregable => InRange)'
  BY InRangeStep DEF Aggregable, MetricKeys
<1>3. (Aggregable => InRange) => NeverPanics
  BY DEF InRange, NeverPanics
<1> QED
  BY <1>1, <1>2, <1>3, Invariance, PTL DEF Spec

=============================================================================
