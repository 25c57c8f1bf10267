------------------------ MODULE ScalerStrategyProofs ------------------------
(***************************************************************************)
(* Lemmas about ScalerStrategy for slices of any length and values of any  *)
(* size.  The loops of scaler/strategy.go and utils/common.go are folds;   *)
(* a fold is a recursive function over the sets of indices, so the lemmas  *)
(* start with induction (every non-empty set of numbers has a least        *)
(* element) and with the states that a fold passes through.                *)
(***************************************************************************)
EXTENDS ScalerStrategy, FiniteSetTheorems, TLAPS

-----------------------------------------------------------------------------
(* Induction *)

\* Every non-empty set of numbers has a least element: 0 .. n shrinks with n.
LEMMA LeastNumber ==
  ASSUME NEW S \in SUBSET Nat, S # {}
  PROVE  \E n \in S : \A m \in S : n <= m
<1> DEFINE T == {0 .. n : n \in S}
<1>1. T \subseteq FiniteSubsetsOf(Nat)
  <2> SUFFICES ASSUME NEW n \in S PROVE IsFiniteSet(0 .. n)
    BY DEF FiniteSubsetsOf
  <2> QED
    BY FS_Interval
<1>2. T # {}
  OBVIOUS
<1>3. \E x \in T : \A y \in T : ~(<<y, x>> \in StrictSubsetOrdering(Nat))
  <2> HIDE DEF T
  <2> QED
    BY <1>1, <1>2, FS_StrictSubsetOrderingWellFounded, WFMin
<1>4. PICK n \in S : \A y \in T : ~(<<y, 0 .. n>> \in StrictSubsetOrdering(Nat))
  BY <1>3
<1>5. ASSUME NEW m \in S, m < n PROVE FALSE
  <2>1. ~(<<0 .. m, 0 .. n>> \in StrictSubsetOrdering(Nat))
    BY <1>4
  <2>2. /\ 0 .. m \subseteq 0 .. n /\ 0 .. n \subseteq Nat
        /\ n \in 0 .. n /\ n \notin 0 .. m
    BY <1>5
  <2> QED
    BY <2>1, <2>2 DEF StrictSubsetOrdering
<1> QED
  BY <1>5

\* A set of good numbers: 0 is good, and so is the number after a good one.
Inductive(n, Good) ==
  0 \in Good /\ \A k \in 0 .. n - 1 : k \in Good => k + 1 \in Good

\* Induction up to n.
LEMMA Induction ==
  ASSUME NEW n \in Nat, NEW Good, Inductive(n, Good)
  PROVE  0 .. n \subseteq Good
<1> DEFINE Bad == {k \in 0 .. n : k \notin Good}
<1> SUFFICES ASSUME Bad # {} PROVE FALSE
  OBVIOUS
<1>1. Bad \in SUBSET Nat
  OBVIOUS
<1>2. PICK k \in Bad : \A m \in Bad : k <= m
  <2> HIDE DEF Bad
  <2> QED
    BY <1>1, LeastNumber
<1>3. k # 0 /\ k \in 0 .. n
  BY <1>2 DEF Inductive
<1>4. k - 1 \in 0 .. n - 1 /\ (k - 1) + 1 = k
  BY <1>3
<1>5. k - 1 \in Good
  BY <1>2, <1>4
<1> QED
  BY <1>2, <1>4, <1>5 DEF Inductive

-----------------------------------------------------------------------------
(* Greatest elements *)

\* Max is what its name says where there is a greatest element.
LEMMA MaxIs ==
  ASSUME NEW S \in SUBSET Int, NEW m \in S, \A x \in S : x <= m
  PROVE  Max(S) = m
<1>1. ASSUME NEW x \in S, \A y \in S : x >= y PROVE x = m
  BY <1>1
<1> QED
  BY <1>1 DEF Max

\* A set of indices has a greatest element.
LEMMA MaxMember ==
  ASSUME NEW n \in Nat, NEW S \in SUBSET (1 .. n), S # {}
  PROVE  Max(S) \in S
<1> DEFINE T == {n - x : x \in S}
<1>0. \A x \in S : x \in 1 .. n /\ n - x \in Nat
  OBVIOUS
<1>1. T \in SUBSET Nat /\ T # {}
  BY <1>0
<1>2. PICK t \in T : \A u \in T : t <= u
  <2> HIDE DEF T
  <2> QED
    BY <1>1, LeastNumber
<1>3. PICK m \in S : t = n - m
  BY <1>2
<1>4. ASSUME NEW x \in S PROVE x <= m
  <2>1. n - m <= n - x
    BY <1>2, <1>3
  <2> QED
    BY <1>0, <2>1
<1> QED
  BY <1>0, <1>4, MaxIs

-----------------------------------------------------------------------------
(* Folds *)

(***************************************************************************)
(* A fold over the finite set S with values in V: choice says which        *)
(* element of a set is taken first, step what is done with it.             *)
(***************************************************************************)
Folder(S, V, base, choice, step) ==
  /\ IsFiniteSet(S) /\ base \in V
  /\ choice \in [(SUBSET S) \ {{}} -> S] /\ \A s \in (SUBSET S) \ {{}} : choice[s] \in s
  /\ step \in [S \X V -> V]

\* The recursion that MapThenFoldSet writes down.
Folds(g, S, base, choice, step) ==
  \A s \in SUBSET S :
    g[s] = IF s = {} THEN base ELSE step[<<choice[s], g[s \ {choice[s]}]>>]

\* Such a function exists: it is extended from the sets of n elements to n + 1.
LEMMA FoldExists ==
  ASSUME NEW S, NEW V, NEW base, NEW choice, NEW step, Folder(S, V, base, choice, step)
  PROVE  \E g \in [SUBSET S -> V] : Folds(g, S, base, choice, step)
<1> DEFINE Small(n) == {s \in SUBSET S : Cardinality(s) <= n}
    FoldsUpTo(n, g) ==
      \A s \in Small(n) :
        g[s] = IF s = {} THEN base ELSE step[<<choice[s], g[s \ {choice[s]}]>>]
    Good == {n \in Nat : \E g \in [Small(n) -> V] : FoldsUpTo(n, g)}
<1>1. /\ IsFiniteSet(S) /\ base \in V /\ step \in [S \X V -> V]
      /\ \A s \in SUBSET S : s # {} => choice[s] \in s
  BY DEF Folder
<1>2. \A s \in SUBSET S : IsFiniteSet(s) /\ Cardinality(s) \in Nat
  BY <1>1, FS_Subset, FS_CardinalityType
<1>3. ASSUME NEW s \in SUBSET S, s # {}
      PROVE  /\ s \ {choice[s]} \in SUBSET S
             /\ Cardinality(s \ {choice[s]}) = Cardinality(s) - 1
  BY <1>1, <1>2, <1>3, FS_RemoveElement
<1>4. 0 \in Good
  <2> DEFINE g == [s \in Small(0) |-> base]
  <2>1. \A s \in Small(0) : s = {}
    <3> TAKE s \in Small(0)
    <3>1. Cardinality(s) = 0 /\ IsFiniteSet(s)
      BY <1>2
    <3> QED
      BY <3>1, FS_EmptySet
  <2>2. g \in [Small(0) -> V] /\ FoldsUpTo(0, g)
    BY <1>1, <2>1
  <2> HIDE DEF g, FoldsUpTo, Small
  <2> QED
    BY <2>2
<1>5. ASSUME NEW n \in Nat, n \in Good PROVE n + 1 \in Good
  <2>1. PICK f \in [Small(n) -> V] : FoldsUpTo(n, f)
    BY <1>5
  <2> DEFINE g == [s \in Small(n + 1) |->
                     IF s \in Small(n) THEN f[s]
                     ELSE step[<<choice[s], f[s \ {choice[s]}]>>]]
  <2>2. ASSUME NEW s \in Small(n + 1)
        PROVE  /\ s \in SUBSET S /\ Cardinality(s) \in Nat
               /\ s # {} => s \ {choice[s]} \in Small(n)
               /\ s = {} => s \in Small(n)
    <3>1. s \in SUBSET S /\ Cardinality(s) \in Nat /\ Cardinality(s) <= n + 1
      BY <1>2
    <3>2. s # {} => s \ {choice[s]} \in Small(n)
      BY <1>3, <3>1
    <3>3. s = {} => s \in Small(n)
      BY <3>1, FS_EmptySet
    <3> QED
      BY <3>1, <3>2, <3>3
  <2>3. \A s \in Small(n) : s \in Small(n + 1)
    BY <1>2
  <2>4. g \in [Small(n + 1) -> V]
    <3> SUFFICES ASSUME NEW s \in Small(n + 1), s \notin Small(n)
                 PROVE  step[<<choice[s], f[s \ {choice[s]}]>>] \in V
      BY <2>1
    <3>1. s # {} /\ choice[s] \in S /\ f[s \ {choice[s]}] \in V
      BY <1>1, <2>1, <2>2
    <3> QED
      BY <1>1, <3>1
  <2>5. ASSUME NEW s \in Small(n + 1)
        PROVE  g[s] = IF s = {} THEN base ELSE step[<<choice[s], g[s \ {choice[s]}]>>]
    <3>1. s # {} => g[s \ {choice[s]}] = f[s \ {choice[s]}]
      BY <2>2, <2>3
    <3>2. CASE s \in Small(n)
      <4>1. g[s] = f[s]
        BY <3>2
      <4> QED
        BY <2>1, <3>1, <3>2, <4>1
    <3>3. CASE s \notin Small(n)
      <4>1. s # {} /\ g[s] = step[<<choice[s], f[s \ {choice[s]}]>>]
        BY <2>2, <3>3
      <4> QED
        BY <3>1, <4>1
    <3> QED
      BY <3>2, <3>3
  <2>6. FoldsUpTo(n + 1, g)
    BY <2>5
  <2> HIDE DEF g, FoldsUpTo, Small
  <2> QED
    BY <2>4, <2>6
<1>6. PICK n \in Nat : n = Cardinality(S)
  BY <1>1, FS_CardinalityType
<1>7. n \in Good
  <2> HIDE DEF Good
  <2>1. Inductive(n, Good)
    BY <1>4, <1>5 DEF Inductive
  <2> QED
    BY <2>1, Induction
<1>8. \A s \in SUBSET S : s \in Small(n)
  BY <1>1, <1>6, FS_Subset
<1>9. Small(n) = SUBSET S
  BY <1>8
<1> HIDE DEF Small
<1> QED
  BY <1>7, <1>9 DEF Folds

\* The same of a function of which it is not known that its values are in V.
Iterates(g, S, V, base, choice, step) ==
  \A s \in SUBSET S :
    /\ s = {} => g[s] = base
    /\ s # {} /\ g[s \ {choice[s]}] \in V =>
         g[s] = step[<<choice[s], g[s \ {choice[s]}]>>]

\* They are: by induction on the number of elements.
LEMMA FoldStays ==
  ASSUME NEW S, NEW V, NEW base, NEW choice, NEW step, NEW g,
         Folder(S, V, base, choice, step), Iterates(g, S, V, base, choice, step)
  PROVE  \A s \in SUBSET S :
           /\ g[s] \in V
           /\ g[s] = IF s = {} THEN base ELSE step[<<choice[s], g[s \ {choice[s]}]>>]
<1> DEFINE Good == {n \in Nat : \A s \in SUBSET S : Cardinality(s) = n => g[s] \in V}
<1>1. /\ IsFiniteSet(S) /\ base \in V /\ step \in [S \X V -> V]
      /\ \A s \in SUBSET S : s # {} => choice[s] \in s
  BY DEF Folder
<1>2. \A s \in SUBSET S : IsFiniteSet(s) /\ Cardinality(s) \in Nat
                           /\ Cardinality(s) <= Cardinality(S)
  BY <1>1, FS_Subset, FS_CardinalityType
<1>3. ASSUME NEW s \in SUBSET S, s # {}
      PROVE  /\ s \ {choice[s]} \in SUBSET S
             /\ Cardinality(s \ {choice[s]}) = Cardinality(s) - 1
  BY <1>1, <1>2, <1>3, FS_RemoveElement
<1>4. 0 \in Good
  <2> SUFFICES ASSUME NEW s \in SUBSET S, Cardinality(s) = 0 PROVE g[s] \in V
    OBVIOUS
  <2>1. s = {}
    BY <1>2, FS_EmptySet
  <2> QED
    BY <1>1, <2>1 DEF Iterates
<1>5. ASSUME NEW n \in Nat, n \in Good PROVE n + 1 \in Good
  <2> SUFFICES ASSUME NEW s \in SUBSET S, Cardinality(s) = n + 1 PROVE g[s] \in V
    OBVIOUS
  <2>1. s # {}
    BY FS_EmptySet
  <2>2. g[s \ {choice[s]}] \in V
    BY <1>3, <1>5, <2>1
  <2> QED
    BY <1>1, <2>1, <2>2 DEF Iterates
<1>6. PICK n \in Nat : n = Cardinality(S)
  BY <1>1, FS_CardinalityType
<1>7. 0 .. n \subseteq Good
  <2> HIDE DEF Good
  <2>1. Inductive(n, Good)
    BY <1>4, <1>5 DEF Inductive
  <2> QED
    BY <2>1, Induction
<1>8. \A s \in SUBSET S : g[s] \in V
  <2> TAKE s \in SUBSET S
  <2>1. Cardinality(s) \in Good
    BY <1>2, <1>6, <1>7
  <2> QED
    BY <2>1
<1> QED
  BY <1>1, <1>3, <1>8 DEF Iterates

-----------------------------------------------------------------------------
(* Folds over slices *)

\* A fold over 1 .. N takes the greatest index first, so it applies it last.
Greatest(N) == [s \in (SUBSET (1 .. N)) \ {{}} |-> Max(s)]

\* acc[k] is what the loop has computed after k iterations.
Accumulates(acc, N, V, base, step) ==
  /\ acc \in [0 .. N -> V] /\ acc[0] = base
  /\ \A k \in 1 .. N : acc[k] = step[<<k, acc[k - 1]>>]

Slice(N, V, base, step) ==
  N \in Nat /\ base \in V /\ step \in [(1 .. N) \X V -> V]

LEMMA SliceFolder ==
  ASSUME NEW N, NEW V, NEW base, NEW step, Slice(N, V, base, step)
  PROVE  \E S, choice : /\ S = 1 .. N /\ Folder(S, V, base, choice, step)
                        /\ \A s \in SUBSET S : s # {} => choice[s] = Max(s)
<1>1. N \in Nat /\ base \in V /\ step \in [(1 .. N) \X V -> V]
  BY DEF Slice
<1>2. \A s \in (SUBSET (1 .. N)) \ {{}} : Max(s) \in s
  BY <1>1, MaxMember
<1>3. IsFiniteSet(1 .. N)
  BY <1>1, FS_Interval
<1>4. PICK S, choice : S = 1 .. N /\ choice = Greatest(N)
  OBVIOUS
<1>5. choice \in [(SUBSET S) \ {{}} -> S]
      /\ \A s \in (SUBSET S) \ {{}} : choice[s] = Max(s) /\ choice[s] \in s
  BY <1>2, <1>4 DEF Greatest
<1>6. Folder(S, V, base, choice, step)
  BY <1>1, <1>3, <1>4, <1>5 DEF Folder
<1>7. S = 1 .. N /\ \A s \in SUBSET S : s # {} => choice[s] = Max(s)
  BY <1>4, <1>5
<1> QED
  BY <1>6, <1>7, Zenon

\* The recursion of FoldLeft has a solution ...
SliceFolds(g, N, V, base, step) ==
  /\ g \in [SUBSET (1 .. N) -> V]
  /\ \A s \in SUBSET (1 .. N) :
       g[s] = IF s = {} THEN base ELSE step[<<Max(s), g[s \ {Max(s)}]>>]

LEMMA SliceExists ==
  ASSUME NEW N, NEW V, NEW base, NEW step, Slice(N, V, base, step)
  PROVE  \E g : SliceFolds(g, N, V, base, step)
<1>1. PICK S, choice : /\ S = 1 .. N /\ Folder(S, V, base, choice, step)
                       /\ \A s \in SUBSET S : s # {} => choice[s] = Max(s)
  BY SliceFolder
<1>2. PICK g \in [SUBSET S -> V] : Folds(g, S, base, choice, step)
  BY <1>1, FoldExists
<1>3. SliceFolds(g, N, V, base, step)
  BY <1>1, <1>2 DEF Folds, SliceFolds
<1> QED
  BY <1>3

\* A solution of the recursion, as long as its values are in V.
SliceIterates(g, N, V, base, step) ==
  \A s \in SUBSET (1 .. N) :
    /\ s = {} => g[s] = base
    /\ s # {} /\ g[s \ {Max(s)}] \in V => g[s] = step[<<Max(s), g[s \ {Max(s)}]>>]

\* ... and every solution runs through the iterations of the loop.
LEMMA SliceRuns ==
  ASSUME NEW N, NEW V, NEW base, NEW step, NEW g, Slice(N, V, base, step),
         SliceIterates(g, N, V, base, step)
  PROVE  \E acc : Accumulates(acc, N, V, base, step) /\ acc[N] = g[1 .. N]
<1> DEFINE acc == [k \in 0 .. N |-> g[1 .. k]]
<1>0. N \in Nat
  BY DEF Slice
<1>1. \A s \in SUBSET (1 .. N) :
        /\ g[s] \in V
        /\ g[s] = IF s = {} THEN base ELSE step[<<Max(s), g[s \ {Max(s)}]>>]
  <2>1. PICK S, choice : /\ S = 1 .. N /\ Folder(S, V, base, choice, step)
                         /\ \A s \in SUBSET S : s # {} => choice[s] = Max(s)
    BY SliceFolder
  <2>2. Folder(S, V, base, choice, step) /\ Iterates(g, S, V, base, choice, step)
    BY <2>1 DEF SliceIterates, Iterates
  <2>3. \A s \in SUBSET S :
          /\ g[s] \in V
          /\ g[s] = IF s = {} THEN base ELSE step[<<choice[s], g[s \ {choice[s]}]>>]
    BY <2>2, FoldStays
  <2> QED
    BY <2>1, <2>3
<1>2. \A k \in 0 .. N : 1 .. k \in SUBSET (1 .. N)
  BY <1>0
<1>3. acc \in [0 .. N -> V]
  BY <1>1, <1>2
<1>4. acc[0] = base
  <2>1. 1 .. 0 = {} /\ 0 \in 0 .. N
    BY <1>0
  <2> QED
    BY <1>1, <1>2, <2>1
<1>5. ASSUME NEW k \in 1 .. N PROVE acc[k] = step[<<k, acc[k - 1]>>]
  <2>1. 1 .. k \in SUBSET Int /\ k \in 1 .. k /\ \A x \in 1 .. k : x <= k
    BY <1>0
  <2>2. Max(1 .. k) = k
    BY <2>1, MaxIs
  <2>3. 1 .. k \in SUBSET (1 .. N) /\ 1 .. k # {} /\ (1 .. k) \ {k} = 1 .. k - 1
        /\ k \in 0 .. N /\ k - 1 \in 0 .. N
    BY <1>0
  <2>4. g[1 .. k] = step[<<k, g[(1 .. k) \ {k}]>>]
    BY <1>1, <2>2, <2>3
  <2> QED
    BY <2>3, <2>4
<1>6. acc[N] = g[1 .. N]
  BY <1>0
<1> HIDE DEF acc
<1>7. Accumulates(acc, N, V, base, step)
  BY <1>3, <1>4, <1>5 DEF Accumulates
<1> QED
  BY <1>6, <1>7

-----------------------------------------------------------------------------
(* utils.Max *)

\* The loop of utils.Max: acc[k] is maxVal after k iterations.
LEMMA SelectMaxRuns ==
  ASSUME NEW s \in Seq(Int), s # <<>>
  PROVE  \E acc \in [0 .. Len(s) - 1 -> Int] :
           /\ acc[0] = s[1] /\ acc[Len(s) - 1] = SelectMax(s)
           /\ \A k \in 1 .. Len(s) - 1 : acc[k] = Larger(acc[k - 1], s[k + 1])
<1> DEFINE t == Tail(s)
           Body(g, S) == IF S = {} THEN s[1] ELSE Larger(g[S \ {Max(S)}], t[Max(S)])
           iter == CHOOSE g : g = [S \in SUBSET DOMAIN t |-> Body(g, S)]
           N == Len(s) - 1
           base == s[1]
           step == [p \in (1 .. N) \X Int |-> Larger(p[2], t[p[1]])]
<1>1. SelectMax(s) = iter[DOMAIN t]
  BY DEF SelectMax, FoldLeft, MapThenFoldSet
<1>2. /\ N \in Nat /\ DOMAIN t = 1 .. N /\ base \in Int
      /\ \A k \in 1 .. N : t[k] = s[k + 1] /\ t[k] \in Int
  OBVIOUS
<1> HIDE DEF t, N
<1>3. step \in [(1 .. N) \X Int -> Int]
  BY <1>2 DEF Larger
<1>4. \A k \in 1 .. N, v \in Int : step[<<k, v>>] = Larger(v, t[k])
  OBVIOUS
<1>5. \A S \in SUBSET (1 .. N) : S # {} => Max(S) \in 1 .. N
  BY <1>2, MaxMember
<1> HIDE DEF step, base
<1>6. Slice(N, Int, base, step)
  BY <1>2, <1>3 DEF Slice
<1>7. PICK g : SliceFolds(g, N, Int, base, step)
  BY <1>6, SliceExists
<1>8. g = [S \in SUBSET DOMAIN t |-> Body(g, S)]
  <2>1. ASSUME NEW S \in SUBSET (1 .. N), S # {} PROVE g[S \ {Max(S)}] \in Int
    BY <1>7 DEF SliceFolds
  <2> QED
    BY <1>2, <1>4, <1>5, <1>7, <2>1 DEF base, SliceFolds
<1>9. iter = [S \in SUBSET DOMAIN t |-> Body(iter, S)]
  <2> HIDE DEF Body
  <2> QED
    BY <1>8, Zenon
<1> HIDE DEF iter
<1>10. SliceIterates(iter, N, Int, base, step)
  BY <1>2, <1>4, <1>5, <1>9 DEF SliceIterates, base
<1>11. PICK acc : Accumulates(acc, N, Int, base, step) /\ acc[N] = iter[1 .. N]
  <2> HIDE DEF Body
  <2> QED
    BY <1>6, <1>10, SliceRuns
<1>12. \A k \in 1 .. N : acc[k] = Larger(acc[k - 1], s[k + 1])
  <2> TAKE k \in 1 .. N
  <2>1. k - 1 \in 0 .. N
    BY <1>2
  <2>2. acc[k - 1] \in Int /\ acc[k] = step[<<k, acc[k - 1]>>]
    BY <1>11, <2>1 DEF Accumulates
  <2> QED
    BY <1>2, <1>4, <2>2
<1>13. acc \in [0 .. N -> Int] /\ acc[0] = s[1] /\ acc[N] = SelectMax(s)
  BY <1>1, <1>2, <1>11 DEF Accumulates, base
<1> QED
  BY <1>12, <1>13 DEF N

\* utils.Max returns the greatest element of the slice.
LEMMA SelectMaxIsGreatest ==
  ASSUME NEW s \in Seq(Int), s # <<>>
  PROVE  /\ SelectMax(s) \in Int
         /\ \E i \in DOMAIN s : SelectMax(s) = s[i]
         /\ \A i \in DOMAIN s : s[i] <= SelectMax(s)
<1>0. PICK N \in Nat : N = Len(s) - 1
  OBVIOUS
<1>1. PICK acc \in [0 .. N -> Int] :
        /\ acc[0] = s[1] /\ acc[N] = SelectMax(s)
        /\ \A k \in 1 .. N : acc[k] = Larger(acc[k - 1], s[k + 1])
  BY <1>0, SelectMaxRuns
<1>2. DOMAIN s = 1 .. N + 1 /\ \A i \in 1 .. N + 1 : s[i] \in Int
  BY <1>0
<1> DEFINE Best(k) == /\ \E i \in 1 .. k + 1 : acc[k] = s[i]
                      /\ \A i \in 1 .. k + 1 : s[i] <= acc[k]
           Good == {k \in 0 .. N : Best(k)}
<1>3. 0 \in Good
  <2>1. 1 .. 0 + 1 = {1} /\ s[1] \in Int /\ 0 \in 0 .. N
    BY <1>2
  <2> QED
    BY <1>1, <2>1
<1>4. ASSUME NEW k \in 0 .. N - 1, k \in Good PROVE k + 1 \in Good
  <2>1. /\ k + 1 \in 1 .. N /\ k + 1 \in 0 .. N /\ k \in 0 .. N
        /\ (k + 1) - 1 = k /\ (k + 1) + 1 = k + 2 /\ k + 2 \in 1 .. N + 1
    OBVIOUS
  <2>2. acc[k + 1] = Larger(acc[k], s[k + 2]) /\ acc[k] \in Int /\ s[k + 2] \in Int
    BY <1>1, <1>2, <2>1
  <2>3. \A i \in 1 .. (k + 1) + 1 : (i \in 1 .. k + 1 \/ i = k + 2) /\ s[i] \in Int
    <3> TAKE i \in 1 .. (k + 1) + 1
    <3>1. i \in 1 .. N + 1 /\ (i \in 1 .. k + 1 \/ i = k + 2)
      OBVIOUS
    <3> QED
      BY <1>2, <3>1
  <2>4. Best(k)
    BY <1>4
  <2>5. \E i \in 1 .. (k + 1) + 1 : acc[k + 1] = s[i]
    <3>1. PICK i \in 1 .. k + 1 : acc[k] = s[i]
      BY <2>4
    <3>2. i \in 1 .. (k + 1) + 1 /\ k + 2 \in 1 .. (k + 1) + 1
      OBVIOUS
    <3>3. acc[k + 1] = s[i] \/ acc[k + 1] = s[k + 2]
      BY <2>2, <3>1 DEF Larger
    <3> QED
      BY <3>2, <3>3
  <2>6. \A i \in 1 .. (k + 1) + 1 : s[i] <= acc[k + 1]
    <3>1. \A i \in 1 .. k + 1 : s[i] <= acc[k]
      BY <2>4
    <3> HIDE DEF Best, Good
    <3> TAKE i \in 1 .. (k + 1) + 1
    <3>2. s[i] \in Int /\ (i \in 1 .. k + 1 \/ i = k + 2)
      BY <2>3
    <3>3. acc[k + 1] \in Int /\ acc[k] <= acc[k + 1] /\ s[k + 2] <= acc[k + 1]
      BY <2>2 DEF Larger
    <3>4. CASE i \in 1 .. k + 1
      <4>1. s[i] <= acc[k]
        BY <3>1, <3>4
      <4> QED
        BY <2>2, <3>2, <3>3, <4>1
    <3> QED
      BY <3>2, <3>3, <3>4
  <2> QED
    BY <2>1, <2>5, <2>6
<1>5. N \in Good
  <2> HIDE DEF Good
  <2>1. Inductive(N, Good)
    BY <1>3, <1>4 DEF Inductive
  <2> QED
    BY <2>1, Induction
<1> QED
  BY <1>1, <1>2, <1>5

-----------------------------------------------------------------------------
(* ModelStrategy *)

\* The loop of MaxStrategy: acc[k] is res after the vectors of k models.
LEMMA MaxStrategyRuns ==
  ASSUME NEW rs \in Seq(Seq(Int)), rs # <<>>
  PROVE  \E acc \in [0 .. Len(rs) -> [1 .. Len(rs[1]) -> Int]] :
           /\ acc[0] = Zeros(Len(rs[1])) /\ acc[Len(rs)] = MaxStrategy(rs)
           /\ \A k \in 1 .. Len(rs) : acc[k] = Merge(Larger, acc[k - 1], rs[k])
<1> DEFINE zeros == Zeros(Len(rs[1]))
           Body(g, S) == IF S = {} THEN zeros
                         ELSE Merge(Larger, g[S \ {Max(S)}], rs[Max(S)])
           iter == CHOOSE g : g = [S \in SUBSET DOMAIN rs |-> Body(g, S)]
           N == Len(rs)
           V == [1 .. Len(rs[1]) -> Int]
           step == [p \in (1 .. N) \X V |-> Merge(Larger, p[2], rs[p[1]])]
<1>1. MaxStrategy(rs) = iter[DOMAIN rs]
  BY DEF MaxStrategy, FoldLeft, MapThenFoldSet
<1>2. /\ N \in Nat /\ DOMAIN rs = 1 .. N /\ Len(rs[1]) \in Nat
      /\ \A k \in 1 .. N : rs[k] \in Seq(Int)
  OBVIOUS
<1>3. zeros \in V
  BY <1>2 DEF Zeros
<1>4. ASSUME NEW r \in V, NEW v \in Seq(Int) PROVE Merge(Larger, r, v) \in V
  <2>1. \A i \in DOMAIN v : v[i] \in Int
    OBVIOUS
  <2> QED
    BY <2>1 DEF Merge, Larger
<1> HIDE DEF N, zeros, V
<1>5. step \in [(1 .. N) \X V -> V]
  BY <1>2, <1>4
<1>6. \A k \in 1 .. N, v \in V : step[<<k, v>>] = Merge(Larger, v, rs[k])
  OBVIOUS
<1>7. \A S \in SUBSET (1 .. N) : S # {} => Max(S) \in 1 .. N
  BY <1>2, MaxMember
<1> HIDE DEF step
<1>8. Slice(N, V, zeros, step)
  BY <1>2, <1>3, <1>5 DEF Slice
<1>9. PICK g : SliceFolds(g, N, V, zeros, step)
  BY <1>8, SliceExists
<1>10. g = [S \in SUBSET DOMAIN rs |-> Body(g, S)]
  <2>1. ASSUME NEW S \in SUBSET (1 .. N), S # {} PROVE g[S \ {Max(S)}] \in V
    BY <1>9 DEF SliceFolds
  <2>2. \A S \in SUBSET (1 .. N) : g[S] = Body(g, S)
    BY <1>6, <1>7, <1>9, <2>1 DEF SliceFolds
  <2>3. g = [S \in SUBSET (1 .. N) |-> g[S]]
    BY <1>9 DEF SliceFolds
  <2> QED
    BY <1>2, <2>2, <2>3
<1>11. iter = [S \in SUBSET DOMAIN rs |-> Body(iter, S)]
  <2> HIDE DEF Body
  <2> QED
    BY <1>10, Zenon
<1> HIDE DEF iter
<1>12. SliceIterates(iter, N, V, zeros, step)
  BY <1>2, <1>6, <1>7, <1>11 DEF SliceIterates
<1>13. PICK acc : Accumulates(acc, N, V, zeros, step) /\ acc[N] = iter[1 .. N]
  <2> HIDE DEF Body
  <2> QED
    BY <1>8, <1>12, SliceRuns
<1>14. \A k \in 1 .. N : acc[k] = Merge(Larger, acc[k - 1], rs[k])
  <2> TAKE k \in 1 .. N
  <2>1. k - 1 \in 0 .. N
    BY <1>2
  <2>2. acc[k - 1] \in V /\ acc[k] = step[<<k, acc[k - 1]>>]
    BY <1>13, <2>1 DEF Accumulates
  <2> QED
    BY <1>6, <2>2
<1>15. acc \in [0 .. N -> V] /\ acc[0] = zeros /\ acc[N] = MaxStrategy(rs)
  BY <1>1, <1>2, <1>13 DEF Accumulates
<1> QED
  BY <1>14, <1>15 DEF N, V, zeros

\* Larger is the greater of two integers.
LEMMA LargerIs ==
  ASSUME NEW x \in Int, NEW y \in Int
  PROVE  /\ Larger(x, y) \in {x, y} /\ Larger(x, y) \in Int
         /\ x <= Larger(x, y) /\ y <= Larger(x, y)
BY DEF Larger

LEMMA AtMostItself == \A x \in Int : x <= x
OBVIOUS

LEMMA AtMostChain == \A x, y, z \in Int : x <= y /\ y <= z => x <= z
OBVIOUS

(***************************************************************************)
(* MaxStrategy returns, for every position of the first vector, the        *)
(* greatest of zero and of the elements that the vectors have there.       *)
(***************************************************************************)
LEMMA MaxStrategyIsGreatest ==
  ASSUME NEW rs \in Seq(Seq(Int)), rs # <<>>
  PROVE  /\ MaxStrategy(rs) \in [1 .. Len(rs[1]) -> Int]
         /\ \A i \in 1 .. Len(rs[1]) :
              /\ \/ MaxStrategy(rs)[i] = 0
                 \/ \E j \in DOMAIN rs : i \in DOMAIN rs[j] /\ MaxStrategy(rs)[i] = rs[j][i]
              /\ 0 <= MaxStrategy(rs)[i]
              /\ \A j \in DOMAIN rs : i \in DOMAIN rs[j] => rs[j][i] <= MaxStrategy(rs)[i]
<1>0. PICK N \in Nat, L \in Nat : N = Len(rs) /\ L = Len(rs[1])
  OBVIOUS
<1>1. PICK acc \in [0 .. N -> [1 .. L -> Int]] :
        /\ acc[0] = Zeros(L) /\ acc[N] = MaxStrategy(rs)
        /\ \A k \in 1 .. N : acc[k] = Merge(Larger, acc[k - 1], rs[k])
  BY <1>0, MaxStrategyRuns
<1>2. DOMAIN rs = 1 .. N /\ \A j \in 1 .. N : \A i \in DOMAIN rs[j] : rs[j][i] \in Int
  BY <1>0
<1> DEFINE Least(k, i) == \/ acc[k][i] = 0
                          \/ \E j \in 1 .. k : i \in DOMAIN rs[j] /\ acc[k][i] = rs[j][i]
           Bound(k, i) == /\ 0 <= acc[k][i]
                          /\ \A j \in 1 .. k : i \in DOMAIN rs[j] => rs[j][i] <= acc[k][i]
           Good == {k \in 0 .. N : \A i \in 1 .. L : Least(k, i) /\ Bound(k, i)}
<1>3. 0 \in Good
  BY <1>1 DEF Zeros
<1>4. ASSUME NEW k \in 0 .. N - 1, k \in Good PROVE k + 1 \in Good
  <2>1. /\ k + 1 \in 1 .. N /\ k + 1 \in 0 .. N /\ k \in 0 .. N /\ (k + 1) - 1 = k
        /\ 1 .. k + 1 = (1 .. k) \cup {k + 1}
    OBVIOUS
  <2>2. acc[k] \in [1 .. L -> Int] /\ acc[k + 1] = Merge(Larger, acc[k], rs[k + 1])
    BY <1>1, <2>1
  <2>3. ASSUME NEW i \in 1 .. L PROVE Least(k + 1, i) /\ Bound(k + 1, i)
    <3>0. 0 <= acc[k][i]
      BY <1>4
    <3>1. Least(k, i)
      BY <1>4
    <3>2. ASSUME NEW j \in 1 .. k, i \in DOMAIN rs[j] PROVE rs[j][i] <= acc[k][i]
      BY <1>4, <3>2
    <3>3. acc[k][i] \in Int /\ acc[k + 1][i] = IF i \in DOMAIN rs[k + 1]
                                                THEN Larger(rs[k + 1][i], acc[k][i])
                                                ELSE acc[k][i]
      BY <2>2 DEF Merge
    <3>4. ASSUME NEW j \in 1 .. k + 1, i \in DOMAIN rs[j] PROVE rs[j][i] \in Int
      <4>1. j \in 1 .. N
        BY <2>1
      <4> QED
        BY <1>2, <3>4, <4>1
    <3> HIDE DEF Good
    <3>5. acc[k + 1][i] \in Int /\ acc[k][i] <= acc[k + 1][i]
      <4>1. CASE i \in DOMAIN rs[k + 1]
        <5>1. rs[k + 1][i] \in Int
          BY <2>1, <3>4, <4>1
        <5>2. acc[k + 1][i] = Larger(rs[k + 1][i], acc[k][i])
          BY <3>3, <4>1
        <5> QED
          BY <3>3, <5>1, <5>2, LargerIs
      <4>2. CASE i \notin DOMAIN rs[k + 1]
        <5>1. acc[k + 1][i] = acc[k][i]
          BY <3>3, <4>2
        <5> QED
          BY <3>3, <5>1, AtMostItself
      <4> QED
        BY <4>1, <4>2
    <3>6. i \in DOMAIN rs[k + 1] => rs[k + 1][i] <= acc[k + 1][i]
      <4> SUFFICES ASSUME i \in DOMAIN rs[k + 1] PROVE rs[k + 1][i] <= acc[k + 1][i]
        OBVIOUS
      <4>1. rs[k + 1][i] \in Int
        BY <2>1, <3>4
      <4>2. acc[k + 1][i] = Larger(rs[k + 1][i], acc[k][i])
        BY <3>3
      <4> QED
        BY <3>3, <4>1, <4>2, LargerIs
    <3>7. Bound(k + 1, i)
      <4>1. 0 <= acc[k + 1][i]
        <5>1. 0 \in Int /\ acc[k][i] \in Int
          BY <3>3
        <5> QED
          BY <3>0, <3>5, <5>1, AtMostChain
      <4>2. ASSUME NEW j \in 1 .. k + 1, i \in DOMAIN rs[j] PROVE rs[j][i] <= acc[k + 1][i]
        <5>1. CASE j = k + 1
          BY <3>6, <4>2, <5>1
        <5>2. CASE j \in 1 .. k
          <6>1. rs[j][i] <= acc[k][i] /\ rs[j][i] \in Int
            BY <3>2, <3>4, <4>2, <5>2
          <6> QED
            BY <3>3, <3>5, <6>1, AtMostChain
        <5> QED
          BY <2>1, <5>1, <5>2
      <4> QED
        BY <4>1, <4>2
    <3>8. Least(k + 1, i)
      <4>1. CASE acc[k + 1][i] = acc[k][i]
        <5>1. CASE acc[k][i] = 0
          BY <4>1, <5>1
        <5>2. CASE acc[k][i] # 0
          <6>1. PICK j \in 1 .. k : i \in DOMAIN rs[j] /\ acc[k][i] = rs[j][i]
            BY <3>1, <5>2
          <6>2. j \in 1 .. k + 1
            BY <2>1
          <6> QED
            BY <4>1, <6>1, <6>2
        <5> QED
          BY <5>1, <5>2
      <4>2. CASE acc[k + 1][i] # acc[k][i]
        <5>1. i \in DOMAIN rs[k + 1] /\ acc[k + 1][i] = rs[k + 1][i]
          BY <3>3, <4>2 DEF Larger
        <5>2. k + 1 \in 1 .. k + 1
          OBVIOUS
        <5> QED
          BY <5>1, <5>2
      <4> QED
        BY <4>1, <4>2
    <3> QED
      BY <3>7, <3>8
  <2> HIDE DEF Least, Bound
  <2>4. \A i \in 1 .. L : Least(k + 1, i) /\ Bound(k + 1, i)
    BY <2>3
  <2> QED
    BY <2>1, <2>4
<1>5. N \in Good
  <2> HIDE DEF Good
  <2>1. Inductive(N, Good)
    BY <1>3, <1>4 DEF Inductive
  <2> QED
    BY <2>1, Induction
<1>6. \A i \in 1 .. L : Least(N, i) /\ Bound(N, i)
  <2>1. N \in 0 .. N
    OBVIOUS
  <2> HIDE DEF Least, Bound
  <2> QED
    BY <1>5, <2>1
<1>7. MaxStrategy(rs) \in [1 .. L -> Int]
  <2>1. N \in 0 .. N
    OBVIOUS
  <2> QED
    BY <1>1, <2>1
<1>8. ASSUME NEW i \in 1 .. L
      PROVE  /\ \/ MaxStrategy(rs)[i] = 0
                \/ \E j \in 1 .. N : i \in DOMAIN rs[j] /\ MaxStrategy(rs)[i] = rs[j][i]
             /\ 0 <= MaxStrategy(rs)[i]
             /\ \A j \in 1 .. N : i \in DOMAIN rs[j] => rs[j][i] <= MaxStrategy(rs)[i]
  BY <1>1, <1>6
<1> HIDE DEF Least, Bound, Good
<1> QED
  BY <1>0, <1>2, <1>7, <1>8

-----------------------------------------------------------------------------
(* What the operators return *)

\* UnderThreshold gives the vector of a model one element per forecast point.
LEMMA UnderThresholdType ==
  ASSUME NEW target \in Int, NEW predict \in Seq(Int)
  PROVE  UnderThreshold(target, predict) \in Seq(Int)
<1>1. Half \in Int /\ -Half \in Int
  BY HalfAssumption
<1>2. \A x : ToInt32(x) \in Int
  BY <1>1 DEF ToInt32
<1>3. Len(predict) \in Nat /\ DOMAIN predict = 1 .. Len(predict)
  OBVIOUS
<1>4. UnderThreshold(target, predict) \in [1 .. Len(predict) -> Int]
  BY <1>1, <1>2, <1>3 DEF UnderThreshold, Replicas
<1> QED
  BY <1>3, <1>4

\* MaxStrategy returns a slice.
LEMMA MaxStrategyType ==
  ASSUME NEW rs \in Seq(Seq(Int))
  PROVE  MaxStrategy(rs) \in Seq(Int)
<1>1. CASE rs = <<>>
  BY <1>1 DEF MaxStrategy
<1>2. CASE rs # <<>>
  <2>1. PICK n \in Nat : n = Len(rs[1])
    BY <1>2
  <2>2. MaxStrategy(rs) \in [1 .. Len(rs[1]) -> Int]
    BY <1>2, MaxStrategyIsGreatest
  <2>3. MaxStrategy(rs) \in [1 .. n -> Int]
    BY <2>1, <2>2
  <2> QED
    BY <2>3
<1> QED
  BY <1>1, <1>2

LEMMA Int32Type ==
  ASSUME NEW x \in Int
  PROVE  Int32(x) \in Int
<1>1. Half \in Int /\ 2 * Half \in Nat \ {0}
  BY HalfAssumption
<1>2. PICK w \in Nat \ {0} : w = 2 * Half
  BY <1>1
<1>3. (x + Half) \in Int /\ (x + Half) % w \in Int
  BY <1>1
<1> QED
  BY <1>1, <1>2, <1>3 DEF Int32

\* What wraps around is less than it was.
LEMMA Int32AtMost ==
  ASSUME NEW x \in Nat
  PROVE  Int32(x) <= x
<1>1. PICK h \in Nat, w \in Nat \ {0} : h = Half /\ w = 2 * Half
  BY HalfAssumption
<1>2. PICK a \in Nat : a = x + h
  BY <1>1
<1>3. PICK q \in Int, r \in Int : q = a \div w /\ r = a % w
  BY <1>1, <1>2
<1>4. a = w * q + r /\ q >= 0
  BY <1>3
<1>5. w * q >= 0
  BY <1>4
<1>6. r <= a
  BY <1>4, <1>5
<1> QED
  BY <1>1, <1>2, <1>3, <1>6 DEF Int32

LEMMA MulSliceType ==
  ASSUME NEW k \in Int, NEW nums \in Seq(Int)
  PROVE  MulSlice(k, nums) \in Seq(Int)
<1>1. Len(nums) \in Nat /\ DOMAIN nums = 1 .. Len(nums)
  OBVIOUS
<1>2. ASSUME NEW i \in DOMAIN nums PROVE Int32(k * nums[i]) \in Int
  <2>1. PICK x \in Int : x = nums[i]
    OBVIOUS
  <2>2. PICK y \in Int : y = k * x
    OBVIOUS
  <2>3. Int32(y) \in Int
    BY Int32Type
  <2> QED
    BY <2>1, <2>2, <2>3
<1>3. MulSlice(k, nums) \in [1 .. Len(nums) -> Int]
  BY <1>1, <1>2 DEF MulSlice
<1> QED
  BY <1>1, <1>3

\* Where AddSlice does not panic, its sum is as long as the first slice.
LEMMA AddSliceType ==
  ASSUME NEW nums \in Seq(Seq(Int)), ~AddSlicePanics(nums)
  PROVE  AddSlice(nums) \in Seq(Int) /\ Len(AddSlice(nums)) = Len(nums[1])
<1>1. nums # <<>> /\ \A i \in DOMAIN nums : i <= Len(nums[i]) /\ i \in Nat \ {0}
  <2>1. nums # <<>> /\ \A i \in DOMAIN nums : ~(i > Len(nums[i]))
    BY Zenon DEF AddSlicePanics
  <2> SUFFICES ASSUME NEW i \in DOMAIN nums PROVE i <= Len(nums[i]) /\ i \in Nat \ {0}
    BY <2>1
  <2>2. PICK n \in Nat : n = Len(nums[i])
    OBVIOUS
  <2>3. i \in Nat \ {0} /\ ~(i > n)
    BY <2>1, <2>2
  <2> QED
    BY <2>2, <2>3
<1>2. PICK n \in Nat : n = Len(nums[1]) /\ DOMAIN nums[1] = 1 .. n
  <2>1. PICK v \in Seq(Int) : v = nums[1]
    BY <1>1
  <2>2. Len(v) \in Nat /\ DOMAIN v = 1 .. Len(v)
    OBVIOUS
  <2> QED
    BY <2>1, <2>2
<1>3. ASSUME NEW i \in DOMAIN nums PROVE nums[i][i] \in Int
  <2>1. nums[i] \in Seq(Int) /\ i \in 1 .. Len(nums[i])
    BY <1>1
  <2> QED
    BY <2>1
<1>4. AddSlice(nums) \in [1 .. n -> Int]
  BY <1>2, <1>3 DEF AddSlice
<1> HIDE DEF AddSlice
<1>5. AddSlice(nums) \in Seq(Int) /\ Len(AddSlice(nums)) = n
  BY <1>4
<1> QED
  BY <1>2, <1>5

LEMMA TruncDivType ==
  ASSUME NEW a \in Int
  PROVE  TruncDiv(a, 100) \in Int
BY DEF TruncDiv

-----------------------------------------------------------------------------
(* Finite sets of integers *)

\* A finite set of integers has a greatest element.
LEMMA MaxOfFinite ==
  ASSUME NEW S \in SUBSET Int, IsFiniteSet(S), S # {}
  PROVE  Max(S) \in S /\ \A x \in S : x <= Max(S)
<1> DEFINE Top(T) == \E m \in T : \A x \in T : x <= m
           Good == {n \in Nat : \A T \in SUBSET S : Cardinality(T) = n => T = {} \/ Top(T)}
<1>1. \A T \in SUBSET S : IsFiniteSet(T) /\ Cardinality(T) \in Nat
  BY FS_Subset, FS_CardinalityType
<1>2. 0 \in Good
  <2>1. \A T \in SUBSET S : Cardinality(T) = 0 => T = {}
    BY <1>1, FS_EmptySet
  <2> QED
    BY <2>1
<1>3. ASSUME NEW n \in Nat, n \in Good PROVE n + 1 \in Good
  <2> SUFFICES ASSUME NEW T \in SUBSET S, Cardinality(T) = n + 1 PROVE T = {} \/ Top(T)
    OBVIOUS
  <2>0. IsFiniteSet(T) /\ T # {}
    BY <1>1, FS_EmptySet
  <2>1. PICK y \in T : y \in Int
    BY <2>0
  <2>2. T \ {y} \in SUBSET S /\ Cardinality(T \ {y}) = n
    <3>1. Cardinality(T \ {y}) = Cardinality(T) - 1
      BY <2>0, FS_RemoveElement
    <3> QED
      BY <3>1
  <2>3. T \ {y} = {} \/ Top(T \ {y})
    BY <1>3, <2>2
  <2>4. CASE T \ {y} = {}
    <3>1. \A x \in T : x = y
      BY <2>4
    <3> QED
      BY <2>1, <3>1
  <2>5. CASE Top(T \ {y})
    <3>1. PICK m \in T \ {y} : \A x \in T \ {y} : x <= m
      BY <2>5
    <3>2. m \in Int /\ \A x \in T : x \in Int
      OBVIOUS
    <3>3. Larger(m, y) \in T /\ \A x \in T : x <= Larger(m, y)
      BY <2>1, <3>1, <3>2 DEF Larger
    <3> QED
      BY <3>3
  <2> QED
    BY <2>3, <2>4, <2>5
<1>4. PICK n \in Nat : n = Cardinality(S)
  BY FS_CardinalityType
<1>5. n \in Good
  <2> HIDE DEF Good, Top
  <2>1. Inductive(n, Good)
    BY <1>2, <1>3 DEF Inductive
  <2> QED
    BY <2>1, Induction
<1>6. PICK m \in S : \A x \in S : x <= m
  BY <1>4, <1>5
<1> QED
  BY <1>6, MaxIs


-----------------------------------------------------------------------------
(* The order in which the models answered *)

\* MaxStrategy does not depend on the order of the vectors, nor on repetitions.
LEMMA MaxStrategyOfSameVectors ==
  ASSUME NEW H \in Nat, NEW rs \in Seq([1 .. H -> Int]), NEW qs \in Seq([1 .. H -> Int]),
         rs # <<>>, qs # <<>>, Range(rs) = Range(qs)
  PROVE  MaxStrategy(rs) = MaxStrategy(qs)
<1>1. [1 .. H -> Int] \subseteq Seq(Int)
  OBVIOUS
<1>2. rs \in Seq(Seq(Int)) /\ qs \in Seq(Seq(Int))
  BY <1>1
<1>3. /\ \A j \in DOMAIN rs : DOMAIN rs[j] = 1 .. H
      /\ \A k \in DOMAIN qs : DOMAIN qs[k] = 1 .. H
  OBVIOUS
<1>4. 1 .. Len(rs[1]) = 1 .. H /\ 1 .. Len(qs[1]) = 1 .. H
  OBVIOUS
<1>5. PICK r, q : r = MaxStrategy(rs) /\ q = MaxStrategy(qs)
  OBVIOUS
<1>6. /\ r \in [1 .. H -> Int]
      /\ \A i \in 1 .. H :
           /\ r[i] = 0 \/ \E j \in DOMAIN rs : r[i] = rs[j][i]
           /\ 0 <= r[i] /\ \A j \in DOMAIN rs : rs[j][i] <= r[i]
  BY <1>2, <1>3, <1>4, <1>5, MaxStrategyIsGreatest
<1>7. /\ q \in [1 .. H -> Int]
      /\ \A i \in 1 .. H :
           /\ q[i] = 0 \/ \E k \in DOMAIN qs : q[i] = qs[k][i]
           /\ 0 <= q[i] /\ \A k \in DOMAIN qs : qs[k][i] <= q[i]
  BY <1>2, <1>3, <1>4, <1>5, MaxStrategyIsGreatest
<1>8. ASSUME NEW i \in 1 .. H PROVE r[i] = q[i]
  <2>1. r[i] \in Int /\ q[i] \in Int
    BY <1>6, <1>7
  <2>2. r[i] <= q[i]
    <3>1. CASE r[i] = 0
      BY <1>7, <3>1
    <3>2. ASSUME NEW j \in DOMAIN rs, r[i] = rs[j][i] PROVE r[i] <= q[i]
      <4>1. PICK k \in DOMAIN qs : rs[j] = qs[k]
        BY DEF Range
      <4> QED
        BY <1>7, <3>2, <4>1
    <3> QED
      BY <1>6, <3>1, <3>2
  <2>3. q[i] <= r[i]
    <3>1. CASE q[i] = 0
      BY <1>6, <3>1
    <3>2. ASSUME NEW k \in DOMAIN qs, q[i] = qs[k][i] PROVE q[i] <= r[i]
      <4>1. PICK j \in DOMAIN rs : qs[k] = rs[j]
        BY DEF Range
      <4> QED
        BY <1>6, <3>2, <4>1
    <3> QED
      BY <1>7, <3>1, <3>2
  <2> QED
    BY <2>1, <2>2, <2>3
<1> QED
  BY <1>5, <1>6, <1>7, <1>8

-----------------------------------------------------------------------------
(* MinStrategy and MeanStrategy over vectors of one length *)

\* The loop of MinStrategy: acc[k] is res after the vector of model k + 1.
LEMMA MinStrategyRuns ==
  ASSUME NEW L \in Nat, NEW rs \in Seq([1 .. L -> Int]), rs # <<>>
  PROVE  \E acc \in [0 .. Len(rs) - 1 -> [1 .. L -> Int]] :
           /\ acc[0] = rs[1] /\ acc[Len(rs) - 1] = MinStrategy(rs)
           /\ \A k \in 1 .. Len(rs) - 1 : acc[k] = Merge(Smaller, acc[k - 1], rs[k + 1])
<1> DEFINE t == Tail(rs)
           base == rs[1]
           Body(g, S) == IF S = {} THEN base
                         ELSE Merge(Smaller, g[S \ {Max(S)}], t[Max(S)])
           iter == CHOOSE g : g = [S \in SUBSET DOMAIN t |-> Body(g, S)]
           N == Len(rs) - 1
           V == [1 .. L -> Int]
           step == [p \in (1 .. N) \X V |-> Merge(Smaller, p[2], t[p[1]])]
<1>1. MinStrategy(rs) = iter[DOMAIN t]
  BY DEF MinStrategy, FoldLeft, MapThenFoldSet
<1>2. /\ N \in Nat /\ DOMAIN t = 1 .. N /\ base \in V
      /\ \A k \in 1 .. N : t[k] = rs[k + 1] /\ t[k] \in V
  OBVIOUS
<1>3. ASSUME NEW r \in V, NEW v \in V PROVE Merge(Smaller, r, v) \in V
  BY DEF Merge, Smaller
<1> HIDE DEF t, N, base, V
<1>4. step \in [(1 .. N) \X V -> V]
  BY <1>2, <1>3
<1>5. \A k \in 1 .. N, v \in V : step[<<k, v>>] = Merge(Smaller, v, t[k])
  OBVIOUS
<1>6. \A S \in SUBSET (1 .. N) : S # {} => Max(S) \in 1 .. N
  BY <1>2, MaxMember
<1> HIDE DEF step
<1>7. Slice(N, V, base, step)
  BY <1>2, <1>4 DEF Slice
<1>8. PICK g : SliceFolds(g, N, V, base, step)
  BY <1>7, SliceExists
<1>9. g = [S \in SUBSET DOMAIN t |-> Body(g, S)]
  <2>1. ASSUME NEW S \in SUBSET (1 .. N), S # {} PROVE g[S \ {Max(S)}] \in V
    BY <1>8 DEF SliceFolds
  <2>2. \A S \in SUBSET (1 .. N) : g[S] = Body(g, S)
    BY <1>5, <1>6, <1>8, <2>1 DEF SliceFolds
  <2>3. g = [S \in SUBSET (1 .. N) |-> g[S]]
    BY <1>8 DEF SliceFolds
  <2> QED
    BY <1>2, <2>2, <2>3
<1>10. iter = [S \in SUBSET DOMAIN t |-> Body(iter, S)]
  <2> HIDE DEF Body
  <2> QED
    BY <1>9, Zenon
<1> HIDE DEF iter
<1>11. SliceIterates(iter, N, V, base, step)
  <2>1. \A S \in SUBSET (1 .. N) : iter[S] = Body(iter, S)
    <3> HIDE DEF Body
    <3> QED
      BY <1>2, <1>10
  <2> QED
    BY <1>5, <1>6, <2>1 DEF SliceIterates
<1>12. PICK acc : Accumulates(acc, N, V, base, step) /\ acc[N] = iter[1 .. N]
  <2> HIDE DEF Body
  <2> QED
    BY <1>7, <1>11, SliceRuns
<1>13. \A k \in 1 .. N : acc[k] = Merge(Smaller, acc[k - 1], rs[k + 1])
  <2> TAKE k \in 1 .. N
  <2>1. k - 1 \in 0 .. N
    BY <1>2
  <2>2. acc[k - 1] \in V /\ acc[k] = step[<<k, acc[k - 1]>>]
    BY <1>12, <2>1 DEF Accumulates
  <2> QED
    BY <1>2, <1>5, <2>2
<1>14. acc \in [0 .. N -> V] /\ acc[0] = base /\ acc[N] = MinStrategy(rs)
  BY <1>1, <1>2, <1>12 DEF Accumulates
<1> QED
  BY <1>13, <1>14 DEF N, V, base

\* Smaller is the lesser of two integers.
LEMMA SmallerIs ==
  ASSUME NEW x \in Int, NEW y \in Int
  PROVE  /\ Smaller(x, y) \in {x, y} /\ Smaller(x, y) \in Int
         /\ Smaller(x, y) <= x /\ Smaller(x, y) <= y
BY DEF Smaller

\* MinStrategy returns the least element at every position.
LEMMA MinStrategyIsLeast ==
  ASSUME NEW L \in Nat, NEW rs \in Seq([1 .. L -> Int]), rs # <<>>, NEW i \in 1 .. L
  PROVE  /\ MinStrategy(rs)[i] \in Int
         /\ \E j \in DOMAIN rs : MinStrategy(rs)[i] = rs[j][i]
         /\ \A j \in DOMAIN rs : MinStrategy(rs)[i] <= rs[j][i]
<1>0. PICK N \in Nat : N = Len(rs) - 1 /\ DOMAIN rs = 1 .. N + 1
  <2>1. Len(rs) \in Nat \ {0} /\ DOMAIN rs = 1 .. Len(rs)
    OBVIOUS
  <2>2. Len(rs) - 1 \in Nat /\ Len(rs) = (Len(rs) - 1) + 1
    BY ONLY <2>1
  <2> QED
    BY <2>1, <2>2, Zenon
<1>1. PICK acc \in [0 .. N -> [1 .. L -> Int]] :
        /\ acc[0] = rs[1] /\ acc[N] = MinStrategy(rs)
        /\ \A k \in 1 .. N : acc[k] = Merge(Smaller, acc[k - 1], rs[k + 1])
  BY <1>0, MinStrategyRuns
<1>2. \A j \in 1 .. N + 1 : rs[j] \in [1 .. L -> Int]
  BY <1>0
<1> DEFINE Low(k) == /\ \E j \in 1 .. k + 1 : acc[k][i] = rs[j][i]
                     /\ \A j \in 1 .. k + 1 : acc[k][i] <= rs[j][i]
           Good == {k \in 0 .. N : Low(k)}
<1>3. 0 \in Good
  <2>1. acc[0][i] = rs[1][i] /\ rs[1][i] \in Int /\ 0 \in 0 .. N /\ 1 .. 0 + 1 = {1}
    BY <1>1, <1>2
  <2>2. PICK x \in Int : x = acc[0][i] /\ x = rs[1][i] /\ x <= x
    BY <2>1, AtMostItself
  <2>3. Low(0)
    BY <2>1, <2>2, Zenon
  <2> HIDE DEF Low
  <2> QED
    BY <2>1, <2>3
<1>4. ASSUME NEW k \in 0 .. N - 1, k \in Good PROVE k + 1 \in Good
  <2>1. /\ k + 1 \in 1 .. N /\ k + 1 \in 0 .. N /\ k \in 0 .. N /\ (k + 1) - 1 = k
        /\ 1 .. (k + 1) + 1 = (1 .. k + 1) \cup {k + 2} /\ k + 2 \in 1 .. N + 1
        /\ (k + 1) + 1 = k + 2
    BY ONLY N \in Nat, k \in 0 .. N - 1
  <2>2. acc[k] \in [1 .. L -> Int] /\ acc[k + 1] = Merge(Smaller, acc[k], rs[k + 2])
    BY <1>1, <2>1
  <2>3. PICK a, b, c : /\ a = acc[k][i] /\ b = rs[k + 2][i] /\ c = acc[k + 1][i]
                       /\ a \in Int /\ b \in Int
    BY <1>2, <2>1, <2>2
  <2>4. c = Smaller(b, a)
    BY <1>2, <2>1, <2>2, <2>3 DEF Merge
  <2>5. c \in {a, b} /\ c \in Int /\ c <= a /\ c <= b
    BY <2>3, <2>4, SmallerIs
  <2>6. Low(k)
    BY <1>4
  <2> HIDE DEF Good
  <2>7. ASSUME NEW j \in 1 .. k + 1 PROVE c <= rs[j][i]
    <3>1. a <= rs[j][i]
      BY <2>3, <2>6
    <3>2. rs[j][i] \in Int
      BY <1>2
    <3> QED
      BY <2>3, <2>5, <3>1, <3>2, AtMostChain
  <2>8. \A j \in 1 .. (k + 1) + 1 : c <= rs[j][i]
    BY <2>1, <2>3, <2>5, <2>7
  <2>9. \E j \in 1 .. (k + 1) + 1 : c = rs[j][i]
    <3>1. CASE c = a
      BY <2>1, <2>3, <2>6, <3>1
    <3>2. CASE c = b
      BY <2>1, <2>3, <3>2
    <3> QED
      BY <2>5, <3>1, <3>2
  <2>10. Low(k + 1)
    BY <2>3, <2>8, <2>9
  <2> HIDE DEF Low
  <2> QED
    BY <2>1, <2>10 DEF Good
<1>5. N \in Good
  <2> HIDE DEF Good
  <2>1. Inductive(N, Good)
    BY <1>3, <1>4 DEF Inductive
  <2> QED
    BY <2>1, Induction
<1>6. N \in 0 .. N
  OBVIOUS
<1> QED
  BY <1>0, <1>1, <1>5, <1>6

\* One iteration of MeanStrategy's first loop.
Summed(res, v) ==
  [i \in DOMAIN res |-> IF i \in DOMAIN v THEN Int32(v[i] + res[i]) ELSE res[i]]

\* The loop of MeanStrategy: acc[k] is res after the vectors of k models.
LEMMA MeanStrategyRuns ==
  ASSUME NEW L \in Nat, NEW rs \in Seq([1 .. L -> Int]), rs # <<>>
  PROVE  \E acc \in [0 .. Len(rs) -> [1 .. L -> Int]] :
           /\ acc[0] = Zeros(L)
           /\ \A i \in 1 .. L :
                MeanStrategy(rs)[i] = TruncDiv(acc[Len(rs)][i], Len(rs))
           /\ \A k \in 1 .. Len(rs) : acc[k] = Summed(acc[k - 1], rs[k])
<1> DEFINE zeros == Zeros(Len(rs[1]))
           Body(g, S) == IF S = {} THEN zeros ELSE Summed(g[S \ {Max(S)}], rs[Max(S)])
           iter == CHOOSE g : g = [S \in SUBSET DOMAIN rs |-> Body(g, S)]
           N == Len(rs)
           V == [1 .. L -> Int]
           step == [p \in (1 .. N) \X V |-> Summed(p[2], rs[p[1]])]
<1>1. MeanStrategy(rs) = [i \in DOMAIN iter[DOMAIN rs] |->
                            TruncDiv(iter[DOMAIN rs][i], Len(rs))]
  BY DEF MeanStrategy, FoldLeft, MapThenFoldSet, Merge, Summed
<1>2. /\ N \in Nat /\ DOMAIN rs = 1 .. N /\ Len(rs[1]) = L
      /\ \A k \in 1 .. N : rs[k] \in V
  OBVIOUS
<1>3. zeros \in V /\ zeros = Zeros(L)
  BY <1>2 DEF Zeros
<1>4. ASSUME NEW r \in V, NEW v \in V PROVE Summed(r, v) \in V
  <2>1. ASSUME NEW i \in 1 .. L PROVE Int32(v[i] + r[i]) \in Int
    <3>1. PICK x \in Int : x = v[i] + r[i]
      OBVIOUS
    <3> QED
      BY <3>1, Int32Type
  <2> QED
    BY <2>1 DEF Summed
<1> HIDE DEF N, zeros, V
<1>5. step \in [(1 .. N) \X V -> V]
  BY <1>2, <1>4
<1>6. \A k \in 1 .. N, v \in V : step[<<k, v>>] = Summed(v, rs[k])
  OBVIOUS
<1>7. \A S \in SUBSET (1 .. N) : S # {} => Max(S) \in 1 .. N
  BY <1>2, MaxMember
<1> HIDE DEF step
<1>8. Slice(N, V, zeros, step)
  BY <1>2, <1>3, <1>5 DEF Slice
<1>9. PICK g : SliceFolds(g, N, V, zeros, step)
  BY <1>8, SliceExists
<1>10. g = [S \in SUBSET DOMAIN rs |-> Body(g, S)]
  <2>1. ASSUME NEW S \in SUBSET (1 .. N), S # {} PROVE g[S \ {Max(S)}] \in V
    BY <1>9 DEF SliceFolds
  <2>2. \A S \in SUBSET (1 .. N) : g[S] = Body(g, S)
    BY <1>6, <1>7, <1>9, <2>1 DEF SliceFolds
  <2>3. g = [S \in SUBSET (1 .. N) |-> g[S]]
    BY <1>9 DEF SliceFolds
  <2> QED
    BY <1>2, <2>2, <2>3
<1>11. iter = [S \in SUBSET DOMAIN rs |-> Body(iter, S)]
  <2> HIDE DEF Body
  <2> QED
    BY <1>10, Zenon
<1> HIDE DEF iter
<1>12. SliceIterates(iter, N, V, zeros, step)
  BY <1>2, <1>6, <1>7, <1>11 DEF SliceIterates
<1>13. PICK acc : Accumulates(acc, N, V, zeros, step) /\ acc[N] = iter[1 .. N]
  <2> HIDE DEF Body
  <2> QED
    BY <1>8, <1>12, SliceRuns
<1>14. \A k \in 1 .. N : acc[k] = Summed(acc[k - 1], rs[k])
  <2> TAKE k \in 1 .. N
  <2>1. k - 1 \in 0 .. N
    BY <1>2
  <2>2. acc[k - 1] \in V /\ acc[k] = step[<<k, acc[k - 1]>>]
    BY <1>13, <2>1 DEF Accumulates
  <2> QED
    BY <1>6, <2>2
<1>15. acc \in [0 .. N -> V] /\ acc[0] = zeros
  BY <1>13 DEF Accumulates
<1>16. \A i \in 1 .. L : MeanStrategy(rs)[i] = TruncDiv(acc[N][i], N)
  <2>1. acc[N] \in V
    BY <1>2, <1>15
  <2>2. iter[DOMAIN rs] = acc[N] /\ DOMAIN acc[N] = 1 .. L
    BY <1>2, <1>13, <2>1 DEF V
  <2> QED
    BY <1>1, <2>2 DEF N
<1> QED
  BY <1>3, <1>14, <1>15, <1>16 DEF N, V

\* A sum that fits an int32 does not wrap around.
LEMMA Int32Fits ==
  ASSUME NEW x \in Nat, x < Half
  PROVE  Int32(x) = x
<1>1. PICK h \in Nat, w \in Nat \ {0} : h = Half /\ w = 2 * Half
  BY HalfAssumption
<1>2. PICK a \in Nat : a = x + h /\ a < w
  BY <1>1
<1>3. PICK q \in Int, r \in Int : q = a \div w /\ r = a % w
  BY <1>1, <1>2
<1>4. a = w * q + r /\ 0 <= r /\ r < w
  BY <1>3
<1>5. q = 0
  <2>1. q >= 1 => w * q >= w
    OBVIOUS
  <2>2. q <= -1 => w * q <= -w
    OBVIOUS
  <2> QED
    BY <1>2, <1>4, <2>1, <2>2
<1>6. w * 0 = 0
  OBVIOUS
<1>7. r = a
  BY <1>4, <1>5, <1>6
<1> QED
  BY <1>1, <1>2, <1>3, <1>7 DEF Int32

\* A quotient is between the bounds of its summands.
LEMMA QuotientBetween ==
  ASSUME NEW n \in Nat \ {0}, NEW s \in Nat, NEW lo \in Int, NEW hi \in Int,
         n * lo <= s, s <= n * hi
  PROVE  TruncDiv(s, n) \in Int /\ lo <= TruncDiv(s, n) /\ TruncDiv(s, n) <= hi
<1>1. PICK q \in Int : q = s \div n
  OBVIOUS
<1>2. n * q <= s /\ s < n * q + n /\ n * q \in Int
  BY <1>1, SMT
<1>3. TruncDiv(s, n) = q
  BY <1>1 DEF TruncDiv
<1>4. ~(q < lo)
  <2>1. ASSUME q + 1 <= lo PROVE FALSE
    <3>1. n * (q + 1) <= n * lo
      BY <2>1
    <3>2. n * (q + 1) = n * q + n
      OBVIOUS
    <3> QED
      BY <1>2, <3>1, <3>2
  <2> QED
    BY <2>1
<1>5. ~(q > hi)
  <2>1. ASSUME hi + 1 <= q PROVE FALSE
    <3>1. n * (hi + 1) <= n * q
      BY <2>1
    <3>2. n * (hi + 1) = n * hi + n
      OBVIOUS
    <3> QED
      BY <1>2, <3>1, <3>2
  <2> QED
    BY <2>1
<1> QED
  BY <1>3, <1>4, <1>5

\* One more summand and one more times its bound.
LEMMA NextSum ==
  ASSUME NEW k \in Int, NEW c \in Int, NEW a \in Int, NEW b \in Int
  PROVE  /\ a <= k * c /\ b <= c => b + a <= (k + 1) * c
         /\ k * c <= a /\ c <= b => (k + 1) * c <= b + a
<1>1. PICK y \in Int : y = k * c
  OBVIOUS
<1>2. (k + 1) * c = y + c
  BY <1>1
<1> QED
  BY <1>1, <1>2

\* The sum of the first n elements fits when the bound on all of them does.
LEMMA PartialSumFits ==
  ASSUME NEW n \in Nat, NEW N \in Nat, n <= N, NEW B \in Nat, NEW h \in Nat, N * B < h,
         NEW x \in Nat, x <= n * B
  PROVE  x < h
<1>1. PICK d \in Nat : N = n + d
  <2>1. N - n \in Nat /\ N = n + (N - n)
    OBVIOUS
  <2> QED
    BY <2>1
<1>2. PICK y \in Nat, z \in Nat : y = n * B /\ z = d * B
  OBVIOUS
<1>3. N * B = y + z
  BY <1>1, <1>2
<1>4. x <= y /\ y + z < h
  BY <1>2, <1>3
<1> QED
  BY ONLY <1>4, x \in Nat, y \in Nat, z \in Nat, h \in Nat

(***************************************************************************)
(* MeanStrategy returns a number between any bounds of the elements, as    *)
(* long as their sum fits an int32.                                        *)
(***************************************************************************)
LEMMA MeanStrategyBetween ==
  ASSUME NEW L \in Nat, NEW B \in Nat, NEW rs \in Seq([1 .. L -> 0 .. B]), rs # <<>>,
         Len(rs) * B < Half, NEW i \in 1 .. L,
         NEW lo \in Int, NEW hi \in Int,
         \A j \in DOMAIN rs : lo <= rs[j][i] /\ rs[j][i] <= hi
  PROVE  /\ MeanStrategy(rs)[i] \in Int
         /\ lo <= MeanStrategy(rs)[i] /\ MeanStrategy(rs)[i] <= hi
<1>0. PICK N \in Nat \ {0} : N = Len(rs) /\ DOMAIN rs = 1 .. N
  OBVIOUS
<1>1. rs \in Seq([1 .. L -> Int]) /\ \A j \in 1 .. N : rs[j] \in [1 .. L -> 0 .. B]
  <2>1. [1 .. L -> 0 .. B] \subseteq [1 .. L -> Int]
    OBVIOUS
  <2> QED
    BY <1>0, <2>1
<1>2. PICK acc \in [0 .. N -> [1 .. L -> Int]] :
        /\ acc[0] = Zeros(L)
        /\ \A k \in 1 .. L : MeanStrategy(rs)[k] = TruncDiv(acc[N][k], N)
        /\ \A k \in 1 .. N : acc[k] = Summed(acc[k - 1], rs[k])
  <2>1. PICK a \in [0 .. Len(rs) -> [1 .. L -> Int]] :
          /\ a[0] = Zeros(L)
          /\ \A k \in 1 .. L : MeanStrategy(rs)[k] = TruncDiv(a[Len(rs)][k], Len(rs))
          /\ \A k \in 1 .. Len(rs) : a[k] = Summed(a[k - 1], rs[k])
    BY ONLY <1>1, L \in Nat, rs # <<>>, MeanStrategyRuns
  <2> QED
    BY <1>0, <2>1, Zenon
<1> DEFINE Sum(k) == /\ 0 <= acc[k][i] /\ acc[k][i] <= k * B
                     /\ k * lo <= acc[k][i] /\ acc[k][i] <= k * hi
           Good == {k \in 0 .. N : Sum(k)}
<1>3. 0 \in Good
  <2>1. acc[0][i] = 0 /\ 0 * B = 0 /\ 0 * lo = 0 /\ 0 * hi = 0 /\ 0 \in 0 .. N
    BY <1>2 DEF Zeros
  <2>2. Sum(0)
    BY <2>1
  <2> HIDE DEF Sum
  <2> QED
    BY <2>1, <2>2
<1>4. ASSUME NEW k \in 0 .. N - 1, k \in Good PROVE k + 1 \in Good
  <2>1. k + 1 \in 1 .. N /\ k + 1 \in 0 .. N /\ k \in 0 .. N /\ (k + 1) - 1 = k
    OBVIOUS
  <2>2. acc[k] \in [1 .. L -> Int] /\ acc[k + 1] = Summed(acc[k], rs[k + 1])
    BY <1>2, <2>1
  <2>3. PICK a \in Int, b \in 0 .. B : a = acc[k][i] /\ b = rs[k + 1][i]
    BY <1>1, <2>1, <2>2
  <2>4. acc[k + 1][i] = Int32(b + a)
    BY <1>1, <2>1, <2>2, <2>3 DEF Summed
  <2>5. 0 <= a /\ a <= k * B /\ k * lo <= a /\ a <= k * hi
    BY <1>4, <2>3
  <2>6. lo <= b /\ b <= hi
    BY <1>0, <2>1, <2>3
  <2> HIDE DEF Good
  <2>7. PICK x \in Nat : x = b + a
    BY <2>5
  <2>8. x <= (k + 1) * B /\ (k + 1) * lo <= x /\ x <= (k + 1) * hi
    <3>1. k \in Int /\ B \in Int /\ a \in Int /\ b \in Int /\ b <= B
      BY ONLY N \in Nat, k \in 0 .. N - 1, B \in Nat, a \in Int, b \in 0 .. B
    <3> QED
      BY ONLY <2>5, <2>6, <2>7, <3>1, lo \in Int, hi \in Int, NextSum
  <2>9. x < Half
    <3>1. PICK n \in Nat : n = k + 1 /\ n <= N
      OBVIOUS
    <3>2. x <= n * B /\ N * B < Half
      BY <1>0, <2>8, <3>1
    <3> QED
      BY ONLY <3>1, <3>2, n \in Nat, N \in Nat, B \in Nat, x \in Nat, HalfAssumption,
              PartialSumFits
  <2>10. acc[k + 1][i] = x
    BY <2>4, <2>7, <2>9, Int32Fits
  <2>11. Sum(k + 1)
    BY <2>7, <2>8, <2>10
  <2> HIDE DEF Sum
  <2> QED
    BY <2>1, <2>11 DEF Good
<1>5. N \in Good
  <2> HIDE DEF Good
  <2>1. Inductive(N, Good)
    BY <1>3, <1>4 DEF Inductive
  <2> QED
    BY <2>1, Induction
<1>6. PICK s \in Nat : s = acc[N][i] /\ N * lo <= s /\ s <= N * hi
  <2>1. N \in 0 .. N
    OBVIOUS
  <2>2. acc[N][i] \in Int
    BY <1>2, <2>1
  <2>3. Sum(N)
    BY <1>5
  <2> HIDE DEF Good
  <2>4. PICK s \in Int : s = acc[N][i]
    BY <2>2
  <2>5. 0 <= s /\ N * lo <= s /\ s <= N * hi /\ s \in Int
    BY <2>3, <2>4
  <2>6. s \in Nat
    BY ONLY <2>5
  <2> QED
    BY <2>4, <2>5, <2>6, Zenon
<1>7. MeanStrategy(rs)[i] = TruncDiv(s, N)
  BY <1>2, <1>6
<1> QED
  BY <1>6, <1>7, QuotientBetween

=============================================================================
