-------------------------- MODULE AlgorithmsProofs --------------------------
(***************************************************************************)
(* TLAPS proofs about the strategies of scaler/strategy.go, for any number *)
(* of models, any horizon and any integer forecasts.                       *)
(***************************************************************************)
EXTENDS MCAlgorithms, ScalerStrategyProofs, SequenceTheorems

-----------------------------------------------------------------------------
(* What the models of the metric have answered *)

\* The forecasts are whole vectors; a target of 0 stands for no forecast.
ForecastsOK ==
  /\ forecasts \in Seq(Forecast) /\ target \in Int
  /\ forecasts # <<>> => target \in Targets

\* Which of the two, models or Holt-Winters, is under way.
PartsApart == par = NoPar => target \in Targets

\* The forecasts and the target stay what they are.
LEMMA ForecastsStay == Spec => [](ForecastsOK /\ PartsApart)
<1>1. Init => ForecastsOK /\ PartsApart
  <2> SUFFICES ASSUME Init PROVE ForecastsOK /\ PartsApart
    OBVIOUS
  <2>1. target \in Targets \cup {0} /\ (par = NoPar => target \in Targets)
    BY AlgorithmsAssumption DEF Init
  <2>2. target \in Int
    BY <2>1, AlgorithmsAssumption
  <2>3. forecasts = <<>> /\ forecasts \in Seq(Forecast)
    BY DEF Init
  <2> QED
    BY <2>1, <2>2, <2>3 DEF ForecastsOK, PartsApart
<1>2. ASSUME ForecastsOK, PartsApart, [Next]_<<target, forecasts, par, series>>
      PROVE  ForecastsOK' /\ PartsApart'
  <2>1. ASSUME NEW f \in Forecast, Answer(f) PROVE ForecastsOK' /\ PartsApart'
    <3>1. forecasts' \in Seq(Forecast) /\ target' = target /\ par' = par /\ par = NoPar
      BY <1>2, <2>1 DEF Answer, ForecastsOK
    <3> QED
      BY <1>2, <3>1 DEF ForecastsOK, PartsApart
  <2>2. ASSUME NEW x \in Samples, Sample(x) PROVE ForecastsOK' /\ PartsApart'
    BY <1>2, <2>2 DEF Sample, ForecastsOK, PartsApart
  <2>3. CASE UNCHANGED <<target, forecasts, par, series>>
    BY <1>2, <2>3 DEF ForecastsOK, PartsApart
  <2> QED
    BY <1>2, <2>1, <2>2, <2>3 DEF Next
<1> QED
  BY <1>1, <1>2, PTL DEF Spec

\* The votes are vectors over the horizon, one for each forecast.
LEMMA VotesType ==
  ASSUME ForecastsOK
  PROVE  /\ Votes \in Seq([1 .. Horizon -> Int]) /\ Len(Votes) = Len(forecasts)
         /\ \A j \in DOMAIN Votes : Votes[j] = UnderThreshold(target, forecasts[j])
<1>1. ASSUME NEW f \in Forecast PROVE UnderThreshold(target, f) \in [1 .. Horizon -> Int]
  <2>1. f \in Seq(Int) /\ DOMAIN f = 1 .. Horizon
    <3>1. f \in [1 .. Horizon -> Int] /\ Horizon \in Nat
      BY AlgorithmsAssumption DEF Forecast
    <3> QED
      BY <3>1
  <2>2. UnderThreshold(target, f) \in Seq(Int)
    BY <2>1, UnderThresholdType DEF ForecastsOK
  <2>3. DOMAIN UnderThreshold(target, f) = 1 .. Horizon
    BY <2>1 DEF UnderThreshold, Replicas
  <2>4. UnderThreshold(target, f) \in [1 .. Horizon -> Int]
    <3>1. PICK u : u = UnderThreshold(target, f)
      OBVIOUS
    <3>2. u \in Seq(Int) /\ DOMAIN u = 1 .. Horizon
      BY <2>2, <2>3, <3>1
    <3>3. u \in [1 .. Len(u) -> Int] /\ DOMAIN u = 1 .. Len(u)
      BY <3>2, LenProperties
    <3> QED
      BY <3>1, <3>2, <3>3
  <2> QED
    BY <2>4
<1>2. PICK n \in Nat : n = Len(forecasts) /\ DOMAIN forecasts = 1 .. n
  BY DEF ForecastsOK
<1>3. Votes \in [1 .. n -> [1 .. Horizon -> Int]]
  BY <1>1, <1>2 DEF Votes, ForecastsOK
<1> QED
  BY <1>2, <1>3 DEF Votes

-----------------------------------------------------------------------------
(* MaxStrategy *)

\* c has the elements of a and then those of b.
Joins(c, a, b) ==
  /\ Len(c) = Len(a) + Len(b)
  /\ \A i \in 1 .. Len(a) + Len(b) : c[i] = IF i <= Len(a) THEN a[i] ELSE b[i - Len(a)]

\* What a concatenation holds.
LEMMA ConcatJoins ==
  ASSUME NEW V, NEW a \in Seq(V), NEW b \in Seq(V)
  PROVE  a \o b \in Seq(V) /\ Joins(a \o b, a, b)
<1>1. /\ a \o b \in Seq(V) /\ Len(a \o b) = Len(a) + Len(b)
      /\ \A i \in 1 .. Len(a) + Len(b) :
           (a \o b)[i] = IF i <= Len(a) THEN a[i] ELSE b[i - Len(a)]
  BY ConcatProperties, Zenon
<1> QED
  BY <1>1, Zenon DEF Joins

\* A vector moved to the front leaves the vectors the same.
LEMMA FrontedVectors ==
  ASSUME NEW V, NEW s \in Seq(V), NEW j \in DOMAIN s,
         NEW q, q = <<s[j]>> \o RemoveAt(s, j)
  PROVE  q \in Seq(V) /\ q # <<>> /\ Range(q) = Range(s)
<1>1. PICK n \in Nat : n = Len(s) /\ DOMAIN s = 1 .. n
  OBVIOUS
<1>2. j \in 1 .. n
  BY <1>1
<1>3. PICK a, b, t : a = SubSeq(s, 1, j - 1) /\ b = SubSeq(s, j + 1, n) /\ t = a \o b
  OBVIOUS
<1>4. /\ a \in Seq(V) /\ Len(a) = j - 1
      /\ \A i \in 1 .. j - 1 : a[i] = s[i]
  <2>1. 1 \in Int /\ j - 1 \in Int /\ \A i \in 1 .. j - 1 : s[i] \in V
    BY <1>1, <1>2
  <2>2. /\ a \in Seq(V) /\ Len(a) = IF 1 <= j - 1 THEN j - 1 - 1 + 1 ELSE 0
        /\ \A i \in 1 .. j - 1 - 1 + 1 : a[i] = s[1 + i - 1]
    BY <1>3, <2>1, SubSeqProperties
  <2> QED
    BY <1>2, <2>2
<1>5. /\ b \in Seq(V) /\ Len(b) = n - j
      /\ \A i \in 1 .. n - j : b[i] = s[i + j]
  <2>1. PICK f \in Int : f = j + 1
    BY <1>2
  <2>2. b = SubSeq(s, f, n) /\ n \in Int /\ \A i \in f .. n : s[i] \in V
    BY <1>1, <1>2, <1>3, <2>1
  <2>3. /\ b \in Seq(V) /\ Len(b) = IF f <= n THEN n - f + 1 ELSE 0
        /\ \A i \in 1 .. n - f + 1 : b[i] = s[f + i - 1]
    BY <2>2, SubSeqProperties
  <2>4. n - f + 1 = n - j
    BY <1>2, <2>1
  <2>7. ~(f <= n) => n - j = 0
    BY <1>2, <2>1
  <2>5. Len(b) = n - j
    BY <2>3, <2>4, <2>7
  <2>6. \A i \in 1 .. n - j : f + i - 1 = i + j
    BY <1>2, <2>1
  <2> QED
    BY <2>3, <2>4, <2>5, <2>6
<1>6. /\ t \in Seq(V) /\ Len(t) = n - 1
      /\ \A i \in 1 .. n - 1 : t[i] = IF i < j THEN s[i] ELSE s[i + 1]
  <2>0. a \in Seq(V) /\ b \in Seq(V)
    BY <1>4, <1>5
  <2>9. t \in Seq(V) /\ Joins(t, a, b)
    BY <1>3, <2>0, ConcatJoins, Zenon
  <2>1. /\ t \in Seq(V) /\ Len(t) = Len(a) + Len(b)
        /\ \A i \in 1 .. Len(a) + Len(b) : t[i] = IF i <= Len(a) THEN a[i] ELSE b[i - Len(a)]
    BY <2>9 DEF Joins
  <2>2. Len(a) + Len(b) = n - 1 /\ Len(a) = j - 1
    BY <1>2, <1>4, <1>5
  <2>3. ASSUME NEW i \in 1 .. n - 1 PROVE t[i] = IF i < j THEN s[i] ELSE s[i + 1]
    <3>1. CASE i < j
      <4>1. i \in 1 .. Len(a) + Len(b) /\ i <= Len(a) /\ i \in 1 .. j - 1
        BY <1>2, <2>2, <3>1
      <4>2. t[i] = a[i] /\ a[i] = s[i]
        BY <1>4, <2>1, <4>1, Zenon
      <4> QED
        BY <3>1, <4>2, Zenon
    <3>2. CASE ~(i < j)
      <4>1. t[i] = b[i - (j - 1)]
        <5>1. i \in 1 .. Len(a) + Len(b) /\ ~(i <= Len(a))
          BY <1>2, <2>2, <3>2
        <5>2. t[i] = b[i - Len(a)]
          BY <2>1, <5>1, Zenon
        <5> QED
          BY <2>2, <5>2, Zenon
      <4>2. i - (j - 1) \in 1 .. n - j /\ (i - (j - 1)) + j = i + 1
        BY <1>2, <3>2
      <4> QED
        BY <1>5, <3>2, <4>1, <4>2
    <3> QED
      BY <3>1, <3>2
  <2> QED
    BY <2>1, <2>2, <2>3
<1>7. /\ <<s[j]>> \in Seq(V) /\ Len(<<s[j]>>) = 1 /\ <<s[j]>>[1] = s[j]
  BY <1>1, <1>2
<1>8. /\ q \in Seq(V) /\ Len(q) = n /\ q[1] = s[j]
      /\ \A k \in 2 .. n : q[k] = t[k - 1]
  <2>1. q = <<s[j]>> \o t
    BY <1>1, <1>3 DEF RemoveAt
  <2>2. PICK h : h = <<s[j]>>
    OBVIOUS
  <2>3. h \in Seq(V) /\ t \in Seq(V) /\ q = h \o t
    BY <1>6, <1>7, <2>1, <2>2
  <2>9. q \in Seq(V) /\ Joins(q, h, t)
    BY <2>3, ConcatJoins, Zenon
  <2>4. /\ q \in Seq(V) /\ Len(q) = Len(h) + Len(t)
        /\ \A i \in 1 .. Len(h) + Len(t) : q[i] = IF i <= Len(h) THEN h[i] ELSE t[i - Len(h)]
    BY <2>9 DEF Joins
  <2>5. Len(h) = 1 /\ h[1] = s[j] /\ Len(h) + Len(t) = n
    BY <1>6, <1>7, <2>2
  <2> QED
    BY <1>2, <2>4, <2>5
<1>9. \A k \in 2 .. n : q[k] = IF k <= j THEN s[k - 1] ELSE s[k]
  <2> SUFFICES ASSUME NEW k \in 2 .. n PROVE q[k] = IF k <= j THEN s[k - 1] ELSE s[k]
    OBVIOUS
  <2>1. q[k] = t[k - 1] /\ k - 1 \in 1 .. n - 1 /\ (k - 1 < j <=> k <= j) /\ (k - 1) + 1 = k
    BY <1>2, <1>8
  <2> QED
    BY <1>6, <2>1
<1>10. DOMAIN q = 1 .. n
  BY <1>8
<1>11. ASSUME NEW i \in 1 .. n PROVE \E k \in 1 .. n : s[i] = q[k]
  <2>1. CASE i = j
    BY <1>2, <1>8, <2>1
  <2>2. CASE i < j
    <3>1. i + 1 \in 2 .. n /\ i + 1 \in 1 .. n /\ i + 1 <= j /\ (i + 1) - 1 = i
      BY <1>2, <2>2
    <3>2. q[i + 1] = s[i]
      BY <1>9, <3>1
    <3> QED
      BY <3>1, <3>2
  <2>3. CASE i > j
    <3>1. i \in 2 .. n /\ ~(i <= j)
      BY <1>2, <2>3
    <3>2. q[i] = s[i]
      BY <1>9, <3>1
    <3> QED
      BY <3>2
  <2>4. i = j \/ i < j \/ i > j
    BY <1>2
  <2> QED
    BY <2>1, <2>2, <2>3, <2>4
<1>12. ASSUME NEW k \in 1 .. n PROVE \E i \in 1 .. n : q[k] = s[i]
  <2>1. CASE k = 1
    BY <1>2, <1>8, <2>1
  <2>2. CASE k # 1
    <3>1. k \in 2 .. n /\ (k - 1 \in 1 .. n)
      BY <2>2
    <3>2. q[k] = s[k - 1] \/ q[k] = s[k]
      BY <1>9, <3>1
    <3> QED
      BY <3>1, <3>2
  <2> QED
    BY <2>1, <2>2
<1>13. q # <<>>
  BY <1>2, <1>8
<1>14. q \in Seq(V) /\ DOMAIN s = 1 .. n
  BY <1>1, <1>8
<1>15. \A i \in DOMAIN s : \E k \in DOMAIN q : s[i] = q[k]
  <2> SUFFICES ASSUME NEW i \in DOMAIN s PROVE \E k \in DOMAIN q : s[i] = q[k]
    OBVIOUS
  <2>1. i \in 1 .. n
    BY <1>14
  <2>2. PICK k \in 1 .. n : s[i] = q[k]
    BY <1>11, <2>1
  <2> QED
    BY <1>10, <2>2
<1>16. \A k \in DOMAIN q : \E i \in DOMAIN s : q[k] = s[i]
  <2> SUFFICES ASSUME NEW k \in DOMAIN q PROVE \E i \in DOMAIN s : q[k] = s[i]
    OBVIOUS
  <2>1. k \in 1 .. n
    BY <1>10
  <2>2. PICK i \in 1 .. n : q[k] = s[i]
    BY <1>12, <2>1
  <2> QED
    BY <1>14, <2>2
<1>17. Range(q) = Range(s)
  <2>1. \A x : x \in Range(q) <=> \E k \in DOMAIN q : x = q[k]
    BY DEF Range
  <2>2. \A x : x \in Range(s) <=> \E i \in DOMAIN s : x = s[i]
    BY DEF Range
  <2>3. ASSUME NEW x \in Range(q) PROVE x \in Range(s)
    BY <1>16, <2>1, <2>2
  <2>4. ASSUME NEW x \in Range(s) PROVE x \in Range(q)
    BY <1>15, <2>1, <2>2
  <2> QED
    BY <2>3, <2>4
<1> QED
  BY <1>13, <1>14, <1>17

(***************************************************************************)
(* MaxStrategy gives the least vector that satisfies every model: for any  *)
(* number of models and any horizon, and whichever of the predictors'      *)
(* goroutines of scheduler.Run sent its result first.                      *)
(***************************************************************************)
THEOREM MaxStrategyLeast == Spec => []MaxStrategyIsLeastUpperBound
<1>1. ASSUME ForecastsOK, Votes # <<>> PROVE MaxStrategyIsLeastUpperBound
  <2>1. PICK rs : rs = Votes
    OBVIOUS
  <2>2. rs \in Seq([1 .. Horizon -> Int]) /\ rs # <<>> /\ Horizon \in Nat
    BY <1>1, <2>1, VotesType, AlgorithmsAssumption
  <2>3. /\ rs \in Seq(Seq(Int)) /\ 1 .. Len(rs[1]) = 1 .. Horizon
        /\ \A j \in DOMAIN rs : DOMAIN rs[j] = 1 .. Horizon /\ rs[j] \in [1 .. Horizon -> Int]
    <3>1. [1 .. Horizon -> Int] \subseteq Seq(Int)
      BY <2>2
    <3>2. rs \in Seq(Seq(Int))
      BY <2>2, <3>1
    <3> QED
      BY <2>2, <3>2
  <2>4. ASSUME NEW i \in 1 .. Horizon
        PROVE  MaxStrategy(rs)[i] = Max({0} \cup {rs[j][i] : j \in DOMAIN rs})
    <3>1. PICK m : m = MaxStrategy(rs)[i]
      OBVIOUS
    <3>2. /\ m \in Int
          /\ m = 0 \/ \E j \in DOMAIN rs : m = rs[j][i]
          /\ 0 <= m /\ \A j \in DOMAIN rs : rs[j][i] <= m
      BY <2>2, <2>3, <3>1, MaxStrategyIsGreatest
    <3>3. PICK S : S = {0} \cup {rs[j][i] : j \in DOMAIN rs}
      OBVIOUS
    <3>4. S \in SUBSET Int /\ m \in S /\ \A x \in S : x <= m
      <4>1. \A j \in DOMAIN rs : rs[j][i] \in Int
        BY <2>3
      <4>2. m \in S
        BY <3>2, <3>3
      <4> QED
        BY <3>2, <3>3, <4>1, <4>2
    <3> QED
      BY <3>1, <3>3, <3>4, MaxIs
  <2>5. ASSUME NEW j \in DOMAIN rs
        PROVE  MaxStrategy(<<rs[j]>> \o RemoveAt(rs, j)) = MaxStrategy(rs)
    <3>1. PICK q : q = <<rs[j]>> \o RemoveAt(rs, j)
      OBVIOUS
    <3>2. q \in Seq([1 .. Horizon -> Int]) /\ q # <<>> /\ Range(q) = Range(rs)
      <4>1. PICK V : V = [1 .. Horizon -> Int]
        OBVIOUS
      <4>2. rs \in Seq(V)
        BY <2>2, <4>1
      <4>3. q \in Seq(V) /\ q # <<>> /\ Range(q) = Range(rs)
        BY <3>1, <4>2, FrontedVectors, Zenon
      <4> QED
        BY <4>1, <4>3
    <3> QED
      BY <2>2, <3>1, <3>2, MaxStrategyOfSameVectors, Zenon
  <2> QED
    BY <2>1, <2>4, <2>5 DEF MaxStrategyIsLeastUpperBound
<1>2. Votes = <<>> => MaxStrategyIsLeastUpperBound
  BY DEF MaxStrategyIsLeastUpperBound
<1>3. ForecastsOK => MaxStrategyIsLeastUpperBound
  BY <1>1, <1>2
<1> QED
  BY <1>3, ForecastsStay, PTL

-----------------------------------------------------------------------------
(* UnderThreshold *)

\* math.Ceil of a quotient is the least integer that is not below it.
LEMMA CeilDivIsLeast ==
  ASSUME NEW a \in Nat, NEW b \in Nat \ {0}
  PROVE  CeilDiv(a, b) \in Nat /\ IsLeast(CeilDiv(a, b), b, a)
<1>1. PICK x \in Nat : x = a + b - 1
  OBVIOUS
<1>2. PICK q \in Int : q = x \div b
  OBVIOUS
<1>3. q * b <= x /\ x < q * b + b /\ q * b \in Int
  BY <1>1, <1>2, SMT
<1>4. q \in Nat
  <2>1. ~(q < 0)
    <3>1. ASSUME q < 0 PROVE q * b + b <= 0
      BY <3>1
    <3> QED
      BY <1>1, <1>3, <3>1
  <2> QED
    BY <2>1
<1>5. CeilDiv(a, b) = q
  BY <1>1, <1>2 DEF CeilDiv
<1>6. (q - 1) * b = q * b - b
  OBVIOUS
<1>7. q * b >= a /\ (q - 1) * b < a
  BY <1>1, <1>3, <1>6
<1>8. a <= 0 => q = 0
  <2>1. ASSUME a = 0, q >= 1 PROVE FALSE
    <3>1. q * b >= b
      BY <2>1
    <3> QED
      BY <1>1, <1>3, <2>1, <3>1
  <2> QED
    BY <1>4, <2>1
<1> QED
  BY <1>4, <1>5, <1>7, <1>8 DEF IsLeast

\* No quotient of the forecasts is out of the range of an int32.
QuotientsFit == \A m \in Values, t \in Targets : m >= 0 => CeilDiv(m, t) < Half

\* What UnderThreshold makes of a forecast that fits.
LEMMA ReplicasAreLeast ==
  ASSUME NEW t \in Nat \ {0}, NEW m \in Int, m >= 0 => CeilDiv(m, t) < Half
  PROVE  IsLeast(IF m < 0 THEN 0 ELSE IF t = 0 THEN -Half ELSE ToInt32(CeilDiv(m, t)), t, m)
<1>1. CASE m < 0
  BY <1>1 DEF IsLeast
<1>2. CASE m >= 0
  <2>1. CeilDiv(m, t) \in Nat /\ IsLeast(CeilDiv(m, t), t, m)
    BY <1>2, CeilDivIsLeast
  <2>2. PICK r \in Nat : r = CeilDiv(m, t)
    BY <2>1
  <2>3. r < Half
    BY <1>2, <2>2
  <2>4. ToInt32(r) = r
    BY <2>3, HalfAssumption DEF ToInt32
  <2>5. ~(m < 0) /\ t # 0
    BY <1>2
  <2> QED
    BY <2>1, <2>2, <2>4, <2>5
<1> QED
  BY <1>1, <1>2

(***************************************************************************)
(* As long as the quotients of the forecasts and the target fit an int32,  *)
(* UnderThreshold of strategy.go asks for the least number of replicas     *)
(* that keeps the metric at or under the target.                           *)
(***************************************************************************)
THEOREM UnderThresholdLeast ==
  ASSUME QuotientsFit
  PROVE  Spec => []UnderThresholdIsLeast
<1>1. ASSUME ForecastsOK PROVE UnderThresholdIsLeast
  <2> SUFFICES ASSUME NEW j \in DOMAIN forecasts, NEW i \in 1 .. Horizon
               PROVE  IsLeast(Votes[j][i], target, forecasts[j][i])
    BY DEF UnderThresholdIsLeast
  <2>1. PICK f, m : f = forecasts[j] /\ m = forecasts[j][i]
    OBVIOUS
  <2>2. /\ f \in Forecast /\ DOMAIN f = 1 .. Horizon /\ m = f[i]
        /\ m \in Values /\ m \in Int /\ target \in Targets /\ target \in Nat \ {0}
    <3>1. f \in [1 .. Horizon -> Values] /\ target \in Targets
      BY <1>1, <2>1 DEF ForecastsOK, Forecast
    <3> QED
      BY <2>1, <3>1, AlgorithmsAssumption DEF Forecast
  <2>3. m >= 0 => CeilDiv(m, target) < Half
    BY <2>2 DEF QuotientsFit
  <2>4. Votes[j][i] = UnderThreshold(target, f)[i]
    BY <2>1 DEF Votes
  <2>5. UnderThreshold(target, f)[i] =
          IF m < 0 THEN 0 ELSE IF target = 0 THEN -Half ELSE ToInt32(CeilDiv(m, target))
    BY <2>2 DEF UnderThreshold, Replicas
  <2>6. IsLeast(IF m < 0 THEN 0 ELSE IF target = 0 THEN -Half
                ELSE ToInt32(CeilDiv(m, target)), target, m)
    BY <2>2, <2>3, ReplicasAreLeast
  <2> QED
    BY <2>1, <2>4, <2>5, <2>6
<1> QED
  BY <1>1, ForecastsStay, PTL

-----------------------------------------------------------------------------
(* MinStrategy and MeanStrategy *)

\* The sum of the votes of all models fits an int32, as MeanStrategy's has to.
SumsFit ==
  \E B \in Nat :
    /\ MaxModels * B < Half
    /\ \A m \in Values, t \in Targets : m >= 0 => CeilDiv(m, t) <= B

\* One vote for each model.
AtMostModels == Len(forecasts) <= MaxModels

LEMMA ModelsStay == Spec => []AtMostModels
<1>1. Init => AtMostModels
  BY AlgorithmsAssumption DEF Init, AtMostModels
<1>2. ASSUME ForecastsOK, AtMostModels, [Next]_<<target, forecasts, par, series>>
      PROVE  AtMostModels'
  <2>1. ASSUME NEW f \in Forecast, Answer(f) PROVE AtMostModels'
    <3>1. /\ Len(forecasts) \in Nat /\ Len(forecasts) < MaxModels
          /\ Len(forecasts') = Len(forecasts) + 1
      BY <1>2, <2>1 DEF Answer, ForecastsOK
    <3> QED
      BY <3>1, AlgorithmsAssumption DEF AtMostModels
  <2>2. ASSUME NEW x \in Samples, Sample(x) PROVE AtMostModels'
    BY <1>2, <2>2 DEF Sample, AtMostModels
  <2>3. CASE UNCHANGED <<target, forecasts, par, series>>
    BY <1>2, <2>3 DEF AtMostModels
  <2> QED
    BY <1>2, <2>1, <2>2, <2>3 DEF Next
<1>3. ForecastsOK /\ AtMostModels /\ [Next]_<<target, forecasts, par, series>> => AtMostModels'
  BY <1>2
<1> QED
  BY <1>1, <1>3, ForecastsStay, PTL DEF Spec

\* A vote is never negative and never more than the bound on the quotients.
LEMMA VotesBounded ==
  ASSUME ForecastsOK, NEW B \in Nat, B < Half,
         \A m \in Values, t \in Targets : m >= 0 => CeilDiv(m, t) <= B
  PROVE  Votes \in Seq([1 .. Horizon -> 0 .. B])
<1>1. PICK n \in Nat : n = Len(Votes) /\ DOMAIN Votes = 1 .. n /\ n = Len(forecasts)
  BY VotesType DEF ForecastsOK
<1>2. ASSUME NEW j \in 1 .. n PROVE Votes[j] \in [1 .. Horizon -> 0 .. B]
  <2>1. PICK f \in Forecast : f = forecasts[j]
    BY <1>1 DEF ForecastsOK
  <2>2. Votes[j] = UnderThreshold(target, f) /\ Votes[j] \in [1 .. Horizon -> Int]
    BY <1>1, <2>1, VotesType
  <2>3. target \in Targets /\ target \in Nat \ {0}
    BY <1>1, AlgorithmsAssumption DEF ForecastsOK
  <2>4. ASSUME NEW i \in 1 .. Horizon PROVE Votes[j][i] \in 0 .. B
    <3>1. PICK m \in Values : m = f[i] /\ m \in Int
      BY AlgorithmsAssumption DEF Forecast
    <3>2. Votes[j][i] =
            IF m < 0 THEN 0 ELSE IF target = 0 THEN -Half ELSE ToInt32(CeilDiv(m, target))
      BY <2>2, <3>1 DEF UnderThreshold, Replicas, Forecast
    <3>3. CASE m < 0
      BY <3>2, <3>3
    <3>4. CASE m >= 0
      <4>1. CeilDiv(m, target) \in Nat /\ CeilDiv(m, target) <= B
        BY <2>3, <3>1, <3>4, CeilDivIsLeast
      <4>2. PICK r \in Nat : r = CeilDiv(m, target) /\ r <= B
        BY <4>1
      <4>3. ToInt32(r) = r
        BY <4>2, HalfAssumption DEF ToInt32
      <4>4. Votes[j][i] = r
        BY <2>3, <3>1, <3>2, <3>4, <4>2, <4>3
      <4> QED
        BY <4>2, <4>4
    <3> QED
      BY <3>1, <3>3, <3>4
  <2> QED
    BY <2>2, <2>4
<1>3. Votes \in [1 .. n -> [1 .. Horizon -> 0 .. B]]
  <2>1. Votes = [j \in 1 .. n |-> Votes[j]]
    BY <1>1 DEF Votes
  <2> QED
    BY <1>2, <2>1
<1> QED
  BY <1>3

(***************************************************************************)
(* As long as the votes of all models sum up to an int32, MinStrategy is   *)
(* at most MeanStrategy and MeanStrategy at most MaxStrategy at every      *)
(* point of the horizon, and MinStrategy is the vote of some model: for    *)
(* any number of models, any horizon and any order of arrival.             *)
(***************************************************************************)
THEOREM StrategiesOrdered ==
  ASSUME SumsFit
  PROVE  Spec => []StrategiesAreOrdered
<1>1. ASSUME ForecastsOK, AtMostModels, Votes # <<>>
      PROVE  StrategiesAreOrdered
  <2>1. PICK rs : rs = Votes
    OBVIOUS
  <2>2. PICK N \in Nat \ {0} : N = Len(rs) /\ N <= MaxModels
    <3>1. rs \in Seq([1 .. Horizon -> Int]) /\ rs # <<>> /\ Len(rs) = Len(forecasts)
      BY <1>1, <2>1, VotesType
    <3> QED
      BY <1>1, <3>1 DEF AtMostModels
  <2>3. PICK B \in Nat : /\ MaxModels * B < Half
                         /\ \A m \in Values, t \in Targets : m >= 0 => CeilDiv(m, t) <= B
    BY DEF SumsFit
  <2>4. B < Half /\ N * B < Half
    <3>1. 1 \in Nat /\ 1 <= MaxModels /\ B <= 1 * B /\ MaxModels \in Nat /\ Half \in Nat
      BY <2>2, AlgorithmsAssumption, HalfAssumption
    <3>2. N * B \in Nat /\ N * B <= N * B
      OBVIOUS
    <3> QED
      BY <2>2, <2>3, <3>1, <3>2, PartialSumFits
  <2>5. /\ rs \in Seq([1 .. Horizon -> 0 .. B]) /\ rs \in Seq([1 .. Horizon -> Int])
        /\ rs # <<>> /\ Horizon \in Nat
    BY <1>1, <2>1, <2>3, <2>4, VotesBounded, VotesType, AlgorithmsAssumption
  <2>6. /\ rs \in Seq(Seq(Int)) /\ 1 .. Len(rs[1]) = 1 .. Horizon
        /\ \A j \in DOMAIN rs : DOMAIN rs[j] = 1 .. Horizon
    <3>1. [1 .. Horizon -> Int] \subseteq Seq(Int)
      BY <2>5
    <3>2. rs \in Seq(Seq(Int))
      BY <2>5, <3>1
    <3> QED
      BY <2>5, <3>2
  <2>7. ASSUME NEW i \in 1 .. Horizon
        PROVE  /\ MinStrategy(rs)[i] <= MeanStrategy(rs)[i]
               /\ MeanStrategy(rs)[i] <= MaxStrategy(rs)[i]
               /\ \E j \in DOMAIN rs : MinStrategy(rs)[i] = rs[j][i]
    <3>1. PICK lo, hi : lo = MinStrategy(rs)[i] /\ hi = MaxStrategy(rs)[i]
      OBVIOUS
    <3>2. /\ lo \in Int /\ \A j \in DOMAIN rs : lo <= rs[j][i]
          /\ \E j \in DOMAIN rs : lo = rs[j][i]
      BY <2>5, <3>1, MinStrategyIsLeast
    <3>3. hi \in Int /\ \A j \in DOMAIN rs : rs[j][i] <= hi
      BY <2>5, <2>6, <3>1, MaxStrategyIsGreatest
    <3>4. lo <= MeanStrategy(rs)[i] /\ MeanStrategy(rs)[i] <= hi
      BY <2>2, <2>4, <2>5, <3>2, <3>3, MeanStrategyBetween
    <3> QED
      BY <3>1, <3>2, <3>4
  <2> QED
    BY <2>1, <2>7 DEF StrategiesAreOrdered
<1>2. ForecastsOK /\ AtMostModels => StrategiesAreOrdered
  BY <1>1 DEF StrategiesAreOrdered
<1> QED
  BY <1>2, ForecastsStay, ModelsStay, PTL

=============================================================================
