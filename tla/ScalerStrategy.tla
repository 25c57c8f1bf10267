--------------------------- MODULE ScalerStrategy ---------------------------
(***************************************************************************)
(* The pure functions between a forecast and a replica count: the          *)
(* strategies of scaler/strategy.go and the slice helpers of               *)
(* utils/common.go.  Metric values are whole multiples of a unit; a        *)
(* replica is a signed integer of the width that Half gives (2^31 in the   *)
(* code).  Steady, which nothing calls, is in SteadyStrategy.              *)
(***************************************************************************)
EXTENDS Integers, Sequences, SequencesExt

CONSTANT Half  \* an int32 is in -Half .. Half - 1

ASSUME HalfAssumption == Half \in Nat \ {0}

-----------------------------------------------------------------------------
(* Integer conversions *)

\* int32 arithmetic wraps.
Int32(x) == ((x + Half) % (2 * Half)) - Half

\* int32(f) of a float out of range is the least int32 on amd64.
ToInt32(x) == IF x \in -Half .. Half - 1 THEN x ELSE -Half

\* Mutant of CeilDiv: math.Floor.
FloorDiv(a, b) == IF b > 0 THEN a \div b ELSE (-a) \div (-b)

\* math.Ceil(a / b), b # 0.
CeilDiv(a, b) == IF b > 0 THEN (a + b - 1) \div b ELSE -(a \div (-b))

\* Mutant of TruncDiv: the percentages of the weights stay in.
NoDiv(a, b) == a

\* Go's integer division truncates towards zero, b > 0.
TruncDiv(a, b) == IF a >= 0 THEN a \div b ELSE -((-a) \div b)

Larger(x, y)  == IF x > y THEN x ELSE y
Smaller(x, y) == IF x < y THEN x ELSE y

-----------------------------------------------------------------------------
(* BaseStrategy: replicas from the forecast of one model *)

\* A quotient by zero is an infinity or a NaN, both out of range.
Replicas(count(_), den, predict) ==
  [i \in DOMAIN predict |->
     IF predict[i] < 0 THEN 0
     ELSE IF den = 0 THEN -Half ELSE ToInt32(count(predict[i]))]

\* The code rounds the quotient before it takes the ceiling.  That changes
\* nothing for forecasts below 2^53 units: a quotient that is not whole is at
\* least 1 / target above the whole number below it.
UnderThreshold(target, predict) ==
  Replicas(LAMBDA m : CeilDiv(m, target), target, predict)

-----------------------------------------------------------------------------
(* ModelStrategy: one vector from the vectors of a metric's models *)

\* res[i] is indexed with every index of every vector.
StrategyPanics(replicas) ==
  \E j \in DOMAIN replicas : Len(replicas[j]) > Len(replicas[1])

\* The loop body: res with v merged in, position by position.
Merge(op(_, _), res, v) ==
  [i \in DOMAIN res |-> IF i \in DOMAIN v THEN op(v[i], res[i]) ELSE res[i]]

Zeros(n) == [i \in 1 .. n |-> 0]

\* Mutant of MaxStrategy: the loop skips the first model as MinStrategy's does.
MaxOfTail(replicas) ==
  IF replicas = <<>> THEN <<>>
  ELSE FoldLeft(LAMBDA res, v : Merge(Larger, res, v),
                Zeros(Len(replicas[1])), Tail(replicas))

MaxStrategy(replicas) ==
  IF replicas = <<>> THEN <<>>
  ELSE FoldLeft(LAMBDA res, v : Merge(Larger, res, v),
                Zeros(Len(replicas[1])), replicas)

\* Mutant of MinStrategy: no copy of the first vector into res.
MinFromZeros(replicas) ==
  IF replicas = <<>> THEN <<>>
  ELSE FoldLeft(LAMBDA res, v : Merge(Smaller, res, v),
                Zeros(Len(replicas[1])), Tail(replicas))

MinStrategy(replicas) ==
  IF replicas = <<>> THEN <<>>
  ELSE FoldLeft(LAMBDA res, v : Merge(Smaller, res, v),
                replicas[1], Tail(replicas))

MeanStrategy(replicas) ==
  IF replicas = <<>> THEN <<>>
  ELSE LET sum == FoldLeft(
                    LAMBDA res, v : Merge(LAMBDA x, y : Int32(x + y), res, v),
                    Zeros(Len(replicas[1])), replicas)
       IN [i \in DOMAIN sum |-> TruncDiv(sum[i], Len(replicas))]

-----------------------------------------------------------------------------
(* From the weighted vectors of the metrics to one number *)

MulSlice(k, nums) == [i \in DOMAIN nums |-> Int32(k * nums[i])]

\* The loop reads num[i] of the i-th slice and no other element.
AddSlice(nums) ==
  [i \in DOMAIN nums[1] |-> IF i \in DOMAIN nums THEN nums[i][i] ELSE 0]

AddSlicePanics(nums) ==
  \/ nums = <<>>
  \/ \E i \in DOMAIN nums : i > Len(nums[1]) \/ i > Len(nums[i])

\* utils.Max over a non-empty slice.
SelectMax(replicas) == FoldLeft(Larger, replicas[1], Tail(replicas))

SelectMaxPanics(replicas) == replicas = <<>>

=============================================================================
