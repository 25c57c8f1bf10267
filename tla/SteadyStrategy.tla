--------------------------- MODULE SteadyStrategy ---------------------------
(***************************************************************************)
(* Steady of scaler/strategy.go.  It divides and then multiplies, and the  *)
(* rounding of the quotient may reach the ceiling of the product: 100      *)
(* replicas at 11/10 of their load become 111.  So its floats have a       *)
(* precision here, which TLC takes smaller than the code's.                *)
(***************************************************************************)
EXTENDS ScalerStrategy

CONSTANTS Bits,   \* the significant bits of a float, 53 in a float64
          MaxExp  \* bound: scaling by 2^-MaxExp .. 2^MaxExp normalises a float

ASSUME FloatAssumption == Bits \in Nat \ {0} /\ MaxExp \in Nat

\* The whole number nearest to n / d, the even one of two.
RoundEven(n, d) ==
  LET q == n \div d
      r == n % d
  IN IF 2 * r > d \/ (2 * r = d /\ q % 2 = 1) THEN q + 1 ELSE q

\* The float nearest to n / d, as a fraction; n >= 0 and d > 0.
Nearest(n, d) ==
  LET up(e) == IF e > 0 THEN 2^e ELSE 1
      exp == CHOOSE e \in -MaxExp .. MaxExp :
               (n * up(e)) \div (d * up(-e)) \in 2^(Bits - 1) .. 2^Bits - 1
  IN IF n = 0 THEN [num |-> 0, den |-> 1]
     ELSE [num |-> RoundEven(n * up(exp), d * up(-exp)) * up(-exp),
           den |-> up(exp)]

\* Mutant of Steady: the ceiling is taken of the quotient.
SteadyOfWholes(startMetric, startReplica, predict) ==
  Replicas(LAMBDA m : startReplica * CeilDiv(m, startMetric), startMetric, predict)

\* The quotient is rounded, and its product with startReplica again.  Rounding
\* is symmetric about zero, so the sign of startMetric can come last.
Steady(startMetric, startReplica, predict) ==
  LET sign == IF startMetric < 0 THEN -1 ELSE 1
      product(m) == LET q == Nearest(m, sign * startMetric)
                    IN Nearest(startReplica * q.num, q.den)
      ceil(x) == CeilDiv(sign * x.num, x.den)
  IN Replicas(LAMBDA m : ceil(product(m)), startMetric, predict)

=============================================================================
