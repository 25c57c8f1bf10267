----------------------------- MODULE HoltWinter -----------------------------
(***************************************************************************)
(* The triple exponential smoothing of algorithms/holt_winter over exact   *)
(* fractions.  A parameter p has slen, lookForward, alpha, beta and gamma; *)
(* a series is a sequence of fractions, whose index starts at 1, while     *)
(* the code's i starts at 0.                                               *)
(***************************************************************************)
EXTENDS Integers, Sequences, SequencesExt

-----------------------------------------------------------------------------
(* Fractions in lowest terms: numerator and positive denominator *)

Gcd[a \in Nat, b \in Nat] == IF b = 0 THEN a ELSE Gcd[b, a % b]

Frac(n, d) == LET g == Gcd[IF n < 0 THEN -n ELSE n, d] IN <<n \div g, d \div g>>

Whole(n) == <<n, 1>>
Plus(x, y)  == Frac(x[1] * y[2] + y[1] * x[2], x[2] * y[2])
Minus(x, y) == Frac(x[1] * y[2] - y[1] * x[2], x[2] * y[2])
Times(x, y) == Frac(x[1] * y[1], x[2] * y[2])
Over(x, n)  == Frac(x[1], x[2] * n)
Total(s)    == FoldLeft(Plus, Whole(0), s)

\* w * x + (1 - w) * y
Blend(w, x, y) == Plus(Times(w, x), Times(Minus(Whole(1), w), y))

-----------------------------------------------------------------------------
\* A division by zero or an index out of range, in the order of the calls.
SmoothingPanics(p, s) == p.slen = 0 \/ s = <<>> \/ Len(s) < 2 * p.slen

InitialTrend(p, s) ==
  Over(Total([i \in 1 .. p.slen |-> Over(Minus(s[i + p.slen], s[i]), p.slen)]), p.slen)

\* The i-th sample of the j-th season.
InSeason(p, s, j, i) == s[p.slen * (j - 1) + i + 1]

Seasons(p, s) == 1 .. Len(s) \div p.slen

SeasonAverage(p, s, j) ==
  Over(Total([i \in 1 .. p.slen |-> InSeason(p, s, j, i - 1)]), p.slen)

InitialSeasonals(p, s) ==
  [i \in 0 .. p.slen - 1 |->
     Over(Total([j \in Seasons(p, s) |->
                   Minus(InSeason(p, s, j, i), SeasonAverage(p, s, j))]),
          Len(s) \div p.slen)]

\* Mutant of Phase: the season of the next sample.
NextPhase(p, i) == (i + 1) % p.slen

Phase(p, i) == i % p.slen

\* Mutant of Smooth: without the factor (1 - alpha).
SmoothUnweighted(p, val, season, old) ==
  Plus(Times(p.alpha, Minus(val, season)), Plus(old.smooth, old.trend))

Smooth(p, val, season, old) ==
  Blend(p.alpha, Minus(val, season), Plus(old.smooth, old.trend))

\* smooth, trend and seasonals after the sample i of the code's loop.
Fitted(p, s) ==
  LET fit[i \in 0 .. Len(s) - 1] ==
        IF i = 0
        THEN [smooth |-> s[1], trend |-> InitialTrend(p, s),
              seasonals |-> InitialSeasonals(p, s)]
        ELSE LET old    == fit[i - 1]
                 season == old.seasonals[Phase(p, i)]
                 smooth == Smooth(p, s[i + 1], season, old)
             IN [smooth |-> smooth,
                 trend  |-> Blend(p.beta, Minus(smooth, old.smooth), old.trend),
                 seasonals |-> [old.seasonals EXCEPT ![Phase(p, i)] =
                                  Blend(p.gamma, Minus(s[i + 1], smooth), season)]]
  IN fit

\* Mutant of Ahead: m starts at 0.
AheadFromZero(s, i) == i - Len(s)

\* How many steps after the last sample i lies.
Ahead(s, i) == i - Len(s) + 1

\* The whole result: the first sample, the fits and then the forecast.
TripleExponentialSmoothing(p, s) ==
  LET fit  == Fitted(p, s)
      last == fit[Len(s) - 1]
  IN [i \in 0 .. Len(s) + p.lookForward - 1 |->
        IF i = 0 THEN s[1]
        ELSE IF i < Len(s)
        THEN Plus(Plus(fit[i].smooth, fit[i].trend), fit[i].seasonals[Phase(p, i)])
        ELSE Plus(Plus(last.smooth, Times(Whole(Ahead(s, i)), last.trend)),
                  last.seasonals[Phase(p, i)])]

=============================================================================
