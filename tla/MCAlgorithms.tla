---------------------------- MODULE MCAlgorithms ----------------------------
(***************************************************************************)
(* The pure algorithms on every input of a small grid.  Either the models  *)
(* of one metric answer one after the other and ScalerStrategy turns the   *)
(* forecasts into replicas, or samples arrive one after the other and      *)
(* HoltWinter forecasts the series so far.                                 *)
(***************************************************************************)
EXTENDS SteadyStrategy, HoltWinter, FiniteSetsExt

CONSTANTS MaxModels, Horizon, Values, Targets, StartReplica,
          MaxLen, Samples, Params

VARIABLES target,     \* metric.Target, or 0 when a series is forecast
          forecasts,  \* the forecasts received, in order of arrival
          par,        \* the parameters of Holt-Winters
          series      \* the samples of its window

NoPar == [slen |-> 0]

\* NoPar only stands for the absence of parameters.
ASSUME AlgorithmsAssumption ==
  /\ Horizon \in Nat /\ MaxModels \in Nat
  /\ Values \subseteq Int /\ Targets \subseteq Nat \ {0} /\ StartReplica \in Nat
  /\ NoPar \notin Params

MC_Values  == {-1, 0, 1, 5, 11}
MC_Targets == {1, 5, 7}

Forecast == [1 .. Horizon -> Values]

\* The replica vectors that Run collects for the metric.
Votes == [j \in DOMAIN forecasts |-> UnderThreshold(target, forecasts[j])]

MC_Samples == {Whole(0), Whole(1), Whole(2)}
MC_Params  == [slen : {1, 2}, lookForward : {3},
               alpha : {Whole(0), Frac(1, 2), Whole(1)},
               beta : {Whole(0), Frac(1, 2)}, gamma : {Frac(1, 2), Whole(1)}]

Init ==
  /\ forecasts = <<>> /\ series = <<>>
  /\ \/ target \in Targets /\ par = NoPar
     \/ target = 0 /\ par \in Params

Answer(f) ==
  /\ par = NoPar /\ Len(forecasts) < MaxModels
  /\ forecasts' = Append(forecasts, f)
  /\ UNCHANGED <<target, par, series>>

Sample(x) ==
  /\ par # NoPar /\ Len(series) < MaxLen
  /\ series' = Append(series, x)
  /\ UNCHANGED <<target, forecasts, par>>

Next == \/ \E f \in Forecast : Answer(f)
        \/ \E x \in Samples : Sample(x)

Spec == Init /\ [][Next]_<<target, forecasts, par, series>>

-----------------------------------------------------------------------------
\* r is the least number of replicas with r * per >= need.
IsLeast(r, per, need) ==
  IF need <= 0 THEN r = 0 ELSE r * per >= need /\ (r - 1) * per < need

(***************************************************************************)
(* UnderThreshold gives the least number of replicas that keeps the        *)
(* forecast per replica at or under the target; a negative forecast asks   *)
(* for none.                                                               *)
(***************************************************************************)
UnderThresholdIsLeast ==
  \A j \in DOMAIN forecasts, i \in 1 .. Horizon :
    IsLeast(Votes[j][i], target, forecasts[j][i])

(***************************************************************************)
(* Steady keeps the load per replica at what it is now, the target here.   *)
(* Where the product is small against the precision of a float, rounding   *)
(* the quotient never costs a replica that is needed and adds at most one; *)
(* an unchanged load leaves the replicas as they are; and for one replica, *)
(* where nothing is multiplied, rounding does not show at all.             *)
(***************************************************************************)
SteadyTracksLoad ==
  \A j \in DOMAIN forecasts :
    LET f == forecasts[j]
        res == Steady(target, StartReplica, f)
    IN /\ \A i \in 1 .. Horizon :
            LET need == StartReplica * f[i]
            IN /\ need > 0 /\ 4 * need <= 2^Bits =>
                    res[i] * target >= need /\ (res[i] - 2) * target < need
               /\ f[i] = target => res[i] = StartReplica
       /\ Steady(target, 1, f) = Votes[j]

(***************************************************************************)
(* Steady gives the least number that keeps the load per replica.  The     *)
(* rounding of the quotient refutes it.                                    *)
(***************************************************************************)
SteadyIsLeast ==
  \A j \in DOMAIN forecasts, i \in 1 .. Horizon :
    IsLeast(Steady(target, StartReplica, forecasts[j])[i], target,
            StartReplica * forecasts[j][i])

(***************************************************************************)
(* MaxStrategy gives the least vector that satisfies every model, in       *)
(* whatever order the predictors' goroutines sent their results.           *)
(***************************************************************************)
MaxStrategyIsLeastUpperBound ==
  Votes # <<>> =>
    /\ \A i \in 1 .. Horizon :
         MaxStrategy(Votes)[i] = Max({0} \cup {Votes[j][i] : j \in DOMAIN Votes})
    /\ \A j \in DOMAIN Votes :
         MaxStrategy(<<Votes[j]>> \o RemoveAt(Votes, j)) = MaxStrategy(Votes)

\* At every point of the horizon: least model <= mean <= greatest model.
StrategiesAreOrdered ==
  Votes # <<>> =>
    \A i \in 1 .. Horizon :
      /\ MinStrategy(Votes)[i] <= MeanStrategy(Votes)[i]
      /\ MeanStrategy(Votes)[i] <= MaxStrategy(Votes)[i]
      /\ \E j \in DOMAIN Votes : MinStrategy(Votes)[i] = Votes[j][i]

(***************************************************************************)
(* AddSlice of the metrics' weighted vectors is their sum, the set from    *)
(* which the scheduler selects the largest need of the horizon.            *)
(***************************************************************************)
AddSliceIsSum ==
  Votes # <<>> =>
    \A i \in 1 .. Horizon :
      AddSlice(Votes)[i] = SumFunction([j \in DOMAIN Votes |-> Votes[j][i]])

-----------------------------------------------------------------------------
\* Holt-Winters has a window it does not panic on.
Smoothable == par # NoPar /\ ~SmoothingPanics(par, series)

\* offset + 2 * x
Rescaled(x) == Plus(Whole(5), Times(Whole(2), x))

(***************************************************************************)
(* The forecast does not depend on the unit of the metric or on its zero:  *)
(* the result of the rescaled series is the rescaled result.               *)
(***************************************************************************)
ForecastIsAffine ==
  Smoothable =>
    LET plain == TripleExponentialSmoothing(par, series)
        other == TripleExponentialSmoothing(par,
                   [i \in DOMAIN series |-> Rescaled(series[i])])
    IN \A i \in DOMAIN plain : other[i] = Rescaled(plain[i])

\* The value at index i of the code, from the first samples of the series.
Extended(i) ==
  IF par.slen = 1
  THEN Plus(series[1], Times(Whole(i), Minus(series[2], series[1])))
  ELSE series[(i % par.slen) + 1]

Follows == \A i \in 0 .. Len(series) - 1 : series[i + 1] = Extended(i)

Continues ==
  LET res == TripleExponentialSmoothing(par, series)
  IN \A i \in Len(series) .. Len(series) + par.lookForward - 1 :
       res[i] = Extended(i)

\* Without seasons, a line is continued whatever the weights.
LineContinues == Smoothable /\ par.slen = 1 /\ Follows => Continues

(***************************************************************************)
(* A periodic series is continued in its phase, when the level follows the *)
(* samples and the trend does not: the smoothing starts at the first       *)
(* sample with its season still in it.                                     *)
(***************************************************************************)
PeriodContinues ==
  Smoothable /\ par.slen > 1 /\ par.alpha = Whole(1) /\ par.beta = Whole(0) /\ Follows
    => Continues

=============================================================================
