------------------------------ MODULE Scheduler ------------------------------
(***************************************************************************)
(* Scheduler.Run (scheduler/scheduler.go) of one AOM object: every tick    *)
(* asks the predictors for forecasts, turns them into a replica count and  *)
(* scales the target up (scaler/scaler.go, clients/k8s).  Beside it run    *)
(* the goroutines that predict, the reconciler that edits the maps, other  *)
(* writers of the replica count and, after a repeated handleCreate, a      *)
(* second Run of the same object.                                          *)
(***************************************************************************)
EXTENDS ScalerStrategy, FiniteSets

CONSTANTS
  Key, Type,    \* NoModelKeys and model types, as in AOMController
  Loop,         \* the Run goroutines of the object
  Forecasts,    \* Forecasts[t]: what Predict of a model of type t may return
  Configs,      \* the contents the reconciler may give the maps
  Counts,       \* replica counts that others may set
  MaxReplica,   \* Scaler.MaxReplica
  Absent

WithModelKey == Key \X Type

\* Target is a string: Absent stands for one that ParseFloat rejects.
Metric == [target : Int \cup {Absent}, weight : Int]
Model  == [needTrain : BOOLEAN]

Config == [metrics : [Key -> Metric \cup {Absent}],
           models  : [WithModelKey -> Model \cup {Absent}]]

ASSUME SchedulerAssumption ==
  /\ IsFiniteSet(Key) /\ IsFiniteSet(Type)
  /\ Absent \notin Metric /\ Absent \notin Model /\ Absent \notin Int
  /\ Absent \notin Loop \cup {"MaxStrategy", "AddSlice"}
  /\ Configs \subseteq Config
  /\ Counts \subseteq Nat /\ MaxReplica \in Nat
  /\ \A t \in Type : Forecasts[t] \subseteq Seq(Int)

VARIABLES
  metricMap,    \* hide.MetricMap
  modelMap,     \* hide.ModelMap
  predictorMap, \* the keys of hide.PredictorMap
  lock,         \* the loop that holds PredictorMap's lock, or Absent
  goal, rpc,    \* the config a reconciler pass installs, and its progress
  replicas,     \* spec.replicas of the scale target
  pc,           \* where each loop is
  cap,          \* the capacity of its ResChan
  left,         \* the predictors the range loop has not visited
  running,      \* its prediction goroutines
  results,      \* what ResChan holds
  cur,          \* curReplica, which UpTo has read
  want,         \* targetReplica / 100, then the count UpTo writes
  need,         \* history: the largest weighted need of the last aggregation
  panicked,     \* why the process panicked, or Absent
  recent        \* history: the models trained within their UpdateInterval

storeVars == <<metricMap, modelMap, predictorMap>>
passVars  == <<goal, rpc>>
tickVars  == <<cap, left, running, results, cur, want, need>>

vars == <<storeVars, lock, passVars, replicas, pc, tickVars, panicked, recent>>

Listed(c) == {w \in WithModelKey : c.models[w] # Absent}

Init ==
  /\ \E c \in Configs : /\ metricMap = c.metrics /\ modelMap = c.models
                        /\ predictorMap = Listed(c) /\ goal = c
  /\ rpc = "idle"
  /\ lock = Absent
  /\ replicas \in Counts
  /\ pc = [l \in Loop |-> "tick"]
  /\ cap = [l \in Loop |-> 0]
  /\ left = [l \in Loop |-> {}]
  /\ running = [l \in Loop |-> {}]
  /\ results = [l \in Loop |-> <<>>]
  /\ cur = [l \in Loop |-> 0]
  /\ want = [l \in Loop |-> 0]
  /\ need = [l \in Loop |-> 0]
  /\ panicked = Absent
  /\ recent = {}

\* The loop is at the given point of a living process.
At(l, point) == panicked = Absent /\ pc[l] = point

GoTo(l, point) == pc' = [pc EXCEPT ![l] = point]

\* Mutant of EndTick: the next tick's ResChan still holds the results.
EndTickKeepsResults(l) ==
  /\ GoTo(l, "tick")
  /\ cap' = [cap EXCEPT ![l] = 0]
  /\ cur' = [cur EXCEPT ![l] = 0] /\ want' = [want EXCEPT ![l] = 0]
  /\ need' = [need EXCEPT ![l] = 0]
  /\ UNCHANGED <<left, running, results>>

\* The next iteration of the loop: the locals of this one are gone.
EndTick(l) ==
  /\ GoTo(l, "tick")
  /\ cap' = [cap EXCEPT ![l] = 0]
  /\ results' = [results EXCEPT ![l] = <<>>]
  /\ cur' = [cur EXCEPT ![l] = 0] /\ want' = [want EXCEPT ![l] = 0]
  /\ need' = [need EXCEPT ![l] = 0]
  /\ UNCHANGED <<left, running>>

-----------------------------------------------------------------------------
(* The range over PredictorMap, under its lock *)

\* Mutant of Capacity: room for one result of each metric.
CapacityOfMetrics == Cardinality({w[1] : w \in predictorMap})

\* The capacity ResChan is made with.
Capacity == Cardinality(predictorMap)

\* Mutant of CanLock: the lock is not taken.
NoLock == TRUE

CanLock == lock = Absent

Tick(l) ==
  /\ At(l, "tick") /\ CanLock
  /\ lock' = l
  /\ cap' = [cap EXCEPT ![l] = Capacity]
  /\ left' = [left EXCEPT ![l] = predictorMap]
  /\ GoTo(l, "range")
  /\ UNCHANGED <<storeVars, passVars, replicas, running, results, cur, want, need,
                 panicked, recent>>

Known(w) == modelMap[w] # Absent /\ metricMap[w[1]] # Absent

\* The model or the metric of the predictor is gone from the maps.
Skip(l, w) ==
  /\ At(l, "range") /\ w \in left[l]
  /\ ~Known(w)
  /\ left' = [left EXCEPT ![l] = @ \ {w}]
  /\ UNCHANGED <<storeVars, lock, passVars, replicas, pc, cap, running, results,
                 cur, want, need, panicked, recent>>

(***************************************************************************)
(* The prediction goroutine keeps the metric it was started with.  Nothing *)
(* stores into TrainHistory, so its Load fails and a model that needs      *)
(* training is trained at every tick, with the lock held.                  *)
(***************************************************************************)
Dispatch(l, w) ==
  /\ At(l, "range") /\ w \in left[l]
  /\ Known(w)
  /\ left' = [left EXCEPT ![l] = @ \ {w}]
  /\ running' = [running EXCEPT ![l] =
                   @ \cup {[key |-> w, target |-> metricMap[w[1]].target]}]
  /\ \/ /\ modelMap[w].needTrain
        /\ recent' = recent \cup {w}
        /\ GoTo(l, "train")
     \/ ~modelMap[w].needTrain /\ UNCHANGED <<recent, pc>>
  /\ UNCHANGED <<storeVars, lock, passVars, replicas, cap, results, cur, want,
                 need, panicked>>

\* Mutant of TrainReturns: Train takes the lock its caller holds.
TrainLocks(l) ==
  /\ At(l, "train") /\ lock = Absent
  /\ GoTo(l, "range")
  /\ UNCHANGED <<storeVars, lock, passVars, replicas, tickVars, panicked, recent>>

\* Train returns: the request is written to the socket, or an error.
TrainReturns(l) ==
  /\ At(l, "train")
  /\ GoTo(l, "range")
  /\ UNCHANGED <<storeVars, lock, passVars, replicas, tickVars, panicked, recent>>

\* Mutant of Unlock: a return path that keeps the lock.
UnlockNothing(l) ==
  /\ At(l, "range") /\ left[l] = {}
  /\ GoTo(l, "wait")
  /\ UNCHANGED <<storeVars, lock, passVars, replicas, tickVars, panicked, recent>>

Unlock(l) ==
  /\ At(l, "range") /\ left[l] = {}
  /\ lock' = Absent
  /\ GoTo(l, "wait")
  /\ UNCHANGED <<storeVars, passVars, replicas, tickVars, panicked, recent>>

-----------------------------------------------------------------------------
(* The prediction goroutines *)

\* A send on a full ResChan would block.
Predicted(l, p, f) ==
  /\ panicked = Absent
  /\ p \in running[l] /\ p.target # Absent
  /\ Len(results[l]) < cap[l]
  /\ running' = [running EXCEPT ![l] = @ \ {p}]
  /\ results' = [results EXCEPT ![l] =
                   Append(@, [key |-> p.key, votes |-> UnderThreshold(p.target, f)])]
  /\ UNCHANGED <<storeVars, lock, passVars, replicas, pc, cap, left, cur, want,
                 need, panicked, recent>>

\* Too little data, an untrained model, an unparsable target, no API server.
PredictFails(l, p) ==
  /\ panicked = Absent
  /\ p \in running[l]
  /\ running' = [running EXCEPT ![l] = @ \ {p}]
  /\ UNCHANGED <<storeVars, lock, passVars, replicas, pc, cap, left, results, cur,
                 want, need, panicked, recent>>

-----------------------------------------------------------------------------
(* After waitGroup.Wait: from the results to one number *)

\* waitGroup.Wait has returned.
Joined(l) == At(l, "wait") /\ running[l] = {}

NoResults(l) ==
  /\ Joined(l)
  /\ results[l] = <<>>
  /\ EndTick(l)
  /\ UNCHANGED <<storeVars, lock, passVars, replicas, panicked, recent>>

\* modelReplicas[k] after the loop over ResChan: the vectors of k's models.
ModelReplicas(pairs, k) ==
  FoldLeft(LAMBDA vs, r : IF r.key[1] = k THEN Append(vs, r.votes) ELSE vs,
           <<>>, pairs)

Answered(l) == {k \in Key : ModelReplicas(results[l], k) # <<>>}

\* The metrics of mReplicas: answered, and in MetricMap when it is read again.
Weighted(l) == {k \in Answered(l) : metricMap[k] # Absent}

\* mReplicas when the range over the map metricReplicas has the given order.
MReplicas(l, order) ==
  [i \in DOMAIN order |->
     MulSlice(metricMap[order[i]].weight, MaxStrategy(ModelReplicas(results[l], order[i])))]

SumPanics(m) == IF AddSlicePanics(m) THEN TRUE ELSE SelectMaxPanics(AddSlice(m))

\* What "weight the results and select" asks for: the peak of the weighted sum.
WeightedPeak(l) ==
  LET len   == {Len(MaxStrategy(ModelReplicas(results[l], k))) : k \in Weighted(l)}
      at(i) == MapThenSumSet(LAMBDA k :
                 LET v == MaxStrategy(ModelReplicas(results[l], k))
                 IN IF i \in DOMAIN v THEN metricMap[k].weight * v[i] ELSE 0,
                 Weighted(l))
  IN Max({0} \cup {at(i) \div 100 : i \in 1 .. Max({0} \cup len)})

Aggregate(l) ==
  /\ Joined(l)
  /\ results[l] # <<>>
  /\ \A k \in Answered(l) : ~StrategyPanics(ModelReplicas(results[l], k))
  /\ \E order \in SetToSeqs(Weighted(l)) :
       LET m == MReplicas(l, order)
       IN /\ ~SumPanics(m)
          /\ want' = [want EXCEPT ![l] = TruncDiv(SelectMax(AddSlice(m)), 100)]
  /\ need' = [need EXCEPT ![l] = WeightedPeak(l)]
  /\ GoTo(l, "scale")
  /\ UNCHANGED <<storeVars, lock, passVars, replicas, cap, left, running, results,
                 cur, panicked, recent>>

\* Mutant of AggregatePanics: no "continue" when no result was received.
AggregatePanicsOnNone(l) ==
  /\ Joined(l)
  /\ \A k \in Answered(l) : ~StrategyPanics(ModelReplicas(results[l], k))
  /\ \E order \in SetToSeqs(Weighted(l)) : SumPanics(MReplicas(l, order))
  /\ panicked' = "AddSlice"
  /\ UNCHANGED <<storeVars, lock, passVars, replicas, pc, tickVars, recent>>

\* An index out of range in MaxStrategy, AddSlice or Max ends the process.
AggregatePanics(l) ==
  /\ Joined(l)
  /\ results[l] # <<>>
  /\ \/ /\ \E k \in Answered(l) : StrategyPanics(ModelReplicas(results[l], k))
        /\ panicked' = "MaxStrategy"
     \/ /\ \A k \in Answered(l) : ~StrategyPanics(ModelReplicas(results[l], k))
        /\ \E order \in SetToSeqs(Weighted(l)) : SumPanics(MReplicas(l, order))
        /\ panicked' = "AddSlice"
  /\ UNCHANGED <<storeVars, lock, passVars, replicas, pc, tickVars, recent>>

-----------------------------------------------------------------------------
(* Scaler.UpTo: read, compare, cap, write *)

UpToRefuses(l) ==
  /\ At(l, "scale")
  /\ replicas >= want[l]
  /\ EndTick(l)
  /\ UNCHANGED <<storeVars, lock, passVars, replicas, panicked, recent>>

\* Mutant of Capped: no maximum.
Uncapped(n) == n

\* The count that UpTo writes.
Capped(n) == Smaller(n, MaxReplica)

\* Mutant of UpToDecides: the count is not compared.
UpToAlways(l) ==
  /\ At(l, "scale")
  /\ cur' = [cur EXCEPT ![l] = replicas]
  /\ want' = [want EXCEPT ![l] = Capped(want[l])]
  /\ GoTo(l, "set")
  /\ UNCHANGED <<storeVars, lock, passVars, replicas, cap, left, running, results,
                 need, panicked, recent>>

UpToDecides(l) ==
  /\ At(l, "scale")
  /\ replicas < want[l]
  /\ cur' = [cur EXCEPT ![l] = replicas]
  /\ want' = [want EXCEPT ![l] = Capped(want[l])]
  /\ GoTo(l, "set")
  /\ UNCHANGED <<storeVars, lock, passVars, replicas, cap, left, running, results,
                 need, panicked, recent>>

\* SetReplica reads the scale object again and writes the count it was given.
SetReplica(l) ==
  /\ At(l, "set")
  /\ replicas' = want[l]
  /\ EndTick(l)
  /\ UNCHANGED <<storeVars, lock, passVars, panicked, recent>>

\* GetReplica or SetReplica returns an error, which Run logs.
ScaleFails(l) ==
  /\ At(l, "scale") \/ At(l, "set")
  /\ EndTick(l)
  /\ UNCHANGED <<storeVars, lock, passVars, replicas, panicked, recent>>

-----------------------------------------------------------------------------
(***************************************************************************)
(* The reconciler gives the maps the contents of a config, one Store or    *)
(* Delete at a time: handleMetrics adds, deletes and then changes metrics, *)
(* handleModels stores and then deletes models, handlePredictor deletes    *)
(* and then adds predictors, which needs the lock that a tick holds.       *)
(***************************************************************************)
StartPass(c) ==
  /\ panicked = Absent /\ rpc = "idle"
  /\ goal' = c
  /\ rpc' = "metrics"
  /\ UNCHANGED <<storeVars, lock, replicas, pc, tickVars, panicked, recent>>

Added(map, new)   == {x \in DOMAIN new : map[x] = Absent /\ new[x] # Absent}
Removed(map, new) == {x \in DOMAIN new : map[x] # Absent /\ new[x] = Absent}
Changed(map, new) == {x \in DOMAIN new : map[x] # new[x]}

\* The first of the three loops that still has something to do.
NextMetrics ==
  LET add == Added(metricMap, goal.metrics)
      del == Removed(metricMap, goal.metrics)
  IN IF add # {} THEN add ELSE IF del # {} THEN del
     ELSE Changed(metricMap, goal.metrics)

ReconcileMetric(k) ==
  /\ panicked = Absent /\ rpc = "metrics"
  /\ k \in NextMetrics
  /\ metricMap' = [metricMap EXCEPT ![k] = goal.metrics[k]]
  /\ UNCHANGED <<modelMap, predictorMap, lock, passVars, replicas, pc, tickVars,
                 panicked, recent>>

NextModels ==
  LET del   == Removed(modelMap, goal.models)
      store == Changed(modelMap, goal.models) \ del
  IN IF store # {} THEN store ELSE del

ReconcileModel(w) ==
  /\ panicked = Absent /\ rpc = "models"
  /\ w \in NextModels
  /\ modelMap' = [modelMap EXCEPT ![w] = goal.models[w]]
  /\ UNCHANGED <<metricMap, predictorMap, lock, passVars, replicas, pc, tickVars,
                 panicked, recent>>

ReconcilePredictor(w) ==
  /\ panicked = Absent /\ rpc = "predictors" /\ CanLock
  /\ \/ /\ w \in predictorMap \ Listed(goal)
        /\ predictorMap' = predictorMap \ {w}
     \/ /\ w \in Listed(goal) \ predictorMap
        /\ predictorMap \subseteq Listed(goal)
        /\ predictorMap' = predictorMap \cup {w}
  /\ UNCHANGED <<metricMap, modelMap, lock, passVars, replicas, pc, tickVars,
                 panicked, recent>>

\* The handler at hand is done and the next one is called.
NextHandler ==
  /\ panicked = Absent
  /\ \/ rpc = "metrics" /\ metricMap = goal.metrics /\ rpc' = "models"
     \/ rpc = "models" /\ modelMap = goal.models /\ rpc' = "predictors"
     \/ rpc = "predictors" /\ predictorMap = Listed(goal) /\ rpc' = "idle"
  /\ UNCHANGED <<storeVars, lock, goal, replicas, pc, tickVars, panicked, recent>>

\* A user or another controller scales the target.
OthersScale(n) ==
  /\ panicked = Absent
  /\ replicas' = n
  /\ UNCHANGED <<storeVars, lock, passVars, pc, tickVars, panicked, recent>>

\* The UpdateInterval of w has passed since its last training.
IntervalPasses(w) ==
  /\ panicked = Absent /\ w \in recent
  /\ recent' = recent \ {w}
  /\ UNCHANGED <<storeVars, lock, passVars, replicas, pc, tickVars, panicked>>

-----------------------------------------------------------------------------
Locked(l) == \E w \in WithModelKey : Skip(l, w) \/ Dispatch(l, w)

Predicting(l) ==
  \E p \in running[l] : \/ \E f \in Forecasts[p.key[2]] : Predicted(l, p, f)
                        \/ PredictFails(l, p)

Deciding(l) ==
  \/ NoResults(l) \/ Aggregate(l) \/ AggregatePanics(l)
  \/ UpToRefuses(l) \/ UpToDecides(l) \/ SetReplica(l) \/ ScaleFails(l)

Reconciling ==
  \/ NextHandler
  \/ \E k \in Key : ReconcileMetric(k)
  \/ \E w \in WithModelKey : ReconcileModel(w) \/ ReconcilePredictor(w)

Next ==
  \/ \E l \in Loop : \/ Tick(l) \/ Locked(l) \/ TrainReturns(l) \/ Unlock(l)
                     \/ Predicting(l) \/ Deciding(l)
  \/ \E c \in Configs : StartPass(c)
  \/ Reconciling
  \/ \E n \in Counts : OthersScale(n)
  \/ \E w \in WithModelKey : IntervalPasses(w)

(***************************************************************************)
(* Fairness: the ticker ticks, goroutines run, Predict and Train return    *)
(* (their sockets answer or fail), and Go's RWMutex serves a waiting       *)
(* writer, so a loop or a pass that keeps finding the lock free again in   *)
(* the end gets it.                                                        *)
(***************************************************************************)
Fairness ==
  /\ \A l \in Loop :
       /\ SF_vars(Tick(l))
       /\ WF_vars(Locked(l)) /\ WF_vars(TrainReturns(l)) /\ WF_vars(Unlock(l))
       /\ WF_vars(Predicting(l)) /\ WF_vars(Deciding(l))
  /\ SF_vars(Reconciling)

Spec == Init /\ [][Next]_vars /\ Fairness

-----------------------------------------------------------------------------
(* Invariants *)

Points == {"tick", "range", "train", "wait", "scale", "set"}

Prediction == [key : WithModelKey, target : Int \cup {Absent}]

(***************************************************************************)
(* Every variable has its type, and nothing of a tick outlives it: no      *)
(* prediction goroutine and no result.                                     *)
(***************************************************************************)
TypeOK ==
  /\ metricMap \in [Key -> Metric \cup {Absent}]
  /\ modelMap \in [WithModelKey -> Model \cup {Absent}]
  /\ predictorMap \subseteq WithModelKey
  /\ lock \in Loop \cup {Absent}
  /\ goal \in Configs /\ rpc \in {"idle", "metrics", "models", "predictors"}
  /\ replicas \in Int
  /\ pc \in [Loop -> Points]
  /\ cap \in [Loop -> Nat]
  /\ left \in [Loop -> SUBSET WithModelKey]
  /\ running \in [Loop -> SUBSET Prediction]
  /\ results \in [Loop -> Seq([key : WithModelKey, votes : Seq(Int)])]
  /\ cur \in [Loop -> Int] /\ want \in [Loop -> Int] /\ need \in [Loop -> Int]
  /\ panicked \in {Absent, "MaxStrategy", "AddSlice"}
  /\ recent \subseteq WithModelKey
  /\ \A l \in Loop : pc[l] = "tick" => running[l] = {} /\ results[l] = <<>>

(***************************************************************************)
(* ResChan has room for every result still to come: no prediction          *)
(* goroutine blocks on its send, so waitGroup.Wait, which is reached       *)
(* before anything is received, cannot wait for ever.                      *)
(***************************************************************************)
ChanHasRoom ==
  \A l \in Loop : Len(results[l]) + Cardinality(running[l]) <= cap[l]

(***************************************************************************)
(* A tick ranges over the predictors it counted: while a loop is inside    *)
(* the range, what it has still to visit is in PredictorMap and no other   *)
(* loop is inside.                                                         *)
(***************************************************************************)
RangeIsExclusive ==
  \A l \in Loop : pc[l] \in {"range", "train"} =>
    lock = l /\ left[l] \subseteq predictorMap

\* "[0,100] each metric weight": no weight is below zero.
WeightsNonNegative ==
  \A c \in Configs : \A k \in Key : c.metrics[k] # Absent => c.metrics[k].weight >= 0

(***************************************************************************)
(* The scheduler never writes more replicas than the peak of the weighted  *)
(* forecasts needs, although MulSlice may wrap and AddSlice adds too       *)
(* little: with weights of zero and more every error is on the low side.   *)
(***************************************************************************)
NeverOverscales ==
  WeightsNonNegative =>
    \A l \in Loop : pc[l] \in {"scale", "set"} => want[l] <= need[l]

MetricKeys(c) == {k \in Key : c.metrics[k] # Absent}

(***************************************************************************)
(* What the aggregation takes for granted: all forecasts have one length,  *)
(* no config has more metrics than a forecast has points, and edits do not *)
(* add or remove metrics.                                                  *)
(***************************************************************************)
Aggregable ==
  /\ \A t, u \in Type : \A f \in Forecasts[t], g \in Forecasts[u] : Len(f) = Len(g)
  /\ \A c \in Configs : \A t \in Type : \A f \in Forecasts[t] :
       Cardinality(MetricKeys(c)) <= Len(f)
  /\ \A c, d \in Configs : MetricKeys(c) = MetricKeys(d)

(***************************************************************************)
(* Where that holds MaxStrategy, AddSlice and Max never index out of       *)
(* range, whatever the order in which goroutines answer, fail and find     *)
(* targets, weights and models edited under them.                          *)
(***************************************************************************)
NeverPanics == Aggregable => panicked = Absent

-----------------------------------------------------------------------------
(* What a step may not do *)

(***************************************************************************)
(* UpTo lowers the count only when another writer changed it between the   *)
(* read and the write, or when it was above MaxReplica already: with no    *)
(* race and a count in bounds, scaling up does what its name says.         *)
(***************************************************************************)
LowersOnlyWhenRaced ==
  [][\A l \in Loop : SetReplica(l) /\ replicas' < replicas =>
       replicas # cur[l] \/ cur[l] > MaxReplica]_vars

\* The round of ScalingRound that the tick of each loop carries out.
Round == INSTANCE ScalingRound WITH
  Voter   <- WithModelKey,
  alive   <- panicked = Absent,
  phase   <- [l \in Loop |-> CASE pc[l] = "tick" -> "closed"
                               [] pc[l] \in {"range", "train", "wait"} -> "voting"
                               [] pc[l] \in {"scale", "set"} -> "decided"],
  pending <- [l \in Loop |-> left[l] \cup {p.key : p \in running[l]}],
  voted   <- [l \in Loop |-> {r.key : r \in Range(results[l])}]

(***************************************************************************)
(* Every tick is a round of ScalingRound: no predictor votes twice, none   *)
(* is waited for in vain, no vote is counted in a later tick, and there is *)
(* at most one write per tick, of at most MaxReplica, decided when every   *)
(* goroutine has returned.                                                 *)
(***************************************************************************)
TicksAreRounds == Round!Spec

-----------------------------------------------------------------------------
(* Liveness *)

\* A tick, once started, ends.
TicksComplete ==
  \A l \in Loop : pc[l] # "tick" ~> (pc[l] = "tick" \/ panicked # Absent)

\* A reconcile pass is not shut out of PredictorMap for ever.
PassesComplete == rpc # "idle" ~> (rpc = "idle" \/ panicked # Absent)

-----------------------------------------------------------------------------
(* Claims of the comments that the code does not keep *)

\* "UpdateInterval show when to update the model": not before it has passed.
TrainsOncePerInterval ==
  [][\A l \in Loop, w \in WithModelKey :
       Dispatch(l, w) /\ modelMap[w].needTrain => w \notin recent]_vars

\* The selected count is the peak of the weighted sum of the metrics.
ScalesToNeed ==
  \A l \in Loop : pc[l] = "scale" => want[l] = need[l]

\* UpTo refuses a target below the current count, so it never lowers it.
UpToNeverLowers ==
  [][\A l \in Loop : SetReplica(l) => replicas' >= replicas]_vars

\* Models with the same LookForward can be aggregated.
ModelsAggregate == panicked # "MaxStrategy"

=============================================================================
