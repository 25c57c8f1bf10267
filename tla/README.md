# AOM: models, checks and proofs

AOM is a Kubernetes operator that scales a workload ahead of demand.  An `AOM`
object names a scale target, metrics (PromQL queries with a target and a
weight) and, for each metric, prediction models (GRU, Holt-Winters).  The
operator collects samples, asks the models for a forecast at every tick, turns
the forecasts into a replica count and raises the target's `spec.replicas`.

This directory holds TLA+ modules that model the operator's own control logic,
TLC configurations that check them on small instances, and TLAPS proofs for all
instances.  `PROJECT.json` maps every definition to source lines and lists the
runs, mutants, findings, hazards and theorems.

## 1. Inventory

| part | source | state | operations |
|---|---|---|---|
| Reconciler | `controllers/aom_controller.go` | `Handler.instance`, `promcOnce`/`pCollector`, the object's `Hide` | `Reconcile`, `Handle`, `handleCreate`, `handleUpdate`, `handleMetrics`, `handleModels`, `handleCollector`, `handlePredictor`, status update |
| Collector goroutines | `StartWorker` | local `end`, `stopC`, entry in `CollectorWorkerMap` | one tick: leave, notice the stop, or `Collect` |
| Store | `common/store`, `common/aomtype`, `utils/concurrent_map.go` | `globalStore` (a `Hide` per object, no lock); in a `Hide`: `MetricMap`, `ModelMap`, `PredictorMap`, `CollectorWorkerMap` (each with its RWMutex), `CollectorMap` (none), `TrainHistory`, `Scaler` | `GetHide`, `Load`, `Store`, `Delete`, `Lock` |
| Scheduler | `scheduler/scheduler.go` | per tick: `ResChan`, `waitGroup`, the result maps | `Run`: range under the lock, goroutines, train, aggregate, scale |
| Scaler | `scaler/*.go`, `utils/common.go` | `MaxReplica`, `MinReplica`, target | strategies, `UpTo` (`DownTo` has no caller) |
| Kubernetes client | `clients/k8s` | `GlobalClient`, `once` | `NewClient`, `GetReplica`, `SetReplica` |
| Prometheus collector | `collector/prometheus_collector` | one per process: client, `MetricQL`; the worker's `data` | `SetServerAddress`, `AddCustomMetrics`, `CreateWorker`, `Collect`, `Send`, `DataCap` |
| GRU predictor | `predictor/GRU` | `readyToPredict`, `MetricHistory`, sockets | `New`, `Predict`, `Train`, `WaitAndUpdate` |
| Holt-Winters | `algorithms/holt_winter` | parameters | `Predict`, smoothing |
| Python server | `algorithms/DL/main.py`, `net.py` | the listening socket, the global `param`, one `.pt` file per key | accept, predict, train, report; one process per GRU predictor |
| Socket request | `utils/socket.go` | the connection | dial, write up to a newline, read the answer |

How they interact.  The API server's watch fills controller-runtime's cache and
queue; one worker runs `Reconcile` at a time.  The reconciler edits the maps of
the object's `Hide`; `StartWorker` goroutines and `Scheduler.Run` read them
concurrently.  Predictors share the metric's collector worker.  The scheduler
writes the scale subresource, which users and other controllers write too.  Every
GRU predictor starts a Python server; all servers bind one path, so the last one
to start gets the requests of all predictors.  The end of a training comes back
on another path, which all waiting predictors bind in turn.  Several objects
share the process: the global store and the one Prometheus collector.

What is hard here:

* a pass may fail or be repeated at every early return, with the maps half
  edited; the only persistent record of progress is `status.generation`;
* the process may die with everything in memory, and starts again from a status
  that vouches for state that is gone;
* stop channels, worker registrations and predictors of a metric must stay
  consistent while goroutines tick between the steps of a pass;
* the scheduler holds `PredictorMap`'s lock while it trains, and receives from
  `ResChan` only after every sender has finished;
* `w.data` is shared by the collector and all predictors of a metric without a
  lock, and every `Send` empties it;
* a training's answer races the goroutine that is to listen for it, and other
  trainings that use the same path; a server that fails takes its path with it;
* a `Hide` is looked up in an unlocked map by goroutines of all objects, and the
  server address of the one collector is that of the last pass;
* stored addresses of range variables (go 1.19) alias one another, and what the
  loops leave depends on Go's map order.

What makes the parts correct: registered collectors run and no other one does;
predictors read the registered collector; a reported generation means the maps
are those of the spec; stopped collectors end; generations get reported; ticks
and passes end; no result is lost to a full channel; the count asked for is
justified by the forecasts; a tick is one round of votes with at most one write;
a window of samples has no holes and is as long as was checked; a call to a model
returns; a model that says it is ready is trained; a name has one `Hide`; the
smoothing continues what it was fitted to.  `PROJECT.json`
lists the hazards line by line, with the properties that watch them.

## 2. Modules and how they correspond to the code

### AOMController

One AOM object, its API server copy (`obj`, `rv`), the informer `cache`, the
queue, the process, and the object's `Hide`.  A spec is keyed by `NoModelKey`:
the CRD's own keys matter only for joining models to metrics.  What distinguishes
two metrics with one key (target, weight) is a model value, likewise a model's
attributes.

* A pass is a program counter: `create -> metrics -> models -> collector ->
  stop/unregister -> predictor -> schedule -> status`.  Each handler is one
  action, except `handleCollector`, which is split at `close(stopC)` and
  `Delete` because goroutines can see the state in between.  Error returns are
  actions or disjuncts of their own (`AddPredictorFails`,
  `ChangePredictorFails`, the orphan branch of `HandleModels`), with the partial
  effects of the loops up to the return, in any map order.
* `handleMetrics` and `handleModels` model the pointers to the loop variable:
  `AddAndDelete`, `ChangeLoop` and `StoreModels` give the contents that the loops
  can leave.
* A worker is a number per key; `collectorMap[k]` is the number whose stop
  channel the map holds, `workerMap[k]` the registered worker, `live` the
  goroutines with their `end` flag, `closed` the closed channels.
* Panics (`CloseStopCPanics`, `StartWorkersPanics`, `SchedulerPanics`) end the
  process: controller-runtime v0.14.1 does not recover them by default.
  `ProcessEnds` clears what is in memory and `Restart` is `main` with the initial
  list that enqueues the object.
* The scheduler appears as the number of `Run` goroutines.

External parts (user, API server with optimistic concurrency, cache, queue,
crash) are modelled from how the code uses them.

### Reconciliation, and how AOMController implements it

`Reconciliation` is what the reconciler promises with passes, caches, workers and
the order of its handlers left out: a spec is taken up, perhaps an old one; while it
is, entries are only added that it has and only removed that it lacks; an error
leaves what was done; a spec is reported when all of it, and nothing else, is
installed; a reported spec is only taken up again where that changes nothing; the
process may forget everything.  `AOMController` instantiates it as `Promise`:

* `wanted` and `goal` are the metric, model and predictor keys of the object's spec
  and of the copy the pass works on (`Wanted`); `busy` is a pass under way;
* `installed` is what `MetricMap`, `ModelMap` and `PredictorMap` hold;
* `status` is "reported" when `status.generation` equals the generation.

`PassesKeepPromise == Promise!Spec` is checked as a property of the reconciler, and
`ReportedKeys == Promise!Kept` as an invariant: a reported generation means maps
with exactly its keys, or, after a restart, empty ones.  Whether an entry's content
is the spec's is another matter, which `controller_alias` refutes.

### ScalerStrategy

The strategies and slice helpers as operators: `CeilDiv` for `math.Ceil` of the
quotient, `Int32`/`ToInt32` for wrapping and out-of-range conversion with a width
given by `Half`, `TruncDiv` for Go's integer division.  Index panics are predicates
(`StrategyPanics`, `AddSlicePanics`).

Metric values are whole multiples of some unit, and below 2^53 of it.  Then
`UnderThreshold`, which takes the ceiling of a single quotient, does not see the
rounding of float64: a whole quotient is exact, and one that is not whole is at least
`1/target` above the whole number below it, more than the rounding can take away.

### SteadyStrategy

`Steady` divides, multiplies and then takes the ceiling, so the rounding of its
quotient matters for whole numbers too: 100 replicas whose load goes from 10 to 11
become 111.  The module has floats of `Bits` significant bits (53 in the code):
`Nearest` rounds a fraction to the nearest float, ties to even, and `Steady` rounds
the quotient and the product.  Infinities and subnormal numbers are left out
(`MaxExp` bounds the exponents), except the quotient by zero.  Nothing but
`scaler_test.go` calls `Steady`, so the module stands beside `ScalerStrategy`, which
the scheduler uses.

### Scheduler

`Run` as one program counter per loop: `tick -> range (-> train) -> wait ->
scale -> set`.  `Tick` takes the lock and sizes `ResChan`; `Dispatch` starts the
goroutine with the metric it read; `Predicted` sends only when the channel has
room; `Aggregate` and `AggregatePanics` choose an order for the range over
`metricReplicas`; `UpTo` is split between its read and its write.  The reconciler
runs beside it one `Store` or `Delete` at a time, in the handlers' order; `Configs`
are the contents a pass may leave in the maps (aliased ones included: a config is
any assignment of metrics to keys).  More than one loop is what a repeated
`handleCreate` produces.  `recent` and `need` are history variables.

### ScalingRound, and how Scheduler implements it

`ScalingRound` is what `Run` promises with locks, channels and arithmetic left
out: a round opens without a vote, invited predictors vote or abstain once, a
round without votes changes nothing, and a round with votes ends in at most one
write, of a count in `0 .. MaxReplica`.  `Scheduler` instantiates it as `Round`:

* `phase`: `range`, `train` and `wait` are "voting", `scale` and `set` "decided",
  `tick` "closed";
* `pending`: the predictors not dispatched yet and the goroutines that have not
  finished;
* `voted`: the predictors whose results are in `results`, the contents of `ResChan`;
* `alive` and `replicas` are the process and the target's count.

`TicksAreRounds == Round!Spec` is checked as a property of the scheduler: results
of one tick never reach the next, and a write is always preceded by its own votes.

### MetricWindow

One worker and the predictors built on it.  `Collect` is a read and a write;
`Send` is a make, a copy and an emptying step; a call is a pair of a reader and
an operation (`New`, `Predict`, `Train`).  A slice header is read and written in
one step; torn headers, which Go's memory model would also allow, are left out.
Samples are numbered, and 0 is the zero value a `make` leaves.  `robbed` is a
history variable: the calls that another `Send` emptied the slice under, after
they had checked its length.

### GRUTraining

The GRU predictors, their servers and the sockets.  `New` starts a server and may
still fail; `Predict` and `Train` need a listener with room in its backlog.
`WaitAndUpdate` is a stat, a remove, a listen and an update, because other
waiters act in between; the store of `readyToPredict` and the deferred `Close`
are one step, and so are a server's test for its path, its removal, `bind` and
`listen`.  A server takes one connection at a time; `param.n_layers` is its
global, set by training requests only.  An exception ends it (`Dies`): its
clients read the end of the stream, and the file at its path goes, even when a
later server has bound it.  What the network computes is left out; that it is
saved, with how many layers, is kept (`file`).  `disturbed` records that
trainings overlapped, an answer came before its listener, or a read was short.

### SharedStore

Several objects in one process: `GetHide` as the unlocked lookup, allocation and
write that it is (a write is begun and ended, so that a goroutine's read can fall
in between, on which the runtime aborts), and the one `pCollector` whose client
`SetServerAddress` replaces while workers of other objects are created.  What a
pass does inside a `Hide` is in `AOMController`.

### HoltWinter

`initialTrend`, `initialSeasonalComponents` and the smoothing loop over exact
fractions, with recursive functions; `SmoothingPanics` collects the index and
division panics.  float64 rounding is left out.

### MC modules

`MCController`, `MCScheduler`, `MCWindow`, `MCTraining` and `MCShared` give the
constants small values.  `MCAlgorithms` drives the strategies over a grid of
forecasts and `HoltWinter` over all short series, and states the reference
definitions; `AlgorithmsAssumption` names what the proofs need of the grid
(positive targets, integer forecasts), so that they hold for every grid.

## 3. Runs

Passing runs:

| run | shows |
|---|---|
| `controller_safety` | types and pass bookkeeping; collectors, registry and predictors consistent; `ReconciledKeys`; passes implement `Reconciliation` (`PassesKeepPromise`), through errors, repetitions, stale reads and a crash; what is reported is all there or all forgotten (`ReportedKeys`) |
| `controller_liveness` | every generation is reported in the end, with a scheduler running (`Converges`); stopped collectors end (`StoppedCollectorsExit`) |
| `scheduler_tick` | a tick implements a round (`TicksAreRounds`); channel capacity, exclusive range, no index panic, never above the weighted need; `UpTo` lowers the count only after a race or above the maximum |
| `scheduler_live` | ticks and passes end, with forecasts of different lengths too |
| `window_race` | samples and copies are consecutive under all races; a call that was not robbed has the window it checked for and moves forward |
| `gru_calls` | a waiting `Predict` is held by one living server and returns; saved networks have the layers of their model; answers go astray, and untrained models become ready, only when disturbed |
| `shared_objects` | a name has one `Hide`; workers that `handleCreate` starts query their object's server; a write of the global map meets goroutines of other objects only |
| `algorithms` | strategies equal their reference definitions; `Steady` never asks for too few replicas and for at most one too many (`SteadyTracksLoad`); the smoothing is affine and continues lines and periods |

Runs that refute what a comment or a document says ("findings" in
`PROJECT.json` quotes it):

| run | shows |
|---|---|
| `controller_alias` | with two metrics a key gets the target and weight of another |
| `controller_restart` | after a restart a reconciled object is scaled by nobody (without a crash the property holds) |
| `scheduler_sum` | a peak beyond the first point of the horizon is not scaled for |
| `gru_stray` | two overlapping trainings: the answer for one model makes the other one ready |

Further configurations for questions met on the way, kept beside the runs.  In
each of them TLC refutes the property named, which is defined with the model
(`MCController_wide` and `MCScheduler_two` are the exceptions: they pass, in one to
three minutes):

| configuration | property | what happens |
|---|---|---|
| `MCController_wide` | the invariants of `controller_safety` | hold with one more revision (`MaxRv` 5), where the refinement would take too long |
| `MCController_idempotent` | `HandleCollectorIdempotent` | a removed metric's channel is closed again by the next pass |
| `MCController_stale` | `PredictorsMatchSpec` | a changed model whose pass failed elsewhere is never rebuilt |
| `MCController_bounds` | `ScalerMatchesSpec` | an edit of `maxReplicas` never reaches the scaler |
| `MCController_onesched` | `OneSchedulerPerInstance` | a repeated `handleCreate` starts a second `Run` |
| `MCController_client` | `AlwaysConverges` | a failing first `newClient` spends the `sync.Once`: the scheduler runs with a nil client |
| `MCController_readd` | `AlwaysConverges` | a metric removed and added again gets no collector: every pass fails |
| `MCController_crashloop` | `AlwaysConverges` | an edit made while the process is down meets a nil `pCollector` after every restart |
| `MCAlgorithms_sum` | `AddSliceIsSum` | `AddSlice` adds one element per slice |
| `MCAlgorithms_steady` | `SteadyIsLeast` | the rounded quotient, times the replicas, is just above a whole number: one replica too many |
| `MCScheduler_train` | `TrainsOncePerInterval` | `TrainHistory` is never written: training at every tick |
| `MCScheduler_lower` | `UpToNeverLowers` | the cap is applied after the comparison: a target above `maxReplicas` is scaled down |
| `MCScheduler_lengths` | `ModelsAggregate` | Holt-Winters answers with its window too: `MaxStrategy` indexes out of range |
| `MCScheduler_two` | `RangeIsExclusive`, `ChanHasRoom`, `LowersOnlyWhenRaced`, `TicksAreRounds` | hold with two `Run` loops beside the reconciler |
| `MCWindow_gru` | `EnoughForWindow` | GRU checks `LookForward` samples and slices `LookBack` |
| `MCShared_server` | `WorkersUseOwnServer` | an update of one object starts workers on the server of the object reconciled last |

Preconditions of the passing runs, visible in their constants:

* `Converges` is checked for specs that can be built.  It allows the process to
  end and a metric to be orphaned by its removal; the configurations `readd` and
  `crashloop` show that neither exception can be dropped.
* `NeverPanics` is claimed where `Aggregable` holds, as it does for the constants
  of its run: forecasts of one length, not fewer points than metrics, and edits that
  neither add nor remove a metric.  `MCScheduler_lengths` and `scheduler_live` drop
  these, without claiming it.
* `NeverOverscales` is claimed for weights of zero and more, which is what the
  comment on `Weight` says of them (`WeightsNonNegative`).  Nothing checks it of a
  spec, and a negative weight turns a smaller summand into a larger one.
* `EnoughUnlessRobbed` and `UsesAdvance` speak of calls that no other `Send`
  overtook, and of a check equal to the window (`MCWindow_gru` drops the latter).
* `StrayOnlyWhenDisturbed` and `ReadyIsTrained` speak of trainings that do not
  overlap, whose answers find their listener and are read whole; `gru_stray` drops
  the first.
* `SteadyTracksLoad` speaks of products up to a quarter of `2^Bits`, as a replica
  count times a metric is in the code; beyond that the rounding may also cost a
  replica.
* `LowersOnlyWhenRaced` allows a count that changed between `UpTo`'s read and its
  write, and one above `MaxReplica`; `MCScheduler_lower` shows the latter.

Bounds.  Two keys and two model types are enough for every loop to have an
iteration before and after the one that fails, and for one metric to keep what
another loses.  `MaxRv` (4 to 6 revisions) covers create, status, two or three
edits with their status updates, and delete followed by create; `MaxFaults` and
`MaxCrashes` of 1 or 2 put one disturbance, or two, at every point.  `MaxSample`
lets every reader take a window twice.  `MaxReplica` 2 with counts 1 and 3 lets
the cap bite and the target be above it.  Two GRU predictors with different layer
counts, two trainings of one and one of the other, and a backlog of one let
trainings of the same and of different models overlap, a server lose its path to
another, and a dial be refused.  Two objects, one metric, two servers and an
invalid address, each object edited once, let every pass of one object fall before,
into or after a goroutine of the other; the names are interchangeable, hence the
symmetry.  `Half` only has to exceed the values of the run.  `Bits` of 13 keeps TLC's
integers small; with 25 replicas some quotients are exact, some rounded up (11/5)
and some down.  Deadlock checking is off where a bound, a dead process or a user
who rests may stop the system.

Fairness.  Reconciler: the informer delivers, the queue hands out its key and a
pass goes on (weak fairness of `CacheSync` and `PassStep`: controller-runtime
requeues failed keys), tickers tick (`WorkerStep`), the Deployment restarts a
dead process (`Restart`).  Users, faults and crashes owe nothing.  Scheduler:
the ticker and the goroutines run; `Predict` and `Train` return, because a
request carries its end of line (`SetBody`) or closes its connection, and the
single-threaded server answers after a finite training or drops the connection
when it fails; strong fairness of `Tick` and of the reconciler's steps stands for
Go's RWMutex, which serves a waiting writer.  GRU: servers and waiting goroutines
run and trainings end (weak fairness of `ServerStep` and `WaiterStep`); nobody has
to ask for a forecast or a training.

## 4. Proofs

Seven modules hold theorems and lemmas.  Each proves its facts for all values of the
constants that satisfy the assumption of its model, which asks for types and
distinct model values only:

| module | theorems | from |
|---|---|---|
| `AOMControllerProofs` | `TypeCorrect`, `CollectorsConsistent`, `CollectorsNotStray`, `CollectorsAlive`, `PredictorsConsistent`, `KeysConsistent`, `KeysReconciled`, `PromiseKept`, `ReportsKept` | `ConstantsAssumption`, `SpecsAssumption` (a spec is well typed and lists a model type once per metric), `ObjectAssumption` (`Absent` is no object) |
| `SchedulerProofs` | `TypeCorrect`, `SendsNeverBlock`, `RangesExclude`, `LoweringIsARace`, `RoundsAreKept`, `NoOverscaling`, `NoPanics` | `SchedulerAssumption` (finitely many keys and model types) |
| `MetricWindowProofs` | `TypeCorrect`, `WindowConsistent`, `DataConsecutive`, `CopyConsecutive`, `EnoughForTheWindow`, `CallsUseNewSamples` | `WindowAssumption` |
| `GRUTrainingProofs` | `TypeCorrect`, `CallsAreServed`, `FilesAreOwn`, `AnswersStrayOnlyWhenDisturbed`, `ReadyModelsAreTrained` | `TrainingAssumption` |
| `SharedStoreProofs` | `TypeCorrect`, `HidesAreShared`, `FirstWorkersUseOwnServer`, `WritesAreNotOwn` | `StoreAssumption` |
| `AlgorithmsProofs` | `MaxStrategyLeast`, `UnderThresholdLeast`, `StrategiesOrdered` | `AlgorithmsAssumption`; the second also `QuotientsFit`, the third `SumsFit` |
| `ScalerStrategyProofs` | lemmas on the strategies that the two modules above cite | `HalfAssumption` |

Every safety invariant, action property and refinement that a passing run checks
is among them, except the three on Holt-Winters and `SteadyTracksLoad`.
`PROJECT.json` says of each theorem which property of the runs it states.  Few of
these properties are inductive.  What each proof adds to them:

**Collectors of AOMController.**  `CollectorInv` adds `WorkerNumbers` (numbers
are fresh, and an entry of `CollectorMap` outlives its worker, so a key is never
given a second worker), `StopList` (what the pass is about to stop is not in its
spec) and `PastModels` (a pass beyond `handleModels` has a metric for every
model, so that a predictor about to be kept or built has a collector that was not
stopped).  The proof has one step per action; actions that leave workers and
predictors alone share the lemmas `QuietStep` and `PassMoves`.

**Keys of AOMController.**  `ReconciledKeys` says that a reported generation
means maps with the keys of the spec.  It alone does not survive a step, because
a pass may read a cache that lags behind the status just written, and run again
over maps that are right.  `KeysInv` has four parts.  `Versions`: two copies of
the object with one revision are the same object, so a status update that the API
server accepts was made for the newest spec.  `PassProgress`: what the handlers of
the pass have done by now, through every error return and repetition.
`ReportedIsReconciled`: once the status is current, whatever copy this process may
still read has the same spec, so that a further pass changes no keys.
`DeadIsEmpty`: a new process inherits nothing.  `ReconciledKeys` excludes the
process that has not passed over the object since its start (`runs > 0`), which is
what `controller_restart` refutes.

**Reconciliation.**  `PromiseKept` is the refinement: `Init => Promise!Init`, and
under `KeysInv` every action of the reconciler is the action named in its step or a
stutter.  The lemma `PassToward` says what every handler may do to the entries, with
`EntriesToward` reducing it to the three key sets; `KeysMatchInstalled` turns the keys
of `PassProgress` into the equality of entries that `Report` asks for, and `Versions`
shows that the status the API server accepts is that of the pass's own spec.
`ProcessEndsForgets` covers crashes and panics.  `ReportsKept` then uses the abstract
steps alone: `KeptInv` adds to `ReportedKeys` that a pass over a reported object has
its spec for a goal and finds it installed.

**Scheduler.**  `SchedInv` strengthens `ChanHasRoom` to `RoomForAll` (results,
running goroutines and predictors not yet visited together fit into the channel),
and adds `OneEach` (a predictor is waited for, running or answered, and only one of
these), `StagesAgree` (what a loop holds at each point of its tick) and
`CountsInBounds` (a count about to be written is at most `MaxReplica`, and above the
one read unless it is capped).  `TypeOK` needs the aggregation to yield integers for
any order of the results, hence the lemmas on folds.

**ScalingRound.**  `RoundsAreKept` is the refinement: `Init => Round!Init`, and
under `SchedInv` every action of the scheduler is the action of the round named in
its step (`Tick` opens, `Skip` and a failed prediction abstain, `Predicted` votes,
`Aggregate` decides, `SetReplica` closes with a write) or a stutter (`Dispatch`
moves a predictor from the range to the running ones, training, `UpTo`'s read and
the reconciler leave the round alone).

**The number that is asked for.**  `NoOverscaling` rests on `LowSide`: the weights in
`MetricMap` are not negative, and from `Aggregate` on `want` is at most `need`, the
peak of the weighted sum.  `AddSlice` takes one element of each weighted vector, an
int32 product that wraps can only be smaller (`Int32AtMost`), and one summand of the
sum at that point of the horizon is at most the whole sum (`SumCovers`), because the
others are not negative; so the number holds for any map order and any overflow of
the products, although the sum itself is wrong (`scheduler_sum`).  `NoPanics` rests
on `InRange`: under `Aggregable` every running or answered prediction still has its
metric in `MetricMap`, whatever `ReconcileMetric` stores meanwhile, and every vector
has the length of the forecasts.  Then `MaxStrategy` indexes inside the first vector
(`SameLengthMerges`), at least one metric and at most as many as the forecast has
points reach `AddSlice` (`ShortSumsAreInRange`), and `utils.Max` gets a non-empty
slice.

**MetricWindow.**  `WindowInv` adds what the half-done `append` has read and that no
slice is longer than the samples collected.  `EnoughForTheWindow` rests on
`EnoughInv`: between its check and its copy a call that was not robbed still finds
as many samples as it checked for, because `Collect` never writes back fewer than
are there and only a `Send` empties.  `CallsUseNewSamples` is an action property; it
rests on `AdvanceInv`: a worker that has samples has one newer than any that a call
used, although a racing `Collect` may bring back samples that were sent.

**GRUTraining.**  `TrainingInv` adds `ServersAgree` and `WaitersAgree` (what a server
does agrees with what it holds; only a listener is sent to), `PredictsHeld` and
`PredictsOnce` (a predictor waits exactly if its request is at one place of one
server), and `InOrder`: unless disturbed there is one waiter, its training is at one
place, and the answer it gets is for its own model, whose network is saved.

**SharedStore.**  `StoreInv` adds that the `Hide` of a pass is in the map after its
first `GetHide`, that only this pass writes the first one, and that from
`handleCreate` on the collector has the address of the pass.

**Strategies.**  The strategies fold over sequences.  The library's induction
theorems cannot be instantiated here, so `ScalerStrategyProofs` derives what it needs
from the fact that strict inclusion is well-founded on finite sets: `LeastNumber` (a
set of numbers has a least element), from it `Induction` over a set of numbers, and
from that `FoldExists`, `FoldStays` and their counterparts for slices, which say what a
fold over an index set is and what it keeps.  `MaxStrategyIsGreatest` and
`MaxStrategyOfSameVectors` then give `MaxStrategyLeast`: the pointwise maximum of
zero and the votes, in whatever order the goroutines sent them.
`UnderThresholdLeast` assumes `QuotientsFit`: no quotient of the forecasts and the
target leaves the range of an int32.  Without it the conversion gives the least
int32 and the claim is false.  `StrategiesOrdered` adds the loops of the other two:
`MinStrategyIsLeast`, and `MeanStrategyBetween`, where after k models the sum is
between k times any bounds of the votes.  `SumsFit` keeps it from wrapping: there is
a bound on the quotients of which `MaxModels` times fit an int32.

Each inductive invariant was model-checked before it was proved: `CollectorInv` and
`KeysInv` on `MCController_wide`, `SchedInv` on `MCScheduler_tick` and
`MCScheduler_two`, `WindowInv`, `EnoughInv` and `AdvanceInv` on `MCWindow_race`,
`TrainingInv` on both configurations of `MCTraining`, `StoreInv` on
`MCShared_objects`, `KeptInv` on `MCController_safety`, `LowSide` and `InRange` on
`MCScheduler_tick`.

Only model-checked:

* liveness, whose fairness is out of the prover's reach: `Converges`,
  `StoppedCollectorsExit`, `TicksComplete`, `PassesComplete`, `CallsReturn`;
* `ForecastIsAffine`, `LineContinues`, `PeriodContinues`: recursive functions over
  fractions in lowest terms (a recursive greatest common divisor), whose values for
  every input need induction over the series and nonlinear arithmetic over all of
  its fractions;
* `SteadyTracksLoad`: bounds on two roundings with an exponent that is chosen, which
  is nonlinear arithmetic over powers of two.

## 5. Not modelled

The neural network's arithmetic, torn reads of slice headers, float64 rounding
outside `Steady`, the splitting of a socket stream into bytes (that a read may
be short is kept for the training's answer), parsing of attributes, `DownTo`,
`GetObjReplica`, `RecvChan`, `NewScaleClient` and other code without callers,
generated deep copies, manifests, logging and plots.  The abort of the Go runtime
on a concurrent access to `CollectorWorkerMap.Data` (`scheduler.go:131`) is not
an action of its own: the loop only logs, and a process that ends at any point
is in `AOMController`.

## 6. Plan

Done: `AOMController` with its abstract specification `Reconciliation`,
`ScalerStrategy`, `SteadyStrategy`, `Scheduler` with its abstract specification
`ScalingRound`, `MetricWindow`, `GRUTraining`, `HoltWinter`, `SharedStore`,
their runs, and the seven proof modules.  Left, should the code change there:

1. When `TrainHistory` is written or `AddSlice` repaired, the refuted properties
   `TrainsOncePerInterval`, `AddSliceIsSum` and `ScalesToNeed` become the invariants
   to prove; the fold lemmas are ready for the sum.
2. The liveness properties, once a prover for fairness is at hand.
