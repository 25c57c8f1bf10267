---------------------------- MODULE AOMController ----------------------------
(***************************************************************************)
(* The reconciler of one AOM object: controllers/aom_controller.go with    *)
(* the in-memory store (common/store, common/aomtype) that it fills, the   *)
(* collector goroutines it starts and stops, and the API server, informer  *)
(* cache and work queue it runs against.                                   *)
(*                                                                         *)
(* controller-runtime runs one Reconcile at a time; the interleaving is    *)
(* between that pass, the user who edits the object, the cache that lags   *)
(* behind, the collector goroutines, API errors and process crashes.       *)
(***************************************************************************)
EXTENDS Naturals, Sequences, FiniteSets

CONSTANTS
  Key,          \* NoModelKeys: what Metric.NoModelKey() formats
  Conf,         \* the rest of a Metric (target, weight, scaleDownConf)
  Type,         \* model types
  Attr,         \* the rest of a Model (needTrain, updateInterval, attr)
  Unbuildable,  \* the models predictor.NewPredictor returns an error for
  Specs,        \* the AOMSpecs the user may write
  Absent,       \* a missing map entry, object or pointer
  MaxRv,        \* bound: API-server revision after which the user rests
  MaxFaults,    \* bound: stale reads and transient API errors
  MaxCrashes    \* bound: times the process is killed from outside

Metric == [key : Key, conf : Conf]
Model  == [type : Type, attr : Attr]

\* An entry of PredictorMap: its model, and the worker whose data it reads.
Predictor == [model : Model, worker : Nat]

(***************************************************************************)
(* An AOMSpec.  The CRD keys Metrics and Models by a name of the user's    *)
(* choice; a spec whose metrics have pairwise different NoModelKeys can be *)
(* keyed by those.  addrOk: api.NewClient accepts Spec.Collector.Address.  *)
(***************************************************************************)
SpecType == [metrics : [Key -> {Absent} \cup Conf],
             models  : [Key -> {Absent} \cup Seq(Model)],
             max     : Nat,
             addrOk  : BOOLEAN]

ASSUME ConstantsAssumption ==
  /\ Absent \notin Conf
  /\ Absent \notin Model
  /\ Absent \notin Metric
  /\ Absent \notin Predictor
  /\ Absent \notin Nat
  /\ Absent \notin Key
  /\ Unbuildable \subseteq Model
  /\ MaxRv \in Nat /\ MaxFaults \in Nat /\ MaxCrashes \in Nat

ASSUME SpecsAssumption ==
  \A s \in Specs :
    /\ s \in SpecType
    /\ \A k \in Key : s.models[k] # Absent =>
         \A i, j \in DOMAIN s.models[k] :
           s.models[k][i].type = s.models[k][j].type => i = j

-----------------------------------------------------------------------------
VARIABLES
  obj,          \* the AOM object in the API server, or Absent
  rv,           \* the API server's revision counter
  cache,        \* the informer cache's copy of obj
  queued,       \* the object's key is in the work queue
  proc,         \* "up", or why the controller process ended
  pc,           \* where the current pass of Handler.Handle is
  inst,         \* hdlr.instance, or Absent between passes
  changes,      \* the keys of changeMap
  todo,         \* handleCollector's toDelete list
  stopping,     \* the key whose stopC is closed and not yet unregistered
  client,       \* k8s.GlobalClient: "unset", "ok", or "nil" once.Do spent
  pCollector,   \* the package variable pCollector is set
  scaler,       \* hide.Scaler: its MaxReplica, or Absent
  metricMap,    \* hide.MetricMap
  modelMap,     \* hide.ModelMap
  collectorMap, \* hide.CollectorMap: number of the worker owning stopC, 0: none
  workerMap,    \* hide.CollectorWorkerMap: number of the worker, 0: none
  predictorMap, \* hide.PredictorMap
  spawned,      \* number of workers created for a key
  live,         \* the running StartWorker goroutines
  closed,       \* the closed stop channels
  runs,         \* number of Scheduler.Run goroutines
  faults,       \* budget spent, see MaxFaults
  crashes       \* budget spent, see MaxCrashes

apiVars    == <<obj, rv>>
mapVars    == <<metricMap, modelMap, predictorMap>>
workerVars == <<collectorMap, workerMap, spawned, live, closed>>
onceVars   == <<client, pCollector>>
passVars   == <<inst, changes, todo, stopping>>
budgetVars == <<faults, crashes>>

vars == <<apiVars, cache, queued, proc, pc, passVars, onceVars, scaler,
          mapVars, workerVars, runs, budgetVars>>

-----------------------------------------------------------------------------
(* Keys and specs *)

\* Metric.WithModelKey: "NoModelKey$type", a pair because no type holds a "$".
WithModelKey == Key \X Type

\* utils.GetNoModelKey drops the last "$" component.
GetNoModelKey(w) == w[1]

HasMetric(s, k) == s.metrics[k] # Absent
HasModels(s, k) == s.models[k] # Absent

MetricKeys(s)  == {k \in Key : HasMetric(s, k)}
MetricOf(s, k) == [key |-> k, conf |-> s.metrics[k]]

\* The model keys that range over Spec.Models reaches.
Listed(s, w) ==
  /\ HasModels(s, w[1])
  /\ \E i \in DOMAIN s.models[w[1]] : s.models[w[1]][i].type = w[2]

Position(s, w) ==
  CHOOSE i \in DOMAIN s.models[w[1]] : s.models[w[1]][i].type = w[2]

ModelOf(s, w) == s.models[w[1]][Position(s, w)]

\* The loop variable of "for _, model := range models" when the loop ends.
LastModel(s, k) == s.models[k][Len(s.models[k])]

\* Spec.Models has an entry that Spec.Metrics lacks.
Orphans(s) == {k \in Key : HasModels(s, k) /\ ~HasMetric(s, k)}

Object == [spec : Specs, gen : Nat, statusGen : Nat, rv : Nat]

ASSUME ObjectAssumption == Absent \notin Object

-----------------------------------------------------------------------------
Init ==
  /\ obj = Absent /\ rv = 0
  /\ cache = Absent /\ queued = FALSE
  /\ proc = "up" /\ pc = "idle"
  /\ inst = Absent /\ changes = {} /\ todo = {} /\ stopping = Absent
  /\ client = "unset" /\ pCollector = FALSE /\ scaler = Absent
  /\ metricMap = [k \in Key |-> Absent]
  /\ modelMap = [w \in WithModelKey |-> Absent]
  /\ predictorMap = [w \in WithModelKey |-> Absent]
  /\ collectorMap = [k \in Key |-> 0]
  /\ workerMap = [k \in Key |-> 0]
  /\ spawned = [k \in Key |-> 0]
  /\ live = {} /\ closed = {}
  /\ runs = 0
  /\ faults = 0 /\ crashes = 0

-----------------------------------------------------------------------------
(* The user and the API server (outside the repository) *)

UserRests == rv >= MaxRv

\* kubectl apply of a new object: generation 1, empty status.
CreateObject(s) ==
  /\ ~UserRests /\ obj = Absent
  /\ rv' = rv + 1
  /\ obj' = [spec |-> s, gen |-> 1, statusGen |-> 0, rv |-> rv + 1]
  /\ UNCHANGED <<cache, queued, proc, pc, passVars, onceVars, scaler, mapVars,
                 workerVars, runs, budgetVars>>

\* A change of the spec increments metadata.generation.
EditSpec(s) ==
  /\ ~UserRests /\ obj # Absent
  /\ s # obj.spec
  /\ rv' = rv + 1
  /\ obj' = [obj EXCEPT !.spec = s, !.gen = obj.gen + 1, !.rv = rv + 1]
  /\ UNCHANGED <<cache, queued, proc, pc, passVars, onceVars, scaler, mapVars,
                 workerVars, runs, budgetVars>>

DeleteObject ==
  /\ ~UserRests /\ obj # Absent
  /\ rv' = rv + 1
  /\ obj' = Absent
  /\ UNCHANGED <<cache, queued, proc, pc, passVars, onceVars, scaler, mapVars,
                 workerVars, runs, budgetVars>>

\* The informer catches up and its event handler enqueues the key.
CacheSync ==
  /\ proc = "up" /\ cache # obj
  /\ cache' = obj
  /\ queued' = TRUE
  /\ UNCHANGED <<apiVars, proc, pc, passVars, onceVars, scaler, mapVars,
                 workerVars, runs, budgetVars>>

-----------------------------------------------------------------------------
(* The ends of a pass and of the process *)

\* Mutant of EndPass: the changeMap outlives the pass.
EndPassKeepsChanges ==
  /\ pc' = "idle" /\ inst' = Absent /\ changes' = changes
  /\ todo' = {} /\ stopping' = Absent

\* Reconcile returns: without an error, or with one that requeues the key.
EndPass ==
  /\ pc' = "idle" /\ inst' = Absent /\ changes' = {}
  /\ todo' = {} /\ stopping' = Absent

Succeed == EndPass /\ queued' = queued
Fail    == EndPass /\ queued' = TRUE

\* The process ends for the given reason; nothing in memory survives.
ProcessEnds(reason) ==
  /\ proc' = reason
  /\ EndPass /\ queued' = FALSE
  /\ cache' = Absent
  /\ client' = "unset" /\ pCollector' = FALSE /\ scaler' = Absent
  /\ metricMap' = [k \in Key |-> Absent]
  /\ modelMap' = [w \in WithModelKey |-> Absent]
  /\ predictorMap' = [w \in WithModelKey |-> Absent]
  /\ collectorMap' = [k \in Key |-> 0]
  /\ workerMap' = [k \in Key |-> 0]
  /\ spawned' = [k \in Key |-> 0]
  /\ live' = {} /\ closed' = {}
  /\ runs' = 0

\* The process is killed: node failure, eviction, upgrade.
Crash ==
  /\ proc = "up" /\ crashes < MaxCrashes
  /\ ProcessEnds("killed")
  /\ crashes' = crashes + 1
  /\ UNCHANGED <<apiVars, faults>>

\* main: the manager starts, lists the objects and enqueues each of them.
Restart ==
  /\ proc # "up"
  /\ proc' = "up"
  /\ cache' = obj
  /\ queued' = (obj # Absent)
  /\ UNCHANGED <<apiVars, pc, passVars, onceVars, scaler, mapVars, workerVars,
                 runs, budgetVars>>

-----------------------------------------------------------------------------
(* Reconcile and Handle *)

\* Up, with the current pass at the given point.
At(point) == proc = "up" /\ pc = point

Creating == inst.statusGen = 0

\* The pass takes the key off the queue; reading a stale cache costs a fault.
TakeKey ==
  /\ At("idle") /\ queued
  /\ queued' = FALSE
  /\ \/ cache = obj /\ UNCHANGED faults
     \/ cache # obj /\ faults < MaxFaults /\ faults' = faults + 1

\* Get finds no object, or Handle finds an update of the status only.
ReconcileNothing ==
  /\ TakeKey
  /\ cache # Absent => cache.statusGen = cache.gen
  /\ UNCHANGED <<apiVars, cache, proc, pc, passVars, onceVars, scaler, mapVars,
                 workerVars, runs, crashes>>

\* Get fails with another error and the key is queued again.
ReconcileGetFails ==
  /\ At("idle") /\ queued /\ faults < MaxFaults
  /\ faults' = faults + 1
  /\ UNCHANGED <<apiVars, cache, queued, proc, pc, passVars, onceVars, scaler,
                 mapVars, workerVars, runs, crashes>>

(***************************************************************************)
(* Handle gets past k8s.NewClient.  Its sync.Once calls newClient in the   *)
(* first pass only; every later pass sees a nil error, whatever the first  *)
(* call did.                                                               *)
(***************************************************************************)
ReconcileStart ==
  /\ TakeKey
  /\ cache # Absent /\ cache.statusGen # cache.gen
  /\ client' = IF client = "unset" THEN "ok" ELSE client
  /\ inst' = cache
  /\ pc' = IF cache.statusGen = 0 THEN "create" ELSE "metrics"
  /\ UNCHANGED <<apiVars, cache, proc, changes, todo, stopping, pCollector,
                 scaler, mapVars, workerVars, runs, crashes>>

\* The first pass: newClient fails and GlobalClient stays nil for good.
NewClientFails ==
  /\ At("idle") /\ queued /\ faults < MaxFaults
  /\ cache # Absent /\ cache.statusGen # cache.gen
  /\ client = "unset"
  /\ client' = "nil"
  /\ faults' = faults + 1
  /\ UNCHANGED <<apiVars, cache, queued, proc, pc, passVars, pCollector, scaler,
                 mapVars, workerVars, runs, crashes>>

-----------------------------------------------------------------------------
(* handleCreate up to its call of handleMetrics *)

HandleCreate ==
  /\ At("create")
  /\ pCollector' = TRUE
  /\ \/ /\ inst.spec.addrOk
        /\ scaler' = inst.spec.max
        /\ pc' = "metrics"
        /\ UNCHANGED <<queued, passVars>>
     \/ /\ ~inst.spec.addrOk
        /\ Fail
        /\ UNCHANGED scaler
  /\ UNCHANGED <<apiVars, cache, proc, client, mapVars, workerVars, runs,
                 budgetVars>>

-----------------------------------------------------------------------------
(***************************************************************************)
(* handleMetrics.  The module is built with go 1.19, so a range loop has   *)
(* one variable and every &metric stored by the loop points to it: when    *)
(* the loop is over all of them hold the metric of its last iteration, and *)
(* the iteration order of a Go map is arbitrary.                           *)
(***************************************************************************)

\* Mutant of AddAndDelete: no Delete loop.
AddOnly(old, s) ==
  {[k \in Key |-> IF ~HasMetric(s, k) \/ old[k] # Absent THEN old[k]
                  ELSE MetricOf(s, last)]
     : last \in IF MetricKeys(s) = {} THEN Key ELSE MetricKeys(s)}

\* The maps the Add and the Delete loop can leave.
AddAndDelete(old, s) ==
  {[k \in Key |-> IF ~HasMetric(s, k) THEN Absent
                  ELSE IF old[k] # Absent THEN old[k] ELSE MetricOf(s, last)]
     : last \in IF MetricKeys(s) = {} THEN Key ELSE MetricKeys(s)}

(***************************************************************************)
(* The change loop stores every metric it visits until it meets one that   *)
(* is up to date, where it returns from handleMetrics.  V: the keys        *)
(* visited before the loop stops; x: the key of the iteration it stops in. *)
(***************************************************************************)
StopsAt(old, s, V, x) ==
  /\ V \subseteq MetricKeys(s)
  /\ \A k \in V : old[k] # MetricOf(s, k)
  /\ \/ x \in MetricKeys(s) \ V /\ old[x] = MetricOf(s, x)
     \/ V = MetricKeys(s) /\ x \in V

ChangeLoop(old, s) ==
  IF MetricKeys(s) = {}
  THEN {old}
  ELSE {[k \in Key |-> IF k \in Vx[1] THEN MetricOf(s, Vx[2]) ELSE old[k]]
          : Vx \in {y \in (SUBSET Key) \X Key : StopsAt(old, s, y[1], y[2])}}

HandleMetrics ==
  /\ At("metrics")
  /\ \E mid \in AddAndDelete(metricMap, inst.spec) :
       metricMap' \in ChangeLoop(mid, inst.spec)
  /\ pc' = "models"
  /\ UNCHANGED <<apiVars, cache, queued, proc, passVars, onceVars, scaler,
                 modelMap, predictorMap, workerVars, runs, budgetVars>>

-----------------------------------------------------------------------------
(* handleModels *)

\* The loop over the models of k stores &model for w: new, or different.
StoresModel(s, w) == Listed(s, w) /\ modelMap[w] # ModelOf(s, w)

\* Mutant of StoreModels: the map is filled afresh, metric by metric.
StoreModelsAfresh(s, V) ==
  [w \in WithModelKey |-> IF w[1] \in V /\ Listed(s, w)
                          THEN LastModel(s, w[1]) ELSE Absent]

\* ModelMap once the loops over the models of the metrics in V are over.
StoreModels(s, V) ==
  [w \in WithModelKey |-> IF w[1] \in V /\ StoresModel(s, w)
                          THEN LastModel(s, w[1]) ELSE modelMap[w]]

HandleModels ==
  /\ At("models")
  /\ \/ /\ Orphans(inst.spec) = {}
        /\ modelMap' = [w \in WithModelKey |->
                          IF Listed(inst.spec, w)
                          THEN StoreModels(inst.spec, Key)[w] ELSE Absent]
        /\ changes' = {w \in WithModelKey : /\ StoresModel(inst.spec, w)
                                            /\ modelMap[w] # Absent}
        /\ pc' = "collector"
        /\ UNCHANGED <<queued, inst, todo, stopping>>
     \/ /\ Orphans(inst.spec) # {}
        /\ \E V \in SUBSET (Key \ Orphans(inst.spec)) :
             modelMap' = StoreModels(inst.spec, V)
        /\ Fail
  /\ UNCHANGED <<apiVars, cache, proc, onceVars, scaler, metricMap, predictorMap,
                 workerVars, runs, budgetVars>>

-----------------------------------------------------------------------------
(***************************************************************************)
(* handleCollector, split where a collector goroutine can see it half      *)
(* done: between the close of a stop channel and the Delete that follows.  *)
(* No step removes an entry of CollectorMap.                               *)
(***************************************************************************)

HandleCollector ==
  /\ At("collector")
  /\ todo' = {k \in Key : collectorMap[k] # 0 /\ ~HasMetric(inst.spec, k)}
  /\ pc' = "stop"
  /\ UNCHANGED <<apiVars, cache, queued, proc, inst, changes, stopping, onceVars,
                 scaler, mapVars, workerVars, runs, budgetVars>>

CloseStopC(k) ==
  /\ At("stop") /\ k \in todo
  /\ <<k, collectorMap[k]>> \notin closed
  /\ closed' = closed \cup {<<k, collectorMap[k]>>}
  /\ stopping' = k
  /\ pc' = "unregister"
  /\ UNCHANGED <<apiVars, cache, queued, proc, inst, changes, todo, onceVars,
                 scaler, mapVars, collectorMap, workerMap, spawned, live, runs,
                 budgetVars>>

\* close of a closed channel panics, which controller-runtime does not recover.
CloseStopCPanics(k) ==
  /\ At("stop") /\ k \in todo
  /\ <<k, collectorMap[k]>> \in closed
  /\ ProcessEnds("closedTwice")
  /\ UNCHANGED <<apiVars, budgetVars>>

\* Mutant of Unregister: CollectorWorkerMap.Delete is missing.
UnregisterNothing ==
  /\ At("unregister")
  /\ todo' = todo \ {stopping}
  /\ stopping' = Absent
  /\ pc' = "stop"
  /\ UNCHANGED <<apiVars, cache, queued, proc, inst, changes, onceVars, scaler,
                 mapVars, workerVars, runs, budgetVars>>

Unregister ==
  /\ At("unregister")
  /\ workerMap' = [workerMap EXCEPT ![stopping] = 0]
  /\ todo' = todo \ {stopping}
  /\ stopping' = Absent
  /\ pc' = "stop"
  /\ UNCHANGED <<apiVars, cache, queued, proc, inst, changes, onceVars, scaler,
                 mapVars, collectorMap, spawned, live, closed, runs, budgetVars>>

\* Mutant of ToCollect: no look at CollectorMap.
ToCollectAgain(s) == MetricKeys(s)

\* Metrics of the spec that CollectorMap lacks.
ToCollect(s) == {k \in Key : HasMetric(s, k) /\ collectorMap[k] = 0}

\* A StartWorker goroutine: number n of key's workers; end is its local flag.
Worker(k, n) == [key |-> k, n |-> n, end |-> FALSE]

StartWorkers ==
  /\ At("stop") /\ todo = {}
  /\ pCollector \/ ToCollect(inst.spec) = {}
  /\ LET new  == ToCollect(inst.spec)
         n(k) == spawned[k] + 1
     IN /\ spawned' = [k \in Key |-> IF k \in new THEN n(k) ELSE spawned[k]]
        /\ workerMap' = [k \in Key |-> IF k \in new THEN n(k) ELSE workerMap[k]]
        /\ collectorMap' = [k \in Key |-> IF k \in new THEN n(k)
                                          ELSE collectorMap[k]]
        /\ live' = live \cup {Worker(k, n(k)) : k \in new}
  /\ pc' = "predictor"
  /\ UNCHANGED <<apiVars, cache, queued, proc, passVars, onceVars, scaler, mapVars,
                 closed, runs, budgetVars>>

\* handleUpdate in a process that never ran handleCreate: pCollector is nil.
StartWorkersPanics ==
  /\ At("stop") /\ todo = {}
  /\ ~pCollector /\ ToCollect(inst.spec) # {}
  /\ ProcessEnds("nilCollector")
  /\ UNCHANGED <<apiVars, budgetVars>>

-----------------------------------------------------------------------------
(* handlePredictor *)

\* Building w fails: no registered worker, or NewPredictor rejects the model.
CannotBuild(s, w) == workerMap[w[1]] = 0 \/ ModelOf(s, w) \in Unbuildable

ToAdd(s) == {w \in WithModelKey : Listed(s, w) /\ predictorMap[w] = Absent}

\* What toAdd holds ahead of w when B are the metrics visited before w's.
AddedBefore(s, w, B) ==
  {x \in ToAdd(s) : \/ x[1] \in B
                    \/ x[1] = w[1] /\ Position(s, x) < Position(s, w)}

\* Mutant of BuildPredictors: toDelete is not deleted.
BuildPredictorsOnly(s, W) ==
  [w \in WithModelKey |->
     IF w \in W THEN [model |-> ModelOf(s, w), worker |-> workerMap[w[1]]]
     ELSE predictorMap[w]]

\* PredictorMap with the unlisted predictors deleted and those of W built.
BuildPredictors(s, W) ==
  [w \in WithModelKey |->
     IF w \in W THEN [model |-> ModelOf(s, w), worker |-> workerMap[w[1]]]
     ELSE IF Listed(s, w) THEN predictorMap[w] ELSE Absent]

PredictorUnchanged ==
  UNCHANGED <<apiVars, cache, proc, onceVars, scaler, metricMap, modelMap,
              workerVars, runs, budgetVars>>

HandlePredictor ==
  /\ At("predictor")
  /\ \A w \in ToAdd(inst.spec) \cup changes : ~CannotBuild(inst.spec, w)
  /\ predictorMap' = BuildPredictors(inst.spec, ToAdd(inst.spec) \cup changes)
  /\ pc' = IF Creating THEN "schedule" ELSE "status"
  /\ UNCHANGED <<queued, passVars>>
  /\ PredictorUnchanged

\* The loop over toAdd returns an error at w.
AddPredictorFails ==
  /\ At("predictor")
  /\ \E w \in ToAdd(inst.spec), B \in SUBSET Key :
       /\ CannotBuild(inst.spec, w)
       /\ w[1] \notin B
       /\ \A x \in AddedBefore(inst.spec, w, B) : ~CannotBuild(inst.spec, x)
       /\ predictorMap' = BuildPredictors(inst.spec, AddedBefore(inst.spec, w, B))
  /\ Fail
  /\ PredictorUnchanged

\* The loop over changeMap returns an error after rebuilding C.
ChangePredictorFails ==
  /\ At("predictor")
  /\ \A w \in ToAdd(inst.spec) : ~CannotBuild(inst.spec, w)
  /\ \E w \in changes : CannotBuild(inst.spec, w)
  /\ \E C \in SUBSET changes :
       /\ \A w \in C : ~CannotBuild(inst.spec, w)
       /\ predictorMap' = BuildPredictors(inst.spec, ToAdd(inst.spec) \cup C)
  /\ Fail
  /\ PredictorUnchanged

-----------------------------------------------------------------------------
(* The end of handleCreate, and the status update that ends Handle *)

\* GetOrNew returns the object's one Scheduler; "go Run" starts one more loop.
StartScheduler ==
  /\ At("schedule")
  /\ runs' = runs + 1
  /\ pc' = "status"
  /\ UNCHANGED <<apiVars, cache, queued, proc, passVars, onceVars, scaler, mapVars,
                 workerVars, budgetVars>>

\* A prediction of a running loop calls GetReplica on a nil GlobalClient.
SchedulerPanics ==
  /\ proc = "up" /\ runs > 0 /\ client = "nil"
  /\ \E w \in WithModelKey : predictorMap[w] # Absent
  /\ ProcessEnds("nilClient")
  /\ UNCHANGED <<apiVars, budgetVars>>

\* Mutant of StatusWritten: retried on a conflict with a fresh copy of the object.
StatusRetried ==
  /\ obj # Absent
  /\ rv' = rv + 1
  /\ obj' = [obj EXCEPT !.statusGen = obj.gen, !.rv = rv + 1]

\* The API server accepts an update of the object version it was read at.
StatusWritten ==
  /\ obj # Absent /\ obj.rv = inst.rv
  /\ rv' = rv + 1
  /\ obj' = [obj EXCEPT !.statusGen = inst.gen, !.rv = rv + 1]

UpdateStatus ==
  /\ At("status")
  /\ StatusWritten
  /\ Succeed
  /\ UNCHANGED <<cache, proc, onceVars, scaler, mapVars, workerVars, runs,
                 budgetVars>>

\* A conflict or a missing object.
UpdateStatusRefused ==
  /\ At("status")
  /\ obj # Absent => obj.rv # inst.rv
  /\ Fail
  /\ UNCHANGED <<apiVars, cache, proc, onceVars, scaler, mapVars, workerVars, runs,
                 budgetVars>>

\* The call fails on the way there, or on the way back with the write done.
UpdateStatusLost ==
  /\ At("status") /\ faults < MaxFaults
  /\ faults' = faults + 1
  /\ StatusWritten \/ UNCHANGED apiVars
  /\ Fail
  /\ UNCHANGED <<cache, proc, onceVars, scaler, mapVars, workerVars, runs, crashes>>

-----------------------------------------------------------------------------
(***************************************************************************)
(* StartWorker: one tick of a collector goroutine.  A tick that finds the  *)
(* stop channel closed only sets end; the goroutine leaves at the next     *)
(* one, or at once when its key is no longer registered.                   *)
(***************************************************************************)

\* Mutant of WorkerExits: a failed Load is logged and the loop goes on.
WorkerExitsOnEnd(g) ==
  /\ g \in live
  /\ g.end
  /\ live' = live \ {g}
  /\ UNCHANGED <<apiVars, cache, queued, proc, pc, passVars, onceVars, scaler,
                 mapVars, collectorMap, workerMap, spawned, closed, runs,
                 budgetVars>>

WorkerExits(g) ==
  /\ g \in live
  /\ workerMap[g.key] = 0 \/ g.end
  /\ live' = live \ {g}
  /\ UNCHANGED <<apiVars, cache, queued, proc, pc, passVars, onceVars, scaler,
                 mapVars, collectorMap, workerMap, spawned, closed, runs,
                 budgetVars>>

WorkerStops(g) ==
  /\ g \in live
  /\ workerMap[g.key] # 0 /\ ~g.end
  /\ <<g.key, g.n>> \in closed
  /\ live' = (live \ {g}) \cup {[g EXCEPT !.end = TRUE]}
  /\ UNCHANGED <<apiVars, cache, queued, proc, pc, passVars, onceVars, scaler,
                 mapVars, collectorMap, workerMap, spawned, closed, runs,
                 budgetVars>>

-----------------------------------------------------------------------------
User ==
  \/ \E s \in Specs : CreateObject(s) \/ EditSpec(s)
  \/ DeleteObject

\* The steps of a pass that need no fault.
PassStep ==
  \/ ReconcileNothing \/ ReconcileStart
  \/ HandleCreate \/ HandleMetrics \/ HandleModels \/ HandleCollector
  \/ \E k \in Key : CloseStopC(k) \/ CloseStopCPanics(k)
  \/ Unregister \/ StartWorkers \/ StartWorkersPanics
  \/ HandlePredictor \/ AddPredictorFails \/ ChangePredictorFails
  \/ StartScheduler \/ UpdateStatus \/ UpdateStatusRefused

Fault == ReconcileGetFails \/ NewClientFails \/ UpdateStatusLost

\* A tick of some goroutine of k.
WorkerStep(k) == \E g \in live : g.key = k /\ (WorkerExits(g) \/ WorkerStops(g))

Next ==
  \/ User \/ CacheSync
  \/ PassStep \/ Fault
  \/ \E k \in Key : WorkerStep(k)
  \/ SchedulerPanics \/ Crash \/ Restart

(***************************************************************************)
(* Fairness: the informer delivers, the queue hands out its key and the    *)
(* pass runs on, tickers tick, the Deployment restarts a dead process.     *)
(* The user, the faults and the crashes owe nothing.                       *)
(***************************************************************************)
Fairness ==
  /\ WF_vars(CacheSync) /\ WF_vars(PassStep)
  /\ \A k \in Key : WF_vars(WorkerStep(k))
  /\ WF_vars(Restart)

Spec == Init /\ [][Next]_vars /\ Fairness

-----------------------------------------------------------------------------
(* Invariants *)

PassPoints == {"idle", "create", "metrics", "models", "collector", "stop",
               "unregister", "predictor", "schedule", "status"}

ApiTypeOK ==
  /\ obj \in Object \cup {Absent} /\ rv \in Nat
  /\ cache \in Object \cup {Absent} /\ queued \in BOOLEAN
  /\ proc \in {"up", "killed", "closedTwice", "nilCollector", "nilClient"}
  /\ faults \in Nat /\ crashes \in Nat

PassTypeOK ==
  /\ pc \in PassPoints
  /\ inst \in Object \cup {Absent} /\ (inst = Absent <=> pc = "idle")
  /\ changes \subseteq WithModelKey
  /\ \A w \in changes : inst # Absent /\ Listed(inst.spec, w)
  /\ todo \subseteq Key
  /\ stopping \in Key \cup {Absent} /\ (stopping # Absent <=> pc = "unregister")

StoreTypeOK ==
  /\ client \in {"unset", "ok", "nil"} /\ pCollector \in BOOLEAN
  /\ scaler \in Nat \cup {Absent}
  /\ metricMap \in [Key -> Metric \cup {Absent}]
  /\ modelMap \in [WithModelKey -> Model \cup {Absent}]
  /\ predictorMap \in [WithModelKey -> Predictor \cup {Absent}]
  /\ runs \in Nat

WorkerTypeOK ==
  /\ collectorMap \in [Key -> Nat] /\ workerMap \in [Key -> Nat]
  /\ spawned \in [Key -> Nat]
  /\ live \subseteq [key : Key, n : Nat, end : BOOLEAN]
  /\ closed \subseteq Key \X Nat

(***************************************************************************)
(* Every variable has its type; a pass is under way exactly when inst is   *)
(* set, and its changeMap only names models of its spec.                   *)
(***************************************************************************)
TypeOK == ApiTypeOK /\ PassTypeOK /\ StoreTypeOK /\ WorkerTypeOK

(***************************************************************************)
(* A collector goroutine that nobody told to stop is the worker registered *)
(* in CollectorWorkerMap: none collects for an object that nobody reads,   *)
(* and no metric is collected twice.                                       *)
(***************************************************************************)
NoStrayCollector ==
  \A g \in live : <<g.key, g.n>> \notin closed => workerMap[g.key] = g.n /\ ~g.end

(***************************************************************************)
(* A worker registered in CollectorWorkerMap is being filled: its          *)
(* goroutine runs and its stop channel is open, except while the pass is   *)
(* between the close and the Delete of handleCollector.                    *)
(***************************************************************************)
RegisteredIsCollecting ==
  \A k \in Key : workerMap[k] # 0 /\ k # stopping =>
    /\ Worker(k, workerMap[k]) \in live
    /\ <<k, workerMap[k]>> \notin closed

(***************************************************************************)
(* Every predictor reads the worker that is registered for its metric.     *)
(* Only a pass between handleCollector's Delete and the end of             *)
(* handlePredictor may see a predictor whose collector is gone, and then   *)
(* only one that the spec of the pass no longer lists.  A failed pass      *)
(* leaves no such predictor behind for the scheduler.                      *)
(***************************************************************************)
PredictorsHaveCollector ==
  \A w \in WithModelKey :
    predictorMap[w] # Absent
      /\ (pc \in {"stop", "unregister", "predictor"} => HasMetric(inst.spec, w[1]))
    => predictorMap[w].worker = workerMap[w[1]] /\ workerMap[w[1]] # 0

-----------------------------------------------------------------------------
(* What makes the three invariants above inductive *)

\* Worker numbers are fresh, and an entry of CollectorMap outlives its worker.
WorkerNumbers ==
  /\ \A k \in Key : /\ collectorMap[k] <= spawned[k]
                    /\ workerMap[k] \in {0, collectorMap[k]}
  /\ \A g \in live : 0 < g.n /\ g.n <= spawned[g.key]
  /\ \A c \in closed : c[2] <= spawned[c[1]]

\* What handleCollector is about to stop is not in the spec of the pass.
StopList ==
  /\ pc = "idle" => todo = {}
  /\ \A k \in todo : ~HasMetric(inst.spec, k)
  /\ stopping # Absent => /\ stopping \in todo
                          /\ <<stopping, collectorMap[stopping]>> \in closed

\* A pass that got past handleModels has a metric for every model.
PastModels ==
  pc \in {"collector", "stop", "unregister", "predictor", "schedule", "status"}
    => Orphans(inst.spec) = {}

CollectorInv ==
  /\ WorkerNumbers /\ StopList /\ PastModels
  /\ NoStrayCollector /\ RegisteredIsCollecting /\ PredictorsHaveCollector

-----------------------------------------------------------------------------
(* What a status that reports the current generation tells the user *)

\* Nothing is pending and the status reports the generation of the spec.
Settled ==
  /\ At("idle") /\ ~queued
  /\ obj # Absent /\ cache = obj
  /\ obj.statusGen = obj.gen

\* MetricMap, ModelMap and PredictorMap have exactly the keys of s.
MetricKeysMatch(s) == \A k \in Key : metricMap[k] # Absent <=> HasMetric(s, k)
ModelKeysMatch(s)  == \A w \in WithModelKey : modelMap[w] # Absent <=> Listed(s, w)
PredictorKeysMatch(s) ==
  \A w \in WithModelKey : predictorMap[w] # Absent <=> Listed(s, w)

KeysMatch(s) == MetricKeysMatch(s) /\ ModelKeysMatch(s) /\ PredictorKeysMatch(s)

(***************************************************************************)
(* In a process that created the object, a reported generation means that  *)
(* MetricMap, ModelMap and PredictorMap have exactly the keys of the spec, *)
(* whatever passes failed, were repeated or read a stale spec before.      *)
(***************************************************************************)
ReconciledKeys == Settled /\ runs > 0 => KeysMatch(obj.spec)

-----------------------------------------------------------------------------
(* What makes ReconciledKeys inductive *)

(***************************************************************************)
(* Two copies of the object with the same revision are the same, and the   *)
(* status of the object never runs ahead of its spec.                      *)
(***************************************************************************)
Versions ==
  /\ obj # Absent => obj.rv <= rv /\ obj.statusGen <= obj.gen
  /\ cache # Absent => /\ cache.rv <= rv
                       /\ obj # Absent /\ cache.rv = obj.rv => cache = obj
  /\ inst # Absent => /\ inst.rv <= rv
                      /\ obj # Absent /\ inst.rv = obj.rv => inst = obj /\ cache = obj

\* What the handlers of the pass have done by now.
PassProgress ==
  /\ pc \in {"models", "collector", "stop", "unregister", "predictor", "schedule",
              "status"} => MetricKeysMatch(inst.spec)
  /\ pc \in {"collector", "stop", "unregister", "predictor", "schedule", "status"}
       => ModelKeysMatch(inst.spec)
  /\ pc \in {"schedule", "status"} => PredictorKeysMatch(inst.spec)

\* The status of the object in the API server names the generation of its spec.
StatusCurrent == obj # Absent /\ obj.statusGen = obj.gen

\* This process has passed over the object, or may still do so.
Involved ==
  \/ runs > 0 \/ inst # Absent
  \/ cache # Absent /\ cache.statusGen # cache.gen

(***************************************************************************)
(* Once the status reports the spec, passes over a cache that lags behind  *)
(* still read that spec, and repeat over maps that have its keys already.  *)
(***************************************************************************)
ReportedIsReconciled ==
  StatusCurrent /\ Involved =>
    /\ KeysMatch(obj.spec)
    /\ cache # Absent /\ cache.spec = obj.spec
    /\ inst # Absent => inst.spec = obj.spec

\* Nothing of a process survives it.
DeadIsEmpty == proc # "up" => runs = 0 /\ inst = Absent /\ cache = Absent

KeysInv == Versions /\ PassProgress /\ ReportedIsReconciled /\ DeadIsEmpty

-----------------------------------------------------------------------------
(* What reconciliation promises *)

Held(map) == {x \in DOMAIN map : map[x] # Absent}

\* The entries of the maps, and those a spec asks for.
Entries(metrics, models, predictors) ==
  ({"metric"} \X metrics) \cup ({"model"} \X models) \cup ({"predictor"} \X predictors)

Installed == Entries(Held(metricMap), Held(modelMap), Held(predictorMap))

Wanted(s) ==
  LET models == {w \in WithModelKey : Listed(s, w)}
  IN Entries(MetricKeys(s), models, models)

ObjectWants == IF obj = Absent THEN {} ELSE Wanted(obj.spec)
PassWants   == IF inst = Absent THEN {} ELSE Wanted(inst.spec)

ObjectStatus ==
  IF obj = Absent THEN "none"
  ELSE IF obj.statusGen = obj.gen THEN "reported" ELSE "pending"

\* The abstract reconciler that the passes carry out.
Promise == INSTANCE Reconciliation WITH
  Wants     <- {Wanted(s) : s \in Specs},
  wanted    <- ObjectWants,
  status    <- ObjectStatus,
  busy      <- inst # Absent,
  goal      <- PassWants,
  installed <- Installed

(***************************************************************************)
(* Passes keep the promise of Reconciliation: through every error return,  *)
(* repetition and stale read they only add what their spec lists and only  *)
(* remove what it does not, a generation is reported when exactly its      *)
(* entries are in the maps, and a reported object is only passed over      *)
(* again, after a lost or lagging status, where that changes nothing.      *)
(***************************************************************************)
PassesKeepPromise == Promise!Spec

(***************************************************************************)
(* A status that names the generation of the spec means maps with exactly  *)
(* its keys, or, in a process that was started since, empty ones: never a  *)
(* part of a spec and never another spec, whichever process wrote it.      *)
(***************************************************************************)
ReportedKeys == Promise!Kept

-----------------------------------------------------------------------------
(* Claims of the comments and the README that the code does not keep: each *)
(* one is refuted by a run of its own.                                     *)

\* "此操作为幂等操作": repeating handleCollector must not close a channel again.
HandleCollectorIdempotent == proc # "closedTwice"

\* The predictors in use are built from the models of the reported spec.
PredictorsMatchSpec ==
  Settled /\ runs > 0 =>
    \A w \in WithModelKey : Listed(obj.spec, w) /\ predictorMap[w] # Absent =>
      predictorMap[w].model = ModelOf(obj.spec, w)

\* MetricMap gives every predictor the metric (target, weight) of its own key.
MetricMapMatchesSpec ==
  Settled /\ runs > 0 =>
    \A k \in Key : HasMetric(obj.spec, k) => metricMap[k] = MetricOf(obj.spec, k)

\* The scaler's upper bound is the MaxReplicas of the reported spec.
ScalerMatchesSpec == Settled /\ runs > 0 => scaler = obj.spec.max

\* One scheduler per instance.
OneSchedulerPerInstance == runs <= 1

-----------------------------------------------------------------------------
(* Liveness *)

\* A goroutine whose stop channel is closed ends.
StoppedCollectorsExit ==
  \A k \in Key : (\E g \in live : g.key = k /\ <<k, g.n>> \in closed)
                   ~> ~(\E g \in live : g.key = k /\ <<k, g.n>> \in closed)

\* The status reports the generation of the spec.
Reported == obj # Absent => obj.statusGen = obj.gen

\* The same, and a scheduler of this process scales the target.
Served == obj # Absent => obj.statusGen = obj.gen /\ runs > 0

\* A metric of the spec was removed before: CollectorMap has it, no worker does.
Orphaned == \E k \in Key : /\ HasMetric(obj.spec, k)
                           /\ collectorMap[k] # 0 /\ workerMap[k] = 0

(***************************************************************************)
(* Every spec that can be built is reported and scaled in the end:         *)
(* conflicts, lost updates, stale reads and repeated passes only delay it. *)
(* What stands in the way in a living process is a metric that comes back  *)
(* after it was removed.                                                   *)
(***************************************************************************)
Converges == ~Reported ~> (Served \/ proc # "up" \/ Orphaned)

(***************************************************************************)
(* "until the desired state is reached": an object is scaled in the end,   *)
(* by a scheduler that has a client, whatever restarts, whenever the user  *)
(* edits it and whatever fails once.                                       *)
(***************************************************************************)
AlwaysConverges == obj # Absent ~> (Served /\ (runs > 0 => client = "ok"))

=============================================================================
