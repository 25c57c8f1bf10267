------------------------- MODULE AOMControllerProofs -------------------------
(***************************************************************************)
(* TLAPS proofs about AOMController, for every set of metrics, models and  *)
(* specs and every value of the bounds.                                    *)
(***************************************************************************)
EXTENDS AOMController, TLAPS

-----------------------------------------------------------------------------
(* Facts about specs *)

\* The parts of a spec that the user can write have their types.
LEMMA SpecParts ==
  ASSUME NEW s \in Specs
  PROVE  /\ s.metrics \in [Key -> {Absent} \cup Conf]
         /\ s.models \in [Key -> {Absent} \cup Seq(Model)]
         /\ s.max \in Nat
         /\ s.addrOk \in BOOLEAN
  BY SpecsAssumption DEF SpecType

\* A listed model is found by its type, and it is a Model.
LEMMA ModelOfType ==
  ASSUME NEW s \in Specs, NEW w \in WithModelKey, Listed(s, w)
  PROVE  ModelOf(s, w) \in Model
<1>1. w[1] \in Key /\ s.models[w[1]] \in Seq(Model)
  BY SpecParts DEF WithModelKey, Listed, HasModels
<1>2. Position(s, w) \in DOMAIN s.models[w[1]]
  BY DEF Listed, Position
<1> QED
  BY <1>1, <1>2 DEF ModelOf

\* What the loop variable of handleModels holds after the loop is a Model.
LEMMA LastModelType ==
  ASSUME NEW s \in Specs, NEW w \in WithModelKey, Listed(s, w)
  PROVE  LastModel(s, w[1]) \in Model
<1>1. w[1] \in Key /\ s.models[w[1]] \in Seq(Model)
  BY SpecParts DEF WithModelKey, Listed, HasModels
<1>2. PICK i \in DOMAIN s.models[w[1]] : s.models[w[1]][i].type = w[2]
  BY DEF Listed
<1>3. Len(s.models[w[1]]) \in DOMAIN s.models[w[1]]
  BY <1>1, <1>2
<1> QED
  BY <1>1, <1>3 DEF LastModel

\* A key with a metric gives a Metric.
LEMMA MetricOfType ==
  ASSUME NEW s \in Specs, NEW k \in Key, HasMetric(s, k)
  PROVE  MetricOf(s, k) \in Metric
  BY SpecParts DEF HasMetric, MetricOf, Metric

-----------------------------------------------------------------------------
(* Type correctness *)

\* Whatever order the loops of handleMetrics visit, MetricMap keeps its type.
LEMMA MetricMapType ==
  ASSUME NEW s \in Specs, NEW old \in [Key -> Metric \cup {Absent}],
         NEW mid \in AddAndDelete(old, s), NEW new \in ChangeLoop(mid, s)
  PROVE  new \in [Key -> Metric \cup {Absent}]
<1>1. mid \in [Key -> Metric \cup {Absent}]
  <2>1. PICK last \in IF MetricKeys(s) = {} THEN Key ELSE MetricKeys(s) :
          mid = [k \in Key |-> IF ~HasMetric(s, k) THEN Absent
                  ELSE IF old[k] # Absent THEN old[k] ELSE MetricOf(s, last)]
    BY DEF AddAndDelete
  <2>2. ASSUME NEW k \in Key, HasMetric(s, k) PROVE MetricOf(s, last) \in Metric
    <3>1. k \in MetricKeys(s)
      BY <2>2 DEF MetricKeys
    <3>2. last \in Key /\ HasMetric(s, last)
      BY <3>1, <2>1 DEF MetricKeys
    <3> QED
      BY <3>2, MetricOfType
  <2> QED
    BY <2>1, <2>2
<1>2. CASE MetricKeys(s) = {}
  BY <1>1, <1>2 DEF ChangeLoop
<1>3. CASE MetricKeys(s) # {}
  <2>1. PICK Vx \in {y \in (SUBSET Key) \X Key : StopsAt(mid, s, y[1], y[2])} :
          new = [k \in Key |-> IF k \in Vx[1] THEN MetricOf(s, Vx[2]) ELSE mid[k]]
    BY <1>3 DEF ChangeLoop
  <2>2. Vx[2] \in MetricKeys(s)
    BY <2>1 DEF StopsAt
  <2>3. MetricOf(s, Vx[2]) \in Metric
    BY <2>2, MetricOfType DEF MetricKeys
  <2> QED
    BY <1>1, <2>1, <2>3
<1> QED
  BY <1>2, <1>3

\* ModelMap keeps its type, and so does a pass that stops half way.
LEMMA StoreModelsType ==
  ASSUME NEW s \in Specs, NEW V \in SUBSET Key,
         modelMap \in [WithModelKey -> Model \cup {Absent}]
  PROVE  StoreModels(s, V) \in [WithModelKey -> Model \cup {Absent}]
  BY LastModelType DEF StoreModels, StoresModel

\* PredictorMap keeps its type when listed models are built.
LEMMA BuildType ==
  ASSUME NEW s \in Specs, NEW W \in SUBSET WithModelKey,
         \A w \in W : Listed(s, w),
         StoreTypeOK, WorkerTypeOK
  PROVE  BuildPredictors(s, W) \in [WithModelKey -> Predictor \cup {Absent}]
<1>1. ASSUME NEW w \in W
      PROVE  [model |-> ModelOf(s, w), worker |-> workerMap[w[1]]] \in Predictor
  BY <1>1, ModelOfType DEF Predictor, WorkerTypeOK, WithModelKey
<1> QED
  BY <1>1 DEF BuildPredictors, StoreTypeOK

\* The end of the process resets everything in memory to values of its type.
LEMMA ProcessEndsType ==
  ASSUME TypeOK, NEW reason \in {"killed", "closedTwice", "nilCollector", "nilClient"},
         ProcessEnds(reason), UNCHANGED apiVars,
         faults' = faults, crashes' \in Nat
  PROVE  TypeOK'
  BY DEF TypeOK, ApiTypeOK, PassTypeOK, StoreTypeOK, WorkerTypeOK, ProcessEnds,
         EndPass, PassPoints, apiVars, WithModelKey

\* A pass that takes the key spends a fault at most.
LEMMA TakeKeyType ==
  ASSUME TypeOK, TakeKey
  PROVE  queued' \in BOOLEAN /\ faults' \in Nat
<1>1. faults \in Nat
  BY DEF TypeOK, ApiTypeOK
<1>2. queued' = FALSE /\ faults' \in {faults, faults + 1}
  BY Zenon DEF TakeKey
<1>3. queued' \in BOOLEAN
  BY <1>2, Zenon
<1>4. faults' \in Nat
  BY <1>1, <1>2, SMT
<1> QED
  BY <1>3, <1>4

\* Writing the status of the instance keeps the object's type.
LEMMA StatusWrittenType ==
  ASSUME TypeOK, StatusWritten, pc # "idle"
  PROVE  obj' \in Object /\ rv' \in Nat
<1>1. obj \in Object /\ inst \in Object /\ rv \in Nat
  BY DEF TypeOK, ApiTypeOK, PassTypeOK, StatusWritten
<1>2. inst.gen \in Nat /\ rv + 1 \in Nat
  BY <1>1 DEF Object
<1>3. obj' = [obj EXCEPT !.statusGen = inst.gen, !.rv = rv + 1] /\ rv' = rv + 1
  BY DEF StatusWritten
<1> QED
  BY <1>1, <1>2, <1>3 DEF Object

\* Every step of the system keeps the types.
LEMMA TypeStep ==
  ASSUME TypeOK, [Next]_vars
  PROVE  TypeOK'
<1>1. ASSUME NEW s \in Specs, CreateObject(s) PROVE TypeOK'
  BY <1>1 DEF TypeOK, ApiTypeOK, PassTypeOK, StoreTypeOK, WorkerTypeOK,
     apiVars, mapVars, workerVars, onceVars, passVars, budgetVars,
     CreateObject, Object
<1>2. ASSUME NEW s \in Specs, EditSpec(s) PROVE TypeOK'
  <2>5. obj' \in Object
    <3>1. obj \in Object /\ rv \in Nat
      BY <1>2 DEF TypeOK, ApiTypeOK, EditSpec
    <3>2. obj.gen + 1 \in Nat /\ rv + 1 \in Nat
      BY <3>1 DEF Object
    <3>3. obj' = [obj EXCEPT !.spec = s, !.gen = obj.gen + 1, !.rv = rv + 1]
      BY <1>2 DEF EditSpec
    <3> QED
      BY <3>1, <3>2, <3>3 DEF Object
  <2>1. ApiTypeOK'
    BY <1>2, <2>5 DEF TypeOK, ApiTypeOK, apiVars, mapVars, workerVars,
       onceVars, passVars, budgetVars, EditSpec
  <2>2. PassTypeOK'
    BY <1>2 DEF TypeOK, PassTypeOK, apiVars, mapVars, workerVars, onceVars,
       passVars, budgetVars, EditSpec
  <2>3. StoreTypeOK'
    BY <1>2 DEF TypeOK, StoreTypeOK, apiVars, mapVars, workerVars, onceVars,
       passVars, budgetVars, EditSpec
  <2>4. WorkerTypeOK'
    BY <1>2 DEF TypeOK, WorkerTypeOK, apiVars, mapVars, workerVars, onceVars,
       passVars, budgetVars, EditSpec
  <2> QED
    BY <2>1, <2>2, <2>3, <2>4 DEF TypeOK
<1>3. CASE DeleteObject
  BY <1>3 DEF TypeOK, ApiTypeOK, PassTypeOK, StoreTypeOK, WorkerTypeOK,
     apiVars, mapVars, workerVars, onceVars, passVars, budgetVars,
     DeleteObject
<1>4. CASE CacheSync
  BY <1>4 DEF TypeOK, ApiTypeOK, PassTypeOK, StoreTypeOK, WorkerTypeOK,
     apiVars, mapVars, workerVars, onceVars, passVars, budgetVars, CacheSync
<1>5. CASE Crash
  BY <1>5, ProcessEndsType DEF Crash, TypeOK, ApiTypeOK
<1>6. CASE Restart
  BY <1>6 DEF TypeOK, ApiTypeOK, PassTypeOK, StoreTypeOK, WorkerTypeOK,
     apiVars, mapVars, workerVars, onceVars, passVars, budgetVars, Restart
<1>7. CASE ReconcileNothing
  <2>1. ApiTypeOK'
    BY <1>7, TakeKeyType DEF TypeOK, ApiTypeOK, apiVars, ReconcileNothing
  <2>2. PassTypeOK'
    BY <1>7 DEF TypeOK, PassTypeOK, apiVars, mapVars, workerVars, onceVars,
       passVars, budgetVars, ReconcileNothing
  <2>3. StoreTypeOK'
    BY <1>7 DEF TypeOK, StoreTypeOK, apiVars, mapVars, workerVars, onceVars,
       passVars, budgetVars, ReconcileNothing
  <2>4. WorkerTypeOK'
    BY <1>7 DEF TypeOK, WorkerTypeOK, apiVars, mapVars, workerVars, onceVars,
       passVars, budgetVars, ReconcileNothing
  <2> QED
    BY <2>1, <2>2, <2>3, <2>4 DEF TypeOK
<1>8. CASE ReconcileGetFails
  BY <1>8 DEF TypeOK, ApiTypeOK, PassTypeOK, StoreTypeOK, WorkerTypeOK,
     apiVars, mapVars, workerVars, onceVars, passVars, budgetVars,
     ReconcileGetFails
<1>9. CASE ReconcileStart
  <2>1. ApiTypeOK'
    BY <1>9, TakeKeyType DEF TypeOK, ApiTypeOK, apiVars, ReconcileStart
  <2>2. PassTypeOK'
    BY <1>9 DEF TypeOK, PassTypeOK, apiVars, mapVars, workerVars, onceVars,
       passVars, budgetVars, ReconcileStart, ApiTypeOK, TakeKey, At,
       PassPoints
  <2>3. StoreTypeOK'
    BY <1>9 DEF TypeOK, StoreTypeOK, apiVars, mapVars, workerVars, onceVars,
       passVars, budgetVars, ReconcileStart
  <2>4. WorkerTypeOK'
    BY <1>9 DEF TypeOK, WorkerTypeOK, apiVars, mapVars, workerVars, onceVars,
       passVars, budgetVars, ReconcileStart
  <2> QED
    BY <2>1, <2>2, <2>3, <2>4 DEF TypeOK
<1>10. CASE NewClientFails
  BY <1>10 DEF TypeOK, ApiTypeOK, PassTypeOK, StoreTypeOK, WorkerTypeOK,
     apiVars, mapVars, workerVars, onceVars, passVars, budgetVars,
     NewClientFails
<1>11. CASE HandleCreate
  BY SpecParts, <1>11 DEF TypeOK, ApiTypeOK, PassTypeOK, StoreTypeOK,
     WorkerTypeOK, apiVars, mapVars, workerVars, onceVars, passVars,
     budgetVars, HandleCreate, At, Object, Fail, EndPass, PassPoints
<1>12. CASE HandleMetrics
  <2>1. inst \in Object /\ inst.spec \in Specs
    BY <1>12 DEF HandleMetrics, At, TypeOK, PassTypeOK, Object
  <2>2. metricMap' \in [Key -> Metric \cup {Absent}]
    BY <1>12, <2>1, MetricMapType DEF HandleMetrics, TypeOK, StoreTypeOK
  <2> QED
    BY <1>12, <2>1, <2>2 DEF TypeOK, ApiTypeOK, PassTypeOK, StoreTypeOK,
       WorkerTypeOK, apiVars, mapVars, workerVars, onceVars, passVars,
       budgetVars, HandleMetrics, At, PassPoints
<1>13. CASE HandleModels
  <2>1. inst \in Object /\ inst.spec \in Specs
    BY <1>13 DEF HandleModels, At, TypeOK, PassTypeOK, Object
  <2>2. \A V \in SUBSET Key :
          StoreModels(inst.spec, V) \in [WithModelKey -> Model \cup {Absent}]
    BY <2>1, StoreModelsType DEF TypeOK, StoreTypeOK
  <2>3. modelMap' \in [WithModelKey -> Model \cup {Absent}]
    BY <1>13, <2>2 DEF HandleModels
  <2>4. PassTypeOK'
    BY <1>13, <2>1 DEF HandleModels, At, TypeOK, PassTypeOK, StoresModel,
       Fail, EndPass, PassPoints
  <2> QED
    BY <1>13, <2>3, <2>4 DEF TypeOK, ApiTypeOK, StoreTypeOK, WorkerTypeOK,
       apiVars, mapVars, workerVars, onceVars, passVars, budgetVars,
       HandleModels, Fail
<1>14. CASE HandleCollector
  BY <1>14 DEF TypeOK, ApiTypeOK, PassTypeOK, StoreTypeOK, WorkerTypeOK,
     apiVars, mapVars, workerVars, onceVars, passVars, budgetVars,
     HandleCollector, At, PassPoints
<1>15. ASSUME NEW k \in Key, CloseStopC(k) PROVE TypeOK'
  <2>1. ApiTypeOK'
    BY <1>15 DEF TypeOK, ApiTypeOK, apiVars, mapVars, workerVars, onceVars,
       passVars, budgetVars, CloseStopC
  <2>2. PassTypeOK'
    BY <1>15, ConstantsAssumption DEF TypeOK, PassTypeOK, apiVars, mapVars,
       workerVars, onceVars, passVars, budgetVars, CloseStopC, At, PassPoints
  <2>3. StoreTypeOK'
    BY <1>15 DEF TypeOK, StoreTypeOK, apiVars, mapVars, workerVars, onceVars,
       passVars, budgetVars, CloseStopC
  <2>4. WorkerTypeOK'
    BY <1>15 DEF TypeOK, WorkerTypeOK, apiVars, mapVars, workerVars,
       onceVars, passVars, budgetVars, CloseStopC
  <2> QED
    BY <2>1, <2>2, <2>3, <2>4 DEF TypeOK
<1>16. ASSUME NEW k \in Key, CloseStopCPanics(k) PROVE TypeOK'
  BY <1>16, ProcessEndsType DEF CloseStopCPanics, TypeOK, ApiTypeOK,
     budgetVars
<1>17. CASE Unregister
  BY <1>17 DEF TypeOK, ApiTypeOK, PassTypeOK, StoreTypeOK, WorkerTypeOK,
     apiVars, mapVars, workerVars, onceVars, passVars, budgetVars,
     Unregister, At, PassPoints
<1>18. CASE StartWorkers
  <2>1. ApiTypeOK'
    BY <1>18 DEF TypeOK, ApiTypeOK, apiVars, mapVars, workerVars, onceVars,
       passVars, budgetVars, StartWorkers
  <2>2. PassTypeOK'
    BY <1>18 DEF TypeOK, PassTypeOK, apiVars, mapVars, workerVars, onceVars,
       passVars, budgetVars, StartWorkers, At, PassPoints
  <2>3. StoreTypeOK'
    BY <1>18 DEF TypeOK, StoreTypeOK, apiVars, mapVars, workerVars, onceVars,
       passVars, budgetVars, StartWorkers
  <2>4. WorkerTypeOK'
    <3>1. ToCollect(inst.spec) \subseteq Key
      BY DEF ToCollect
    <3>2. /\ collectorMap' \in [Key -> Nat] /\ workerMap' \in [Key -> Nat]
          /\ spawned' \in [Key -> Nat]
      BY <1>18 DEF TypeOK, WorkerTypeOK, StartWorkers
    <3>3. \A k \in ToCollect(inst.spec) :
            Worker(k, spawned[k] + 1) \in [key : Key, n : Nat, end : BOOLEAN]
      BY <3>1 DEF TypeOK, WorkerTypeOK, Worker
    <3>4. live' = live \cup {Worker(k, spawned[k] + 1) : k \in ToCollect(inst.spec)}
      BY <1>18 DEF StartWorkers
    <3>5. live' \subseteq [key : Key, n : Nat, end : BOOLEAN]
      BY <3>3, <3>4 DEF TypeOK, WorkerTypeOK
    <3> QED
      BY <1>18, <3>2, <3>5 DEF TypeOK, WorkerTypeOK, StartWorkers
  <2> QED
    BY <2>1, <2>2, <2>3, <2>4 DEF TypeOK
<1>19. CASE StartWorkersPanics
  BY <1>19, ProcessEndsType DEF StartWorkersPanics, TypeOK, ApiTypeOK,
     budgetVars
<1>20. CASE HandlePredictor
  <2>1. inst \in Object /\ inst.spec \in Specs
    BY <1>20 DEF HandlePredictor, At, TypeOK, PassTypeOK, Object
  <2>2. predictorMap' \in [WithModelKey -> Predictor \cup {Absent}]
    BY <1>20, <2>1, BuildType DEF HandlePredictor, TypeOK, PassTypeOK, ToAdd
  <2> QED
    BY <1>20, <2>1, <2>2 DEF TypeOK, ApiTypeOK, PassTypeOK, StoreTypeOK,
       WorkerTypeOK, apiVars, mapVars, workerVars, onceVars, passVars,
       budgetVars, HandlePredictor, At, PassPoints, PredictorUnchanged
<1>21. CASE AddPredictorFails
  <2>1. inst \in Object /\ inst.spec \in Specs
    BY <1>21 DEF AddPredictorFails, At, TypeOK, PassTypeOK, Object
  <2>2. predictorMap' \in [WithModelKey -> Predictor \cup {Absent}]
    BY <1>21, <2>1, BuildType DEF AddPredictorFails, TypeOK, PassTypeOK,
       ToAdd, AddedBefore
  <2> QED
    BY <1>21, <2>1, <2>2 DEF TypeOK, ApiTypeOK, PassTypeOK, StoreTypeOK,
       WorkerTypeOK, apiVars, mapVars, workerVars, onceVars, passVars,
       budgetVars, AddPredictorFails, At, PassPoints, PredictorUnchanged,
       Fail, EndPass
<1>22. CASE ChangePredictorFails
  <2>1. inst \in Object /\ inst.spec \in Specs
    BY <1>22 DEF ChangePredictorFails, At, TypeOK, PassTypeOK, Object
  <2>2. predictorMap' \in [WithModelKey -> Predictor \cup {Absent}]
    BY <1>22, <2>1, BuildType DEF ChangePredictorFails, TypeOK, PassTypeOK,
       ToAdd
  <2> QED
    BY <1>22, <2>1, <2>2 DEF TypeOK, ApiTypeOK, PassTypeOK, StoreTypeOK,
       WorkerTypeOK, apiVars, mapVars, workerVars, onceVars, passVars,
       budgetVars, ChangePredictorFails, At, PassPoints, PredictorUnchanged,
       Fail, EndPass
<1>23. CASE StartScheduler
  BY <1>23 DEF TypeOK, ApiTypeOK, PassTypeOK, StoreTypeOK, WorkerTypeOK,
     apiVars, mapVars, workerVars, onceVars, passVars, budgetVars,
     StartScheduler, At, PassPoints
<1>24. CASE UpdateStatus
  <2>5. obj' \in Object /\ rv' \in Nat
    BY <1>24, StatusWrittenType DEF UpdateStatus, At
  <2>1. ApiTypeOK'
    BY <1>24, <2>5 DEF TypeOK, ApiTypeOK, apiVars, mapVars, workerVars,
       onceVars, passVars, budgetVars, UpdateStatus, Succeed
  <2>2. PassTypeOK'
    BY <1>24 DEF TypeOK, PassTypeOK, apiVars, mapVars, workerVars, onceVars,
       passVars, budgetVars, UpdateStatus, Succeed, EndPass, PassPoints
  <2>3. StoreTypeOK'
    BY <1>24 DEF TypeOK, StoreTypeOK, apiVars, mapVars, workerVars, onceVars,
       passVars, budgetVars, UpdateStatus
  <2>4. WorkerTypeOK'
    BY <1>24 DEF TypeOK, WorkerTypeOK, apiVars, mapVars, workerVars,
       onceVars, passVars, budgetVars, UpdateStatus
  <2> QED
    BY <2>1, <2>2, <2>3, <2>4 DEF TypeOK
<1>25. CASE UpdateStatusRefused
  BY <1>25 DEF TypeOK, ApiTypeOK, PassTypeOK, StoreTypeOK, WorkerTypeOK,
     apiVars, mapVars, workerVars, onceVars, passVars, budgetVars,
     UpdateStatusRefused, At, Fail, EndPass, PassPoints
<1>26. CASE UpdateStatusLost
  <2>5. obj' \in Object \cup {Absent} /\ rv' \in Nat
    BY <1>26, StatusWrittenType
       DEF TypeOK, ApiTypeOK, UpdateStatusLost, At, apiVars
  <2>1. ApiTypeOK'
    BY <1>26, <2>5 DEF TypeOK, ApiTypeOK, apiVars, mapVars, workerVars,
       onceVars, passVars, budgetVars, UpdateStatusLost, Fail
  <2>2. PassTypeOK'
    BY <1>26 DEF TypeOK, PassTypeOK, apiVars, mapVars, workerVars, onceVars,
       passVars, budgetVars, UpdateStatusLost, Fail, EndPass, PassPoints
  <2>3. StoreTypeOK'
    BY <1>26 DEF TypeOK, StoreTypeOK, apiVars, mapVars, workerVars, onceVars,
       passVars, budgetVars, UpdateStatusLost
  <2>4. WorkerTypeOK'
    BY <1>26 DEF TypeOK, WorkerTypeOK, apiVars, mapVars, workerVars,
       onceVars, passVars, budgetVars, UpdateStatusLost
  <2> QED
    BY <2>1, <2>2, <2>3, <2>4 DEF TypeOK
<1>27. ASSUME NEW g \in live, WorkerExits(g) PROVE TypeOK'
  BY <1>27 DEF TypeOK, ApiTypeOK, PassTypeOK, StoreTypeOK, WorkerTypeOK,
     apiVars, mapVars, workerVars, onceVars, passVars, budgetVars,
     WorkerExits
<1>28. ASSUME NEW g \in live, WorkerStops(g) PROVE TypeOK'
  <2>1. g \in [key : Key, n : Nat, end : BOOLEAN]
    BY DEF TypeOK, WorkerTypeOK
  <2>2. [g EXCEPT !.end = TRUE] \in [key : Key, n : Nat, end : BOOLEAN]
    BY <2>1
  <2>3. WorkerTypeOK'
    BY <1>28, <2>2 DEF TypeOK, WorkerTypeOK, WorkerStops
  <2> QED
    BY <1>28, <2>3 DEF TypeOK, ApiTypeOK, PassTypeOK, StoreTypeOK,
       apiVars, mapVars, onceVars, passVars, budgetVars, WorkerStops
<1>29. CASE SchedulerPanics
  BY <1>29, ProcessEndsType DEF SchedulerPanics, TypeOK, ApiTypeOK, budgetVars
<1>30. CASE UNCHANGED vars
  BY <1>30 DEF TypeOK, ApiTypeOK, PassTypeOK, StoreTypeOK, WorkerTypeOK,
     apiVars, mapVars, workerVars, onceVars, passVars, budgetVars, vars
<1> QED
  BY <1>1, <1>2, <1>3, <1>4, <1>5, <1>6, <1>7, <1>8, <1>9, <1>10, <1>11,
     <1>12, <1>13, <1>14, <1>15, <1>16, <1>17, <1>18, <1>19, <1>20, <1>21,
     <1>22, <1>23, <1>24, <1>25, <1>26, <1>27, <1>28, <1>29, <1>30 DEF Next, User,
     PassStep, Fault, WorkerStep

(***************************************************************************)
(* AOMController is type correct; in particular no pass builds a predictor *)
(* from a model that its spec does not list.                               *)
(***************************************************************************)
THEOREM TypeCorrect == Spec => []TypeOK
<1>1. Init => TypeOK
  <2> SUFFICES ASSUME Init PROVE TypeOK
    OBVIOUS
  <2>1. ApiTypeOK
    BY DEF Init, ApiTypeOK
  <2>2. PassTypeOK
    BY DEF Init, PassTypeOK, PassPoints
  <2>3. StoreTypeOK
    BY DEF Init, StoreTypeOK
  <2>4. WorkerTypeOK
    BY DEF Init, WorkerTypeOK
  <2> QED
    BY <2>1, <2>2, <2>3, <2>4 DEF TypeOK
<1> QED
  BY <1>1, TypeStep, PTL DEF Spec

-----------------------------------------------------------------------------
(* Collectors and predictors *)

\* A step that leaves the pass, the workers and the predictors alone.
LEMMA QuietStep ==
  ASSUME CollectorInv, UNCHANGED <<pc, passVars, workerVars, predictorMap>>
  PROVE  CollectorInv'
  BY DEF CollectorInv, WorkerNumbers, StopList, PastModels, NoStrayCollector,
         RegisteredIsCollecting, PredictorsHaveCollector, passVars, workerVars

(***************************************************************************)
(* A step of the pass, or its end, outside handleCollector and             *)
(* handlePredictor.  There every predictor has its collector, whatever the *)
(* pass's spec is, so the pass may fail or move on.                        *)
(***************************************************************************)
LEMMA PassMoves ==
  ASSUME TypeOK, CollectorInv,
         pc \notin {"stop", "unregister", "predictor"},
         stopping' = Absent, PastModels',
         pc' = "idle" => todo' = {},
         \A k \in todo' : ~HasMetric(inst.spec, k)',
         UNCHANGED <<workerVars, predictorMap>>
  PROVE  CollectorInv'
<1>1. stopping = Absent
  BY DEF TypeOK, PassTypeOK
<1>2. WorkerNumbers' /\ NoStrayCollector'
  BY DEF CollectorInv, WorkerNumbers, NoStrayCollector, workerVars
<1>3. RegisteredIsCollecting'
  BY <1>1 DEF CollectorInv, RegisteredIsCollecting, workerVars
<1>4. PredictorsHaveCollector'
  BY DEF CollectorInv, PredictorsHaveCollector, workerVars
<1>5. StopList'
  BY DEF StopList
<1> QED
  BY <1>2, <1>3, <1>4, <1>5 DEF CollectorInv

\* Nothing is left in memory when the process ends.
LEMMA ProcessEndsCollectors ==
  ASSUME NEW reason, ProcessEnds(reason)
  PROVE  CollectorInv'
<1>1. WorkerNumbers' /\ NoStrayCollector' /\ RegisteredIsCollecting'
  BY DEF ProcessEnds, WorkerNumbers, NoStrayCollector, RegisteredIsCollecting
<1>2. StopList' /\ PastModels'
  BY DEF ProcessEnds, EndPass, StopList, PastModels
<1>3. PredictorsHaveCollector'
  BY DEF ProcessEnds, PredictorsHaveCollector
<1> QED
  BY <1>1, <1>2, <1>3 DEF CollectorInv

\* handleCollector closes the channel of a metric that the spec dropped.
LEMMA CloseStopCStep ==
  ASSUME TypeOK, CollectorInv, NEW k \in Key, CloseStopC(k)
  PROVE  CollectorInv'
<1>1. WorkerNumbers'
  BY DEF CollectorInv, WorkerNumbers, CloseStopC, TypeOK, WorkerTypeOK
<1>2. NoStrayCollector'
  BY DEF CollectorInv, NoStrayCollector, CloseStopC
<1>3. RegisteredIsCollecting'
  <2>1. stopping = Absent
    BY DEF TypeOK, PassTypeOK, CloseStopC, At
  <2> SUFFICES ASSUME NEW j \in Key, workerMap[j] # 0, j # k
               PROVE  /\ Worker(j, workerMap[j]) \in live
                      /\ <<j, workerMap[j]>> \notin closed'
    BY DEF RegisteredIsCollecting, CloseStopC, Worker
  <2>2. j # stopping
    BY <2>1, ConstantsAssumption
  <2> QED
    BY <2>2 DEF CollectorInv, RegisteredIsCollecting, CloseStopC
<1>4. StopList'
  BY DEF CollectorInv, StopList, CloseStopC
<1>5. PastModels' /\ PredictorsHaveCollector'
  BY DEF CollectorInv, PastModels, PredictorsHaveCollector, CloseStopC, At,
         mapVars
<1> QED
  BY <1>1, <1>2, <1>3, <1>4, <1>5 DEF CollectorInv

\* The Delete after the close: the key's goroutine has been told to stop.
LEMMA UnregisterStep ==
  ASSUME TypeOK, CollectorInv, Unregister
  PROVE  CollectorInv'
<1>1. /\ stopping \in Key /\ ~HasMetric(inst.spec, stopping)
      /\ <<stopping, collectorMap[stopping]>> \in closed
  BY DEF TypeOK, PassTypeOK, CollectorInv, StopList, Unregister, At
<1>2. WorkerNumbers'
  BY DEF CollectorInv, WorkerNumbers, Unregister, TypeOK, WorkerTypeOK
<1>3. NoStrayCollector'
  <2> SUFFICES ASSUME NEW g \in live, <<g.key, g.n>> \notin closed
               PROVE  workerMap'[g.key] = g.n /\ ~g.end
    BY DEF NoStrayCollector, Unregister
  <2>1. g.key \in Key /\ workerMap[g.key] = g.n /\ ~g.end /\ g.n # 0
    BY DEF CollectorInv, NoStrayCollector, WorkerNumbers, TypeOK, WorkerTypeOK
  <2>2. g.key # stopping
    BY <1>1, <2>1 DEF CollectorInv, WorkerNumbers
  <2> QED
    BY <2>1, <2>2 DEF Unregister, TypeOK, WorkerTypeOK
<1>4. RegisteredIsCollecting'
  BY DEF CollectorInv, RegisteredIsCollecting, Unregister, TypeOK, WorkerTypeOK,
         Worker
<1>5. StopList' /\ PastModels'
  BY DEF CollectorInv, StopList, PastModels, Unregister, At
<1>6. PredictorsHaveCollector'
  BY <1>1 DEF CollectorInv, PredictorsHaveCollector, Unregister, At, TypeOK,
              WorkerTypeOK, WithModelKey, mapVars
<1> QED
  BY <1>2, <1>3, <1>4, <1>5, <1>6 DEF CollectorInv

\* New workers get fresh numbers, and only keys that never had one get one.
LEMMA StartWorkersStep ==
  ASSUME TypeOK, CollectorInv, StartWorkers
  PROVE  CollectorInv'
<1> DEFINE new  == ToCollect(inst.spec)
           n(k) == spawned[k] + 1
<1>1. /\ \A k \in Key : spawned'[k] = IF k \in new THEN n(k) ELSE spawned[k]
      /\ \A k \in Key : workerMap'[k] = IF k \in new THEN n(k) ELSE workerMap[k]
      /\ \A k \in Key : collectorMap'[k] = IF k \in new THEN n(k)
                                            ELSE collectorMap[k]
      /\ live' = live \cup {Worker(k, n(k)) : k \in new}
      /\ closed' = closed /\ predictorMap' = predictorMap
      /\ pc = "stop" /\ pc' = "predictor"
      /\ inst' = inst /\ todo' = todo /\ stopping' = stopping
  BY DEF StartWorkers, At, passVars, mapVars
<1>2. /\ new \subseteq Key /\ stopping = Absent
      /\ \A k \in Key : k \in new => collectorMap[k] = 0 /\ workerMap[k] = 0
  BY <1>1 DEF CollectorInv, WorkerNumbers, ToCollect, TypeOK, PassTypeOK
<1>3. /\ \A k \in Key : /\ spawned[k] \in Nat /\ collectorMap[k] \in Nat
                        /\ workerMap[k] \in Nat
      /\ \A g \in live : g.key \in Key /\ g.n \in Nat
      /\ \A c \in closed : c[1] \in Key /\ c[2] \in Nat
  BY DEF TypeOK, WorkerTypeOK
<1>4. ASSUME NEW g \in live'
      PROVE  \/ g \in live
             \/ /\ g.key \in new /\ g.n = n(g.key) /\ g.end = FALSE
                /\ g.key \in Key
  BY <1>1, <1>2 DEF Worker
<1>5. WorkerNumbers'
  <2>1. ASSUME NEW k \in Key
        PROVE  /\ collectorMap'[k] <= spawned'[k]
               /\ workerMap'[k] \in {0, collectorMap'[k]}
    BY <1>1, <1>3 DEF CollectorInv, WorkerNumbers
  <2>2. ASSUME NEW g \in live' PROVE 0 < g.n /\ g.n <= spawned'[g.key]
    <3>1. CASE g \in live
      BY <1>1, <1>3, <3>1 DEF CollectorInv, WorkerNumbers
    <3>2. CASE g.key \in new /\ g.n = n(g.key) /\ g.key \in Key
      BY <1>1, <1>3, <3>2
    <3> QED
      BY <1>4, <3>1, <3>2
  <2>3. ASSUME NEW c \in closed PROVE c[2] <= spawned'[c[1]]
    BY <1>1, <1>3 DEF CollectorInv, WorkerNumbers
  <2> QED
    BY <1>1, <2>1, <2>2, <2>3 DEF WorkerNumbers
<1>6. NoStrayCollector'
  <2> SUFFICES ASSUME NEW g \in live', <<g.key, g.n>> \notin closed
               PROVE  workerMap'[g.key] = g.n /\ ~g.end
    BY <1>1 DEF NoStrayCollector
  <2>1. CASE g \in live
    <3>1. workerMap[g.key] = g.n /\ ~g.end /\ 0 < g.n
      BY <2>1 DEF CollectorInv, NoStrayCollector, WorkerNumbers
    <3>2. g.key \in Key /\ g.key \notin new
      BY <1>2, <1>3, <2>1, <3>1
    <3> QED
      BY <1>1, <3>1, <3>2
  <2>2. CASE g.key \in new /\ g.n = n(g.key) /\ g.end = FALSE /\ g.key \in Key
    BY <1>1, <2>2
  <2> QED
    BY <1>4, <2>1, <2>2
<1>7. RegisteredIsCollecting'
  <2> SUFFICES ASSUME NEW k \in Key, workerMap'[k] # 0
               PROVE  /\ Worker(k, workerMap'[k]) \in live'
                      /\ <<k, workerMap'[k]>> \notin closed
    BY <1>1 DEF RegisteredIsCollecting, Worker
  <2>1. CASE k \in new
    <3>1. workerMap'[k] = n(k)
      BY <1>1, <2>1
    <3>2. <<k, n(k)>> \notin closed
      BY <1>3 DEF CollectorInv, WorkerNumbers
    <3> QED
      BY <1>1, <2>1, <3>1, <3>2
  <2>2. CASE k \notin new
    <3>1. workerMap'[k] = workerMap[k] /\ k # stopping
      BY <1>1, <1>2, <2>2, ConstantsAssumption
    <3> QED
      BY <1>1, <3>1 DEF CollectorInv, RegisteredIsCollecting
  <2> QED
    BY <2>1, <2>2
<1>8. StopList' /\ PastModels'
  BY <1>1, <1>2 DEF CollectorInv, StopList, PastModels
<1>9. PredictorsHaveCollector'
  <2> SUFFICES ASSUME NEW w \in WithModelKey, predictorMap[w] # Absent,
                      HasMetric(inst.spec, w[1])
               PROVE  predictorMap[w].worker = workerMap'[w[1]] /\ workerMap'[w[1]] # 0
    BY <1>1 DEF PredictorsHaveCollector
  <2>1. /\ predictorMap[w].worker = workerMap[w[1]] /\ workerMap[w[1]] # 0
        /\ w[1] \in Key
    BY DEF CollectorInv, PredictorsHaveCollector, WithModelKey
  <2> QED
    BY <1>1, <1>2, <2>1
<1> QED
  BY <1>5, <1>6, <1>7, <1>8, <1>9 DEF CollectorInv

(***************************************************************************)
(* handlePredictor, whether it ends with an error or not, once it has      *)
(* built the predictors of W: what it keeps is listed by the pass's spec,  *)
(* so its metric is too (PastModels) and its collector was not stopped.    *)
(***************************************************************************)
LEMMA BuildStep ==
  ASSUME TypeOK, CollectorInv, At("predictor"),
         NEW W \in SUBSET WithModelKey,
         \A w \in W : ~CannotBuild(inst.spec, w),
         predictorMap' = BuildPredictors(inst.spec, W),
         UNCHANGED workerVars,
         \/ EndPass
         \/ UNCHANGED passVars /\ pc' \in {"schedule", "status"}
  PROVE  CollectorInv'
<1>1. pc = "predictor" /\ stopping = Absent
  BY DEF At, TypeOK, PassTypeOK
<1>2. stopping' = Absent /\ pc' \notin {"stop", "unregister", "predictor"}
  BY <1>1 DEF EndPass, passVars
<1>3. WorkerNumbers' /\ NoStrayCollector'
  BY DEF CollectorInv, WorkerNumbers, NoStrayCollector, workerVars
<1>4. RegisteredIsCollecting'
  BY <1>1, <1>2 DEF CollectorInv, RegisteredIsCollecting, workerVars, Worker
<1>5. StopList'
  BY <1>1, <1>2 DEF CollectorInv, StopList, EndPass, passVars
<1>6. PastModels'
  BY <1>1 DEF CollectorInv, PastModels, EndPass, passVars
<1>7. PredictorsHaveCollector'
  <2> SUFFICES ASSUME NEW w \in WithModelKey, predictorMap'[w] # Absent
               PROVE  /\ predictorMap'[w].worker = workerMap[w[1]]
                      /\ workerMap[w[1]] # 0
    BY DEF PredictorsHaveCollector, workerVars
  <2>1. CASE w \in W
    BY <2>1 DEF BuildPredictors, CannotBuild
  <2>2. CASE w \notin W
    <3>1. Listed(inst.spec, w) /\ predictorMap'[w] = predictorMap[w]
      BY <2>2 DEF BuildPredictors
    <3>2. HasMetric(inst.spec, w[1])
      BY <1>1, <3>1 DEF CollectorInv, PastModels, Orphans, Listed, WithModelKey
    <3> QED
      BY <3>1, <3>2 DEF CollectorInv, PredictorsHaveCollector
  <2> QED
    BY <2>1, <2>2
<1> QED
  BY <1>3, <1>4, <1>5, <1>6, <1>7 DEF CollectorInv

\* A tick that ends a goroutine never ends a registered worker's.
LEMMA WorkerExitsStep ==
  ASSUME TypeOK, CollectorInv, NEW g \in live, WorkerExits(g)
  PROVE  CollectorInv'
<1>1. WorkerNumbers' /\ NoStrayCollector'
  BY DEF CollectorInv, WorkerNumbers, NoStrayCollector, WorkerExits
<1>2. RegisteredIsCollecting'
  <2> SUFFICES ASSUME NEW k \in Key, workerMap[k] # 0, k # stopping
               PROVE  /\ Worker(k, workerMap[k]) \in live'
                      /\ <<k, workerMap[k]>> \notin closed
    BY DEF RegisteredIsCollecting, WorkerExits, Worker, passVars
  <2>1. Worker(k, workerMap[k]) \in live /\ <<k, workerMap[k]>> \notin closed
    BY DEF CollectorInv, RegisteredIsCollecting
  <2>2. Worker(k, workerMap[k]) # g
    BY DEF WorkerExits, Worker
  <2> QED
    BY <2>1, <2>2 DEF WorkerExits
<1>3. StopList' /\ PastModels' /\ PredictorsHaveCollector'
  BY DEF CollectorInv, StopList, PastModels, PredictorsHaveCollector, WorkerExits,
         passVars, mapVars
<1> QED
  BY <1>1, <1>2, <1>3 DEF CollectorInv

\* A tick that finds its channel closed only marks a goroutine being stopped.
LEMMA WorkerStopsStep ==
  ASSUME TypeOK, CollectorInv, NEW g \in live, WorkerStops(g)
  PROVE  CollectorInv'
<1> DEFINE h == [g EXCEPT !.end = TRUE]
<1>1. /\ g \in [key : Key, n : Nat, end : BOOLEAN]
      /\ h.key = g.key /\ h.n = g.n
      /\ live' = (live \ {g}) \cup {h}
  BY DEF TypeOK, WorkerTypeOK, WorkerStops
<1>2. <<g.key, g.n>> \in closed /\ UNCHANGED <<workerMap, collectorMap, spawned, closed>>
  BY DEF WorkerStops
<1> HIDE DEF h
<1>3. WorkerNumbers'
  BY <1>1, <1>2 DEF CollectorInv, WorkerNumbers
<1>4. NoStrayCollector'
  BY <1>1, <1>2 DEF CollectorInv, NoStrayCollector
<1>5. RegisteredIsCollecting'
  <2> SUFFICES ASSUME NEW k \in Key, workerMap[k] # 0, k # stopping
               PROVE  /\ Worker(k, workerMap[k]) \in live'
                      /\ <<k, workerMap[k]>> \notin closed
    BY DEF RegisteredIsCollecting, WorkerStops, Worker, passVars
  <2>1. Worker(k, workerMap[k]) \in live /\ <<k, workerMap[k]>> \notin closed
    BY DEF CollectorInv, RegisteredIsCollecting
  <2>2. Worker(k, workerMap[k]) # g
    BY <1>2, <2>1 DEF Worker
  <2> QED
    BY <1>1, <2>1, <2>2
<1>6. StopList' /\ PastModels' /\ PredictorsHaveCollector'
  BY DEF CollectorInv, StopList, PastModels, PredictorsHaveCollector, WorkerStops,
         passVars, mapVars
<1> QED
  BY <1>3, <1>4, <1>5, <1>6 DEF CollectorInv

\* Every step of the system keeps the invariant of collectors and predictors.
LEMMA CollectorStep ==
  ASSUME TypeOK, CollectorInv, [Next]_vars
  PROVE  CollectorInv'
<1> USE DEF passVars, mapVars
<1>1. CASE User
  BY <1>1, QuietStep DEF User, CreateObject, EditSpec, DeleteObject
<1>2. CASE CacheSync
  BY <1>2, QuietStep DEF CacheSync
<1>3. CASE Crash
  BY <1>3, ProcessEndsCollectors DEF Crash
<1>4. CASE Restart
  BY <1>4, QuietStep DEF Restart
<1>5. CASE ReconcileNothing
  BY <1>5, QuietStep DEF ReconcileNothing
<1>6. CASE ReconcileGetFails \/ NewClientFails
  BY <1>6, QuietStep DEF ReconcileGetFails, NewClientFails
<1>7. CASE ReconcileStart
  <2>1. /\ pc = "idle" /\ stopping' = Absent /\ todo' = todo /\ inst = Absent
        /\ pc' \in {"create", "metrics"}
    BY <1>7 DEF ReconcileStart, TakeKey, At, TypeOK, PassTypeOK
  <2>2. todo = {}
    BY <2>1 DEF CollectorInv, StopList
  <2> QED
    BY <1>7, <2>1, <2>2, PassMoves DEF ReconcileStart, PastModels
<1>8. CASE HandleCreate
  <2>1. pc = "create" /\ stopping = Absent /\ pc' \in {"metrics", "idle"}
    BY <1>8 DEF HandleCreate, Fail, EndPass, At, TypeOK, PassTypeOK
  <2>2. /\ stopping' = Absent /\ (todo' = {} \/ (todo' = todo /\ inst' = inst))
        /\ pc' = "idle" => todo' = {}
    BY <1>8, <2>1 DEF HandleCreate, Fail, EndPass
  <2> QED
    BY <1>8, <2>1, <2>2, PassMoves DEF HandleCreate, PastModels, CollectorInv, StopList
<1>9. CASE HandleMetrics
  <2>1. /\ pc = "metrics" /\ pc' = "models" /\ stopping' = Absent
        /\ todo' = todo /\ inst' = inst
    BY <1>9 DEF HandleMetrics, At, TypeOK, PassTypeOK
  <2> QED
    BY <1>9, <2>1, PassMoves DEF HandleMetrics, PastModels, CollectorInv, StopList
<1>10. CASE HandleModels
  <2>1. pc = "models" /\ stopping = Absent
    BY <1>10 DEF HandleModels, At, TypeOK, PassTypeOK
  <2>2. /\ stopping' = Absent /\ PastModels'
        /\ todo' = {} \/ (todo' = todo /\ inst' = inst)
        /\ pc' = "idle" => todo' = {}
    BY <1>10, <2>1 DEF HandleModels, Fail, EndPass, PastModels
  <2> QED
    BY <1>10, <2>1, <2>2, PassMoves DEF HandleModels, CollectorInv, StopList
<1>11. CASE HandleCollector
  <2>1. /\ pc = "collector" /\ pc' = "stop" /\ stopping' = Absent /\ inst' = inst
        /\ \A k \in todo' : ~HasMetric(inst.spec, k)
    BY <1>11 DEF HandleCollector, At, TypeOK, PassTypeOK
  <2> QED
    BY <1>11, <2>1, PassMoves DEF HandleCollector, PastModels, CollectorInv
<1>12. ASSUME NEW k \in Key, CloseStopC(k) PROVE CollectorInv'
  BY <1>12, CloseStopCStep
<1>13. ASSUME NEW k \in Key, CloseStopCPanics(k) PROVE CollectorInv'
  BY <1>13, ProcessEndsCollectors DEF CloseStopCPanics
<1>14. CASE Unregister
  BY <1>14, UnregisterStep
<1>15. CASE StartWorkers
  BY <1>15, StartWorkersStep
<1>16. CASE StartWorkersPanics
  BY <1>16, ProcessEndsCollectors DEF StartWorkersPanics
<1>17. CASE HandlePredictor
  <2>1. ToAdd(inst.spec) \cup changes \in SUBSET WithModelKey
    BY DEF ToAdd, TypeOK, PassTypeOK
  <2> QED
    BY <1>17, <2>1, BuildStep DEF HandlePredictor, PredictorUnchanged
<1>18. CASE AddPredictorFails
  <2>1. PICK w \in ToAdd(inst.spec), B \in SUBSET Key :
          /\ \A x \in AddedBefore(inst.spec, w, B) : ~CannotBuild(inst.spec, x)
          /\ predictorMap' = BuildPredictors(inst.spec, AddedBefore(inst.spec, w, B))
    BY <1>18 DEF AddPredictorFails
  <2>2. AddedBefore(inst.spec, w, B) \in SUBSET WithModelKey
    BY DEF AddedBefore, ToAdd
  <2> QED
    BY <1>18, <2>1, <2>2, BuildStep DEF AddPredictorFails, PredictorUnchanged, Fail
<1>19. CASE ChangePredictorFails
  <2>1. PICK C \in SUBSET changes :
          /\ \A w \in C : ~CannotBuild(inst.spec, w)
          /\ predictorMap' = BuildPredictors(inst.spec, ToAdd(inst.spec) \cup C)
    BY <1>19 DEF ChangePredictorFails
  <2>2. ToAdd(inst.spec) \cup C \in SUBSET WithModelKey
    BY DEF ToAdd, TypeOK, PassTypeOK
  <2>3. \A w \in ToAdd(inst.spec) \cup C : ~CannotBuild(inst.spec, w)
    BY <1>19, <2>1 DEF ChangePredictorFails
  <2> QED
    BY <1>19, <2>1, <2>2, <2>3, BuildStep
       DEF ChangePredictorFails, PredictorUnchanged, Fail
<1>20. CASE StartScheduler
  <2>1. /\ pc = "schedule" /\ pc' = "status" /\ stopping' = Absent
        /\ todo' = todo /\ inst' = inst
    BY <1>20 DEF StartScheduler, At, TypeOK, PassTypeOK
  <2> QED
    BY <1>20, <2>1, PassMoves DEF StartScheduler, PastModels, CollectorInv, StopList
<1>21. CASE UpdateStatus \/ UpdateStatusRefused \/ UpdateStatusLost
  <2>1. pc = "status" /\ EndPass /\ UNCHANGED <<workerVars, predictorMap>>
    BY <1>21 DEF UpdateStatus, UpdateStatusRefused, UpdateStatusLost, At, Succeed,
                 Fail
  <2> QED
    BY <2>1, PassMoves DEF EndPass, PastModels
<1>22. ASSUME NEW g \in live, WorkerExits(g) PROVE CollectorInv'
  BY <1>22, WorkerExitsStep
<1>23. ASSUME NEW g \in live, WorkerStops(g) PROVE CollectorInv'
  BY <1>23, WorkerStopsStep
<1>24. CASE SchedulerPanics
  BY <1>24, ProcessEndsCollectors DEF SchedulerPanics
<1>25. CASE UNCHANGED vars
  BY <1>25, QuietStep DEF vars
<1> QED
  BY <1>1, <1>2, <1>3, <1>4, <1>5, <1>6, <1>7, <1>8, <1>9, <1>10, <1>11, <1>12,
     <1>13, <1>14, <1>15, <1>16, <1>17, <1>18, <1>19, <1>20, <1>21, <1>22, <1>23,
     <1>24, <1>25 DEF Next, PassStep, Fault, WorkerStep

(***************************************************************************)
(* Collectors and predictors stay consistent whatever the user edits and   *)
(* wherever passes fail, panic or are cut off by a crash.                  *)
(***************************************************************************)
THEOREM CollectorsConsistent == Spec => []CollectorInv
<1>1. Init => CollectorInv
  BY DEF Init, CollectorInv, WorkerNumbers, StopList, PastModels, NoStrayCollector,
         RegisteredIsCollecting, PredictorsHaveCollector
<1> QED
  BY <1>1, CollectorStep, TypeCorrect, PTL DEF Spec

\* No goroutine collects for a worker that is not the registered one.
THEOREM CollectorsNotStray == Spec => []NoStrayCollector
<1>1. CollectorInv => NoStrayCollector
  BY DEF CollectorInv
<1> QED
  BY <1>1, CollectorsConsistent, PTL

\* Every registered worker is being filled by its goroutine.
THEOREM CollectorsAlive == Spec => []RegisteredIsCollecting
<1>1. CollectorInv => RegisteredIsCollecting
  BY DEF CollectorInv
<1> QED
  BY <1>1, CollectorsConsistent, PTL

\* No pass leaves the scheduler a predictor whose collector is gone.
THEOREM PredictorsConsistent == Spec => []PredictorsHaveCollector
<1>1. CollectorInv => PredictorsHaveCollector
  BY DEF CollectorInv
<1> QED
  BY <1>1, CollectorsConsistent, PTL


-----------------------------------------------------------------------------
(* The keys of the maps under a reported status *)

\* handleMetrics leaves exactly the metrics of the spec, in whatever order it runs.
LEMMA MetricKeysSet ==
  ASSUME NEW s \in Specs, NEW old \in [Key -> Metric \cup {Absent}],
         NEW mid \in AddAndDelete(old, s), NEW new \in ChangeLoop(mid, s)
  PROVE  \A k \in Key : new[k] # Absent <=> HasMetric(s, k)
<1>1. \A k \in Key : HasMetric(s, k) => MetricOf(s, k) # Absent
  BY MetricOfType, ConstantsAssumption
<1>2. \A k \in Key : mid[k] # Absent <=> HasMetric(s, k)
  <2>1. PICK last \in IF MetricKeys(s) = {} THEN Key ELSE MetricKeys(s) :
          mid = [k \in Key |-> IF ~HasMetric(s, k) THEN Absent
                  ELSE IF old[k] # Absent THEN old[k] ELSE MetricOf(s, last)]
    BY DEF AddAndDelete
  <2>2. ASSUME NEW k \in Key, HasMetric(s, k) PROVE MetricOf(s, last) # Absent
    <3>1. last \in Key /\ HasMetric(s, last)
      BY <2>1, <2>2 DEF MetricKeys
    <3> QED
      BY <1>1, <3>1
  <2> QED
    BY <2>1, <2>2
<1>3. CASE MetricKeys(s) = {}
  BY <1>2, <1>3 DEF ChangeLoop
<1>4. CASE MetricKeys(s) # {}
  <2>1. PICK Vx \in {y \in (SUBSET Key) \X Key : StopsAt(mid, s, y[1], y[2])} :
          new = [k \in Key |-> IF k \in Vx[1] THEN MetricOf(s, Vx[2]) ELSE mid[k]]
    BY <1>4 DEF ChangeLoop
  <2>2. Vx[2] \in Key /\ HasMetric(s, Vx[2]) /\ \A k \in Vx[1] : HasMetric(s, k)
    BY <2>1 DEF StopsAt, MetricKeys
  <2>3. MetricOf(s, Vx[2]) # Absent
    BY <1>1, <2>2
  <2> QED
    BY <1>2, <2>1, <2>2, <2>3
<1> QED
  BY <1>3, <1>4

\* After its loops handleModels has an entry for every listed model; before,
\* it has stored entries of listed models only.
LEMMA ModelKeysStored ==
  ASSUME NEW s \in Specs, StoreTypeOK, NEW V \in SUBSET Key, NEW w \in WithModelKey
  PROVE  /\ Listed(s, w) => StoreModels(s, Key)[w] # Absent
         /\ modelMap[w] # Absent => StoreModels(s, V)[w] # Absent
         /\ StoreModels(s, V)[w] # Absent => modelMap[w] # Absent \/ Listed(s, w)
<1>1. Listed(s, w) => LastModel(s, w[1]) # Absent /\ ModelOf(s, w) # Absent
  BY LastModelType, ModelOfType, ConstantsAssumption
<1>2. w[1] \in Key
  BY DEF WithModelKey
<1> QED
  BY <1>1, <1>2 DEF StoreModels, StoresModel

\* handlePredictor leaves no unlisted predictor, and every listed one it had or builds.
LEMMA PredictorKeysBuilt ==
  ASSUME NEW s \in Specs, NEW W \in SUBSET WithModelKey, \A w \in W : Listed(s, w),
         StoreTypeOK, WorkerTypeOK, NEW w \in WithModelKey
  PROVE  BuildPredictors(s, W)[w] # Absent
           <=> w \in W \/ (Listed(s, w) /\ predictorMap[w] # Absent)
<1>1. ASSUME w \in W
      PROVE  [model |-> ModelOf(s, w), worker |-> workerMap[w[1]]] # Absent
  <2>1. [model |-> ModelOf(s, w), worker |-> workerMap[w[1]]] \in Predictor
    BY <1>1, ModelOfType DEF Predictor, WorkerTypeOK, WithModelKey
  <2> QED
    BY <2>1, ConstantsAssumption
<1> QED
  BY <1>1 DEF BuildPredictors

\* A step that leaves the object, its copies, the pass and the maps alone.
LEMMA KeysQuiet ==
  ASSUME KeysInv, UNCHANGED <<apiVars, cache, proc, pc, inst, mapVars, runs>>
  PROVE  KeysInv'
<1>1. Versions' /\ DeadIsEmpty'
  BY DEF KeysInv, Versions, DeadIsEmpty, apiVars
<1>2. PassProgress'
  BY DEF KeysInv, PassProgress, MetricKeysMatch, ModelKeysMatch, PredictorKeysMatch, mapVars
<1>3. ReportedIsReconciled'
  BY DEF KeysInv, ReportedIsReconciled, StatusCurrent, Involved, KeysMatch,
         MetricKeysMatch, ModelKeysMatch, PredictorKeysMatch, apiVars, mapVars
<1> QED
  BY <1>1, <1>2, <1>3 DEF KeysInv

(***************************************************************************)
(* A step of the pass or its end.  When the status is current the pass     *)
(* repeats over the spec it reports, so it is enough that the step keeps   *)
(* maps that have the keys of the pass's spec already.                     *)
(***************************************************************************)
LEMMA PassKeepsKeys ==
  ASSUME KeysInv, proc' = "up", inst # Absent, inst' \in {inst, Absent},
         UNCHANGED <<apiVars, cache>>, PassProgress',
         NEW CONSTANT s, s = inst.spec, KeysMatch(s) => KeysMatch(s)'
  PROVE  KeysInv'
<1>1. Versions'
  BY DEF KeysInv, Versions, apiVars
<1>2. ReportedIsReconciled'
  <2> SUFFICES ASSUME StatusCurrent' PROVE ReportedIsReconciled'
    BY DEF ReportedIsReconciled
  <2>1. obj' = obj /\ cache' = cache
    BY DEF apiVars
  <2>2. StatusCurrent /\ Involved
    BY <2>1 DEF StatusCurrent, Involved
  <2>3. KeysMatch(obj.spec) /\ obj.spec = s /\ cache # Absent /\ cache.spec = obj.spec
    BY <2>2 DEF KeysInv, ReportedIsReconciled
  <2>4. KeysMatch(s)'
    BY <2>3
  <2>5. KeysMatch(obj.spec)'
    BY <2>1, <2>3, <2>4 DEF KeysMatch, MetricKeysMatch, ModelKeysMatch, PredictorKeysMatch
  <2>6. cache' # Absent /\ cache'.spec = obj'.spec /\ (inst' # Absent => inst'.spec = obj'.spec)
    BY <2>1, <2>3
  <2> QED
    BY <2>5, <2>6 DEF ReportedIsReconciled
<1>3. DeadIsEmpty'
  BY DEF DeadIsEmpty
<1> QED
  BY <1>1, <1>2, <1>3 DEF KeysInv

\* Nothing is left in memory when the process ends.
LEMMA ProcessEndsKeys ==
  ASSUME KeysInv, NEW reason, ProcessEnds(reason), UNCHANGED apiVars
  PROVE  KeysInv'
  BY DEF KeysInv, Versions, PassProgress, ReportedIsReconciled, Involved, DeadIsEmpty,
         ProcessEnds, EndPass, apiVars

\* What the user writes has a new revision, and no status of its generation.
LEMMA UserWritesKeys ==
  ASSUME TypeOK, KeysInv, rv' = rv + 1,
         obj' # Absent => obj'.rv = rv + 1 /\ obj'.statusGen <= obj'.gen
                          /\ obj'.statusGen # obj'.gen,
         UNCHANGED <<cache, proc, pc, inst, mapVars, runs>>
  PROVE  KeysInv'
<1>1. /\ rv \in Nat
      /\ cache # Absent => cache.rv \in Nat
      /\ inst # Absent => inst.rv \in Nat
  BY DEF TypeOK, ApiTypeOK, PassTypeOK, Object
<1>2. Versions'
  BY <1>1 DEF KeysInv, Versions
<1>3. PassProgress'
  BY DEF KeysInv, PassProgress, MetricKeysMatch, ModelKeysMatch, PredictorKeysMatch, mapVars
<1>4. ReportedIsReconciled' /\ DeadIsEmpty'
  BY DEF KeysInv, ReportedIsReconciled, StatusCurrent, DeadIsEmpty
<1> QED
  BY <1>2, <1>3, <1>4 DEF KeysInv

\* The write of the status succeeds on the version the pass has read, so that the
\* cache and the object have its spec, and the maps its keys.
LEMMA StatusWrittenKeys ==
  ASSUME TypeOK, KeysInv, At("status"), StatusWritten, EndPass,
         UNCHANGED <<cache, proc, mapVars, runs>>
  PROVE  KeysInv'
<1>1. inst # Absent /\ obj = inst /\ cache = obj
  BY DEF TypeOK, PassTypeOK, KeysInv, Versions, At, StatusWritten
<1>2. obj \in Object /\ rv \in Nat /\ obj.rv \in Nat /\ obj.gen \in Nat
  BY <1>1 DEF TypeOK, ApiTypeOK, PassTypeOK, Object
<1>3. obj' = [obj EXCEPT !.statusGen = obj.gen, !.rv = rv + 1] /\ rv' = rv + 1
  BY <1>1 DEF StatusWritten
<1>4. obj'.spec = obj.spec /\ obj'.rv = rv + 1 /\ obj'.statusGen = obj'.gen /\ obj'.gen \in Nat
  BY <1>2, <1>3 DEF Object
<1>5. inst' = Absent /\ pc' = "idle" /\ cache' = obj
  BY <1>1 DEF EndPass
<1>6. obj.rv <= rv
  BY <1>1 DEF KeysInv, Versions
<1>7. Versions'
  BY <1>2, <1>3, <1>4, <1>5, <1>6 DEF Versions
<1>8. KeysMatch(obj.spec)
  BY <1>1 DEF KeysInv, PassProgress, KeysMatch, At
<1>9. KeysMatch(obj.spec)'
  BY <1>4, <1>8 DEF KeysMatch, MetricKeysMatch, ModelKeysMatch, PredictorKeysMatch, mapVars
<1>10. ReportedIsReconciled'
  BY <1>1, <1>4, <1>5, <1>9 DEF ReportedIsReconciled
<1>11. PassProgress' /\ DeadIsEmpty'
  BY <1>5 DEF PassProgress, DeadIsEmpty, At
<1> QED
  BY <1>7, <1>10, <1>11 DEF KeysInv


\* handleModels stores the models of the spec, or fails at one without a metric.
LEMMA HandleModelsKeys ==
  ASSUME TypeOK, KeysInv, HandleModels
  PROVE  KeysInv'
<1>1. inst # Absent /\ inst.spec \in Specs /\ At("models") /\ StoreTypeOK
  BY DEF HandleModels, At, TypeOK, PassTypeOK, Object
<1>2. /\ UNCHANGED <<apiVars, cache, metricMap, predictorMap>> /\ proc' = "up"
      /\ inst' \in {inst, Absent}
  BY <1>1 DEF HandleModels, At, Fail, EndPass
<1>3. PICK s : s = inst.spec
  OBVIOUS
<1>4. MetricKeysMatch(s)'
  BY <1>1, <1>2, <1>3 DEF KeysInv, PassProgress, MetricKeysMatch, At
<1>5. PredictorKeysMatch(s) => PredictorKeysMatch(s)'
  BY <1>2 DEF PredictorKeysMatch
<1>6. CASE pc' = "collector"
  <2>1. /\ inst' = inst
        /\ modelMap' = [w \in WithModelKey |-> IF Listed(s, w) THEN StoreModels(s, Key)[w]
                                               ELSE Absent]
    BY <1>3, <1>6 DEF HandleModels, Fail, EndPass
  <2>2. ModelKeysMatch(s)'
    BY <1>1, <1>3, <2>1, ModelKeysStored DEF ModelKeysMatch
  <2>3. PassProgress'
    BY <1>3, <1>4, <1>6, <2>1, <2>2
       DEF PassProgress, MetricKeysMatch, ModelKeysMatch
  <2>4. KeysMatch(s) => KeysMatch(s)'
    BY <1>4, <1>5, <2>2 DEF KeysMatch
  <2> QED
    BY <1>1, <1>2, <1>3, <2>3, <2>4, PassKeepsKeys
<1>7. CASE pc' # "collector"
  <2>1. PICK V \in SUBSET Key : modelMap' = StoreModels(s, V)
    BY <1>3, <1>7 DEF HandleModels
  <2>2. ModelKeysMatch(s) => ModelKeysMatch(s)'
    BY <1>1, <1>3, <2>1, ModelKeysStored DEF ModelKeysMatch
  <2>3. PassProgress'
    BY <1>7 DEF HandleModels, Fail, EndPass, PassProgress
  <2>4. KeysMatch(s) => KeysMatch(s)'
    BY <1>4, <1>5, <2>2 DEF KeysMatch
  <2> QED
    BY <1>1, <1>2, <1>3, <2>3, <2>4, PassKeepsKeys
<1> QED
  BY <1>6, <1>7

\* handlePredictor, when it builds W and then goes on or fails.
LEMMA HandlePredictorKeys ==
  ASSUME TypeOK, KeysInv, At("predictor"), PredictorUnchanged,
         NEW W \in SUBSET WithModelKey, \A w \in W : Listed(inst.spec, w),
         predictorMap' = BuildPredictors(inst.spec, W),
         \/ inst' = inst /\ pc' \in {"schedule", "status"} /\ ToAdd(inst.spec) \subseteq W
         \/ inst' = Absent /\ pc' = "idle"
  PROVE  KeysInv'
<1>1. inst # Absent /\ inst.spec \in Specs /\ StoreTypeOK /\ WorkerTypeOK
  BY DEF At, TypeOK, PassTypeOK, Object
<1>2. UNCHANGED <<apiVars, cache, metricMap, modelMap>> /\ proc' = "up"
  BY DEF PredictorUnchanged, At
<1>3. PICK s : s = inst.spec
  OBVIOUS
<1>4. \A w \in WithModelKey :
        predictorMap'[w] # Absent <=> w \in W \/ (Listed(s, w) /\ predictorMap[w] # Absent)
  BY <1>1, <1>3, PredictorKeysBuilt
<1>5. PredictorKeysMatch(s) => PredictorKeysMatch(s)'
  BY <1>3, <1>4 DEF PredictorKeysMatch
<1>6. MetricKeysMatch(s)' /\ ModelKeysMatch(s)'
  BY <1>2, <1>3 DEF KeysInv, PassProgress, MetricKeysMatch, ModelKeysMatch, At
<1>7. KeysMatch(s) => KeysMatch(s)'
  BY <1>5, <1>6 DEF KeysMatch
<1>8. PassProgress'
  <2>1. CASE inst' = inst /\ pc' \in {"schedule", "status"} /\ ToAdd(inst.spec) \subseteq W
    <3>1. PredictorKeysMatch(s)'
      BY <1>3, <1>4, <2>1 DEF PredictorKeysMatch, ToAdd
    <3> QED
      BY <1>3, <1>6, <2>1, <3>1
         DEF PassProgress, MetricKeysMatch, ModelKeysMatch, PredictorKeysMatch
  <2>2. CASE pc' = "idle"
    BY <2>2 DEF PassProgress
  <2> QED
    BY <2>1, <2>2
<1> QED
  BY <1>1, <1>2, <1>3, <1>7, <1>8, PassKeepsKeys

\* Every step of the system keeps the versions apart and the keys together.
LEMMA KeysStep ==
  ASSUME TypeOK, KeysInv, [Next]_vars
  PROVE  KeysInv'
<1> USE DEF apiVars, mapVars, passVars
<1>1. ASSUME NEW s \in Specs, CreateObject(s) PROVE KeysInv'
  <2>1. obj'.rv = rv + 1 /\ obj'.statusGen = 0 /\ obj'.gen = 1
    BY <1>1 DEF CreateObject
  <2> QED
    BY <1>1, <2>1, UserWritesKeys DEF CreateObject
<1>2. ASSUME NEW s \in Specs, EditSpec(s) PROVE KeysInv'
  <2>1. obj \in Object /\ obj.gen \in Nat /\ obj.statusGen \in Nat
    BY <1>2 DEF EditSpec, TypeOK, ApiTypeOK, Object
  <2>2. obj' = [obj EXCEPT !.spec = s, !.gen = obj.gen + 1, !.rv = rv + 1]
    BY <1>2 DEF EditSpec
  <2>3. obj'.rv = rv + 1 /\ obj'.statusGen = obj.statusGen /\ obj'.gen = obj.gen + 1
    BY <2>1, <2>2 DEF Object
  <2>4. obj.statusGen <= obj.gen
    BY <1>2 DEF EditSpec, KeysInv, Versions
  <2>5. obj'.statusGen <= obj'.gen /\ obj'.statusGen # obj'.gen
    BY <2>1, <2>3, <2>4
  <2> QED
    BY <1>2, <2>3, <2>5, UserWritesKeys DEF EditSpec
<1>3. CASE DeleteObject
  BY <1>3, UserWritesKeys DEF DeleteObject
<1>4. CASE CacheSync
  <2>1. cache' = obj /\ UNCHANGED <<obj, rv, proc, pc, inst, mapVars, runs>> /\ proc = "up"
    BY <1>4 DEF CacheSync
  <2>2. Versions' /\ DeadIsEmpty'
    BY <2>1 DEF KeysInv, Versions, DeadIsEmpty
  <2>3. PassProgress'
    BY <2>1 DEF KeysInv, PassProgress, MetricKeysMatch, ModelKeysMatch, PredictorKeysMatch
  <2>4. StatusCurrent' /\ Involved' => StatusCurrent /\ Involved
    BY <2>1 DEF StatusCurrent, Involved
  <2>5. KeysMatch(obj.spec) => KeysMatch(obj.spec)'
    BY <2>1 DEF KeysMatch, MetricKeysMatch, ModelKeysMatch, PredictorKeysMatch
  <2>6. ReportedIsReconciled'
    BY <2>1, <2>4, <2>5 DEF KeysInv, ReportedIsReconciled, StatusCurrent
  <2> QED
    BY <2>2, <2>3, <2>6 DEF KeysInv
<1>5. CASE Crash
  BY <1>5, ProcessEndsKeys DEF Crash
<1>6. CASE Restart
  <2>1. /\ cache' = obj /\ UNCHANGED <<obj, rv, pc, inst, runs>>
        /\ runs = 0 /\ inst = Absent /\ proc' = "up"
    BY <1>6 DEF Restart, KeysInv, DeadIsEmpty
  <2>2. pc' = "idle"
    BY <2>1 DEF TypeOK, PassTypeOK
  <2>3. ReportedIsReconciled'
    BY <2>1 DEF ReportedIsReconciled, StatusCurrent, Involved
  <2>4. Versions' /\ PassProgress' /\ DeadIsEmpty'
    BY <2>1, <2>2 DEF KeysInv, Versions, PassProgress, DeadIsEmpty
  <2> QED
    BY <2>3, <2>4 DEF KeysInv
<1>7. CASE ReconcileNothing \/ ReconcileGetFails \/ NewClientFails
  BY <1>7, KeysQuiet DEF ReconcileNothing, ReconcileGetFails, NewClientFails
<1>8. CASE ReconcileStart
  <2>1. /\ inst' = cache /\ UNCHANGED <<obj, rv, cache, proc, mapVars, runs>>
        /\ cache # Absent /\ cache.statusGen # cache.gen
        /\ pc' \in {"create", "metrics"} /\ proc = "up"
    BY <1>8 DEF ReconcileStart, TakeKey, At
  <2>2. Versions' /\ PassProgress' /\ DeadIsEmpty'
    BY <2>1 DEF KeysInv, Versions, PassProgress, DeadIsEmpty
  <2>3. KeysMatch(obj.spec) => KeysMatch(obj.spec)'
    BY <2>1 DEF KeysMatch, MetricKeysMatch, ModelKeysMatch, PredictorKeysMatch
  <2>4. ReportedIsReconciled'
    BY <2>1, <2>3 DEF KeysInv, ReportedIsReconciled, StatusCurrent, Involved
  <2> QED
    BY <2>2, <2>4 DEF KeysInv
<1>9. ASSUME At("create") \/ At("collector") \/ At("stop") \/ At("unregister") \/ At("schedule")
                \/ At("status"),
             UNCHANGED <<apiVars, cache, proc, mapVars>>,
             \/ inst' = inst /\ \/ pc = "create" /\ pc' = "metrics"
                                \/ pc \in {"collector", "stop", "unregister"}
                                   /\ pc' \in {"stop", "unregister", "predictor"}
                                \/ pc = "schedule" /\ pc' = "status"
             \/ inst' = Absent /\ pc' = "idle"
      PROVE  KeysInv'
  <2>1. inst # Absent /\ proc' = "up" /\ inst' \in {inst, Absent}
    BY <1>9 DEF At, TypeOK, PassTypeOK
  <2>2. PICK s : s = inst.spec
    OBVIOUS
  <2>3. KeysMatch(s) => KeysMatch(s)'
    BY <1>9 DEF KeysMatch, MetricKeysMatch, ModelKeysMatch, PredictorKeysMatch
  <2>4. PassProgress'
    BY <1>9 DEF KeysInv, PassProgress, MetricKeysMatch, ModelKeysMatch, PredictorKeysMatch
  <2> QED
    BY <1>9, <2>1, <2>2, <2>3, <2>4, PassKeepsKeys
<1>10. CASE HandleCreate
  BY <1>9, <1>10 DEF HandleCreate, At, Fail, EndPass
<1>11. CASE HandleMetrics
  <2>1. /\ inst # Absent /\ inst.spec \in Specs /\ metricMap \in [Key -> Metric \cup {Absent}]
        /\ UNCHANGED <<apiVars, cache, inst, modelMap, predictorMap>>
        /\ proc' = "up" /\ pc' = "models"
    BY <1>11 DEF HandleMetrics, At, TypeOK, PassTypeOK, StoreTypeOK, Object
  <2>2. PICK s : s = inst.spec
    OBVIOUS
  <2>3. PICK mid \in AddAndDelete(metricMap, s) : metricMap' \in ChangeLoop(mid, s)
    BY <1>11, <2>2 DEF HandleMetrics
  <2>4. MetricKeysMatch(s)'
    BY <2>1, <2>2, <2>3, MetricKeysSet DEF MetricKeysMatch
  <2>5. KeysMatch(s) => KeysMatch(s)'
    BY <2>1, <2>4 DEF KeysMatch, ModelKeysMatch, PredictorKeysMatch
  <2>6. PassProgress'
    BY <2>1, <2>2, <2>4 DEF PassProgress, MetricKeysMatch
  <2> QED
    BY <2>1, <2>2, <2>5, <2>6, PassKeepsKeys
<1>12. CASE HandleModels
  BY <1>12, HandleModelsKeys
<1>13. CASE HandleCollector
  BY <1>9, <1>13 DEF HandleCollector, At
<1>14. ASSUME NEW k \in Key, CloseStopC(k) PROVE KeysInv'
  BY <1>9, <1>14 DEF CloseStopC, At
<1>15. ASSUME NEW k \in Key, CloseStopCPanics(k) PROVE KeysInv'
  BY <1>15, ProcessEndsKeys DEF CloseStopCPanics
<1>16. CASE Unregister
  BY <1>9, <1>16 DEF Unregister, At
<1>17. CASE StartWorkers
  BY <1>9, <1>17 DEF StartWorkers, At
<1>18. CASE StartWorkersPanics \/ SchedulerPanics
  BY <1>18, ProcessEndsKeys DEF StartWorkersPanics, SchedulerPanics
<1>19. \A w \in changes : w \in WithModelKey /\ (inst # Absent => Listed(inst.spec, w))
  BY DEF TypeOK, PassTypeOK
<1>20. \A w \in ToAdd(inst.spec) : w \in WithModelKey /\ Listed(inst.spec, w)
  BY DEF ToAdd
<1>21. pc = "predictor" => inst # Absent
  BY DEF TypeOK, PassTypeOK
<1>22. CASE HandlePredictor
  <2>1. PICK W : W = ToAdd(inst.spec) \cup changes
    OBVIOUS
  <2>2. W \in SUBSET WithModelKey /\ (\A w \in W : Listed(inst.spec, w))
        /\ ToAdd(inst.spec) \subseteq W
    BY <1>19, <1>20, <1>21, <1>22, <2>1 DEF HandlePredictor, At
  <2>3. /\ predictorMap' = BuildPredictors(inst.spec, W) /\ At("predictor")
        /\ PredictorUnchanged /\ inst' = inst /\ pc' \in {"schedule", "status"}
    BY <1>22, <2>1 DEF HandlePredictor
  <2> QED
    BY <2>2, <2>3, HandlePredictorKeys
<1>23. CASE AddPredictorFails
  <2>1. PICK w \in ToAdd(inst.spec), B \in SUBSET Key :
          predictorMap' = BuildPredictors(inst.spec, AddedBefore(inst.spec, w, B))
    BY <1>23 DEF AddPredictorFails
  <2>2. PICK W : W = AddedBefore(inst.spec, w, B)
    OBVIOUS
  <2>3. W \in SUBSET WithModelKey /\ \A x \in W : Listed(inst.spec, x)
    BY <1>20, <2>2 DEF AddedBefore
  <2>4. inst' = Absent /\ pc' = "idle" /\ At("predictor") /\ PredictorUnchanged
    BY <1>23 DEF AddPredictorFails, Fail, EndPass
  <2> QED
    BY <2>1, <2>2, <2>3, <2>4, HandlePredictorKeys
<1>24. CASE ChangePredictorFails
  <2>1. PICK C \in SUBSET changes :
          predictorMap' = BuildPredictors(inst.spec, ToAdd(inst.spec) \cup C)
    BY <1>24 DEF ChangePredictorFails
  <2>2. PICK W : W = ToAdd(inst.spec) \cup C
    OBVIOUS
  <2>3. inst' = Absent /\ pc' = "idle" /\ At("predictor") /\ PredictorUnchanged
    BY <1>24 DEF ChangePredictorFails, Fail, EndPass
  <2>4. W \in SUBSET WithModelKey /\ \A x \in W : Listed(inst.spec, x)
    BY <1>19, <1>20, <1>21, <2>1, <2>2, <2>3 DEF At
  <2> QED
    BY <2>1, <2>2, <2>3, <2>4, HandlePredictorKeys
<1>25. CASE StartScheduler
  BY <1>9, <1>25 DEF StartScheduler, At
<1>26. CASE UpdateStatus
  BY <1>26, StatusWrittenKeys DEF UpdateStatus, Succeed
<1>27. CASE UpdateStatusRefused
  BY <1>9, <1>27 DEF UpdateStatusRefused, At, Fail, EndPass
<1>28. CASE UpdateStatusLost
  <2>1. CASE StatusWritten
    BY <1>28, <2>1, StatusWrittenKeys DEF UpdateStatusLost, Fail
  <2>2. CASE UNCHANGED apiVars
    BY <1>9, <1>28, <2>2 DEF UpdateStatusLost, At, Fail, EndPass
  <2> QED
    BY <1>28, <2>1, <2>2 DEF UpdateStatusLost
<1>29. ASSUME NEW g \in live, WorkerExits(g) \/ WorkerStops(g) PROVE KeysInv'
  BY <1>29, KeysQuiet DEF WorkerExits, WorkerStops
<1>30. CASE UNCHANGED vars
  BY <1>30, KeysQuiet DEF vars
<1> QED
  BY <1>1, <1>2, <1>3, <1>4, <1>5, <1>6, <1>7, <1>8, <1>10, <1>11, <1>12, <1>13, <1>14,
     <1>15, <1>16, <1>17, <1>18, <1>22, <1>23, <1>24, <1>25, <1>26, <1>27, <1>28, <1>29,
     <1>30 DEF Next, User, PassStep, Fault, WorkerStep

(***************************************************************************)
(* Once the status of an object reports its generation, every copy of the  *)
(* object this process may still read has its spec, and the three maps     *)
(* have that spec's keys: the passes and failures of handleMetrics,        *)
(* handleModels and handlePredictor neither lose nor leave one.            *)
(***************************************************************************)
THEOREM KeysConsistent == Spec => []KeysInv
<1>1. Init => KeysInv
  BY DEF Init, KeysInv, Versions, PassProgress, ReportedIsReconciled, StatusCurrent,
         DeadIsEmpty
<1>2. TypeOK /\ KeysInv /\ [Next]_vars => KeysInv'
  BY KeysStep
<1> QED
  BY <1>1, <1>2, TypeCorrect, PTL DEF Spec

\* A reported generation means that handleMetrics, handleModels and handlePredictor
\* left MetricMap, ModelMap and PredictorMap with exactly the keys of the spec.
THEOREM KeysReconciled == Spec => []ReconciledKeys
<1>1. KeysInv => ReconciledKeys
  BY DEF KeysInv, ReportedIsReconciled, StatusCurrent, Involved, ReconciledKeys, Settled
<1> QED
  BY <1>1, KeysConsistent, PTL

-----------------------------------------------------------------------------
(* The passes implement Reconciliation *)

\* The actions of Reconciliation under the refinement mapping.
LEMMA PromiseActions ==
  /\ \A w : Promise!Write(w) <=>
       /\ ObjectWants' = w /\ ObjectStatus' = "pending"
       /\ UNCHANGED <<inst # Absent, PassWants, Installed>>
  /\ Promise!Delete <=>
       /\ ObjectStatus # "none"
       /\ ObjectWants' = {} /\ ObjectStatus' = "none"
       /\ UNCHANGED <<inst # Absent, PassWants, Installed>>
  /\ \A g : Promise!Begin(g) <=>
       /\ ~(inst # Absent)
       /\ ObjectStatus = "reported" => g = ObjectWants /\ Installed = ObjectWants
       /\ (inst # Absent)' = TRUE /\ PassWants' = g
       /\ UNCHANGED <<ObjectWants, ObjectStatus, Installed>>
  /\ Promise!Install <=>
       /\ inst # Absent
       /\ Installed' \subseteq Installed \cup PassWants
       /\ Installed \cap PassWants \subseteq Installed'
       /\ UNCHANGED <<ObjectWants, ObjectStatus, inst # Absent, PassWants>>
  /\ Promise!Abandon <=>
       /\ inst # Absent
       /\ Installed' \subseteq Installed \cup PassWants
       /\ Installed \cap PassWants \subseteq Installed'
       /\ (inst # Absent)' = FALSE /\ PassWants' = {}
       /\ UNCHANGED <<ObjectWants, ObjectStatus>>
  /\ Promise!Report <=>
       /\ inst # Absent /\ ObjectStatus # "none"
       /\ PassWants = ObjectWants /\ Installed = ObjectWants
       /\ ObjectStatus' = "reported"
       /\ (inst # Absent)' = FALSE /\ PassWants' = {}
       /\ UNCHANGED <<ObjectWants, Installed>>
  /\ Promise!Forget <=>
       /\ Installed' = {}
       /\ (inst # Absent)' = FALSE /\ PassWants' = {}
       /\ UNCHANGED <<ObjectWants, ObjectStatus>>
  /\ UNCHANGED Promise!vars
       <=> UNCHANGED <<ObjectWants, ObjectStatus, inst # Absent, PassWants, Installed>>
BY DEF Promise!Write, Promise!Delete, Promise!Begin, Promise!Install, Promise!Abandon,
       Promise!Report, Promise!Forget, Promise!Toward, Promise!Rest, Promise!vars

\* Sets of entries are compared kind by kind.
LEMMA EntriesToward ==
  ASSUME NEW a, NEW b, NEW c, NEW a1, NEW b1, NEW c1, NEW a2, NEW b2, NEW c2,
         a \subseteq a1 \cup a2, b \subseteq b1 \cup b2, c \subseteq c1 \cup c2,
         a1 \cap a2 \subseteq a, b1 \cap b2 \subseteq b, c1 \cap c2 \subseteq c
  PROVE  /\ Entries(a, b, c) \subseteq Entries(a1, b1, c1) \cup Entries(a2, b2, c2)
         /\ Entries(a1, b1, c1) \cap Entries(a2, b2, c2) \subseteq Entries(a, b, c)
  BY DEF Entries

\* Maps with the keys of a spec hold exactly the entries that it asks for.
LEMMA KeysMatchInstalled ==
  ASSUME StoreTypeOK, NEW s, KeysMatch(s)
  PROVE  Installed = Wanted(s)
<1>1. Held(metricMap) = MetricKeys(s)
  BY DEF StoreTypeOK, Held, MetricKeys, KeysMatch, MetricKeysMatch
<1>2. Held(modelMap) = {w \in WithModelKey : Listed(s, w)}
  BY DEF StoreTypeOK, Held, KeysMatch, ModelKeysMatch
<1>3. Held(predictorMap) = {w \in WithModelKey : Listed(s, w)}
  BY DEF StoreTypeOK, Held, KeysMatch, PredictorKeysMatch
<1> QED
  BY <1>1, <1>2, <1>3 DEF Installed, Wanted

\* A step that leaves the maps alone leaves the entries alone.
LEMMA SameInstalled ==
  ASSUME UNCHANGED mapVars
  PROVE  Installed' = Installed
  BY DEF mapVars, Installed

(***************************************************************************)
(* A step of the pass that adds to each map only keys of its spec and      *)
(* removes only others installs, or abandons when the pass ends with it.   *)
(***************************************************************************)
LEMMA PassToward ==
  ASSUME StoreTypeOK, StoreTypeOK', inst # Absent, obj' = obj, inst' \in {inst, Absent},
         NEW CONSTANT s, s = inst.spec,
         \A k \in Key : /\ metricMap'[k] # Absent => metricMap[k] # Absent \/ HasMetric(s, k)
                        /\ metricMap[k] # Absent /\ HasMetric(s, k) => metricMap'[k] # Absent,
         \A w \in WithModelKey :
           /\ modelMap'[w] # Absent => modelMap[w] # Absent \/ Listed(s, w)
           /\ modelMap[w] # Absent /\ Listed(s, w) => modelMap'[w] # Absent,
         \A w \in WithModelKey :
           /\ predictorMap'[w] # Absent => predictorMap[w] # Absent \/ Listed(s, w)
           /\ predictorMap[w] # Absent /\ Listed(s, w) => predictorMap'[w] # Absent
  PROVE  Promise!Install \/ Promise!Abandon
<1> DEFINE models == {w \in WithModelKey : Listed(s, w)}
<1>1. /\ Held(metricMap') \subseteq Held(metricMap) \cup MetricKeys(s)
      /\ Held(metricMap) \cap MetricKeys(s) \subseteq Held(metricMap')
  BY DEF StoreTypeOK, Held, MetricKeys
<1>2. /\ Held(modelMap') \subseteq Held(modelMap) \cup models
      /\ Held(modelMap) \cap models \subseteq Held(modelMap')
  BY DEF StoreTypeOK, Held
<1>3. /\ Held(predictorMap') \subseteq Held(predictorMap) \cup models
      /\ Held(predictorMap) \cap models \subseteq Held(predictorMap')
  BY DEF StoreTypeOK, Held
<1>4. Wanted(s) = Entries(MetricKeys(s), models, models)
  BY DEF Wanted
<1> HIDE DEF models
<1>5. /\ Installed' \subseteq Installed \cup Wanted(s)
      /\ Installed \cap Wanted(s) \subseteq Installed'
  BY <1>1, <1>2, <1>3, <1>4, EntriesToward DEF Installed
<1>6. PassWants = Wanted(s)
  BY DEF PassWants
<1>7. UNCHANGED <<ObjectWants, ObjectStatus>>
  BY DEF ObjectWants, ObjectStatus
<1>8. CASE inst' = inst
  <2>1. UNCHANGED <<inst # Absent, PassWants>>
    BY <1>8 DEF PassWants
  <2> QED
    BY <1>5, <1>6, <1>7, <2>1, PromiseActions
<1>9. CASE inst' = Absent
  <2>1. (inst # Absent)' = FALSE /\ PassWants' = {}
    BY <1>9 DEF PassWants
  <2> QED
    BY <1>5, <1>6, <1>7, <2>1, PromiseActions
<1> QED
  BY <1>8, <1>9

\* The end of the process forgets every entry and leaves the status as it is.
LEMMA ProcessEndsForgets ==
  ASSUME NEW reason, ProcessEnds(reason), UNCHANGED apiVars
  PROVE  Promise!Forget
<1>1. Held(metricMap') = {} /\ Held(modelMap') = {} /\ Held(predictorMap') = {}
  BY DEF ProcessEnds, Held
<1>2. Installed' = {}
  BY <1>1 DEF Installed, Entries
<1>3. (inst # Absent)' = FALSE /\ PassWants' = {}
  BY DEF ProcessEnds, EndPass, PassWants
<1>4. UNCHANGED <<ObjectWants, ObjectStatus>>
  BY DEF ObjectWants, ObjectStatus, apiVars
<1> QED
  BY <1>2, <1>3, <1>4, PromiseActions

\* The write of the status reports a spec that is installed as a whole.
LEMMA StatusWrittenReports ==
  ASSUME TypeOK, KeysInv, At("status"), StatusWritten, EndPass, UNCHANGED mapVars
  PROVE  Promise!Report
<1>1. inst # Absent /\ obj = inst
  BY DEF TypeOK, PassTypeOK, KeysInv, Versions, At, StatusWritten
<1>2. obj \in Object
  BY <1>1 DEF TypeOK, ApiTypeOK, PassTypeOK
<1>3. obj' = [obj EXCEPT !.statusGen = obj.gen, !.rv = rv + 1]
  BY <1>1 DEF StatusWritten
<1>4. obj'.spec = obj.spec /\ obj'.statusGen = obj'.gen /\ obj' # Absent
  <2>1. obj' \in Object
    BY StatusWrittenType DEF At
  <2>2. obj' # Absent
    BY <2>1, ObjectAssumption
  <2> QED
    BY <1>2, <1>3, <2>2 DEF Object
<1>5. KeysMatch(obj.spec)
  BY <1>1 DEF KeysInv, PassProgress, KeysMatch, At
<1>6. Installed = ObjectWants /\ PassWants = ObjectWants /\ ObjectStatus # "none"
  BY <1>1, <1>5, KeysMatchInstalled DEF TypeOK, ObjectWants, PassWants, ObjectStatus
<1>7. ObjectStatus' = "reported" /\ ObjectWants' = ObjectWants
  BY <1>1, <1>4 DEF ObjectStatus, ObjectWants
<1>8. (inst # Absent)' = FALSE /\ PassWants' = {}
  BY DEF EndPass, PassWants
<1> QED
  BY <1>1, <1>6, <1>7, <1>8, SameInstalled, PromiseActions

(***************************************************************************)
(* Every step of the system is a step of Reconciliation or leaves its      *)
(* variables alone.                                                        *)
(***************************************************************************)
LEMMA PromiseStep ==
  ASSUME TypeOK, TypeOK', KeysInv, [Next]_vars
  PROVE  [Promise!Next]_Promise!vars
<1> USE DEF apiVars, mapVars, passVars
<1>1. ASSUME UNCHANGED <<obj, inst, mapVars>> PROVE UNCHANGED Promise!vars
  <2>1. UNCHANGED <<ObjectWants, ObjectStatus, inst # Absent, PassWants, Installed>>
    BY <1>1, SameInstalled DEF ObjectWants, ObjectStatus, PassWants
  <2> QED
    BY <2>1, PromiseActions
<1>2. ASSUME NEW s \in Specs, CreateObject(s) \/ EditSpec(s) PROVE Promise!Write(Wanted(s))
  <2>1. UNCHANGED <<inst, mapVars>>
    BY <1>2 DEF CreateObject, EditSpec
  <2>2. obj' # Absent /\ obj'.spec = s /\ obj'.statusGen # obj'.gen
    <3>1. CASE CreateObject(s)
      <4>1. obj' = [spec |-> s, gen |-> 1, statusGen |-> 0, rv |-> rv + 1]
        BY <3>1 DEF CreateObject
      <4> QED
        BY <4>1, ObjectAssumption DEF TypeOK, ApiTypeOK, Object
    <3>2. CASE EditSpec(s)
      <4>1. obj \in Object /\ obj' = [obj EXCEPT !.spec = s, !.gen = obj.gen + 1, !.rv = rv + 1]
        BY <3>2 DEF EditSpec, TypeOK, ApiTypeOK
      <4>2. obj.statusGen <= obj.gen /\ obj.gen \in Nat /\ obj.statusGen \in Nat /\ rv \in Nat
        BY <3>2, <4>1 DEF EditSpec, KeysInv, Versions, Object, TypeOK, ApiTypeOK
      <4>3. obj'.spec = s /\ obj'.gen = obj.gen + 1 /\ obj'.statusGen = obj.statusGen
        BY <4>1 DEF Object
      <4>4. obj' # Absent
        <5>1. obj.gen + 1 \in Nat /\ rv + 1 \in Nat
          BY <4>2
        <5>2. obj' \in Object
          BY <4>1, <5>1 DEF Object
        <5> QED
          BY <5>2, ObjectAssumption
      <4> QED
        BY <4>2, <4>3, <4>4
    <3> QED
      BY <1>2, <3>1, <3>2
  <2>3. ObjectWants' = Wanted(s) /\ ObjectStatus' = "pending"
    BY <2>2 DEF ObjectWants, ObjectStatus
  <2>4. UNCHANGED <<inst # Absent, PassWants, Installed>>
    BY <2>1, SameInstalled DEF PassWants
  <2> QED
    BY <2>3, <2>4, PromiseActions
<1>3. ASSUME DeleteObject PROVE Promise!Delete
  <2>1. ObjectStatus # "none" /\ ObjectWants' = {} /\ ObjectStatus' = "none"
    BY <1>3 DEF DeleteObject, ObjectStatus, ObjectWants
  <2>2. UNCHANGED <<inst # Absent, PassWants, Installed>>
    BY <1>3, SameInstalled DEF DeleteObject, PassWants
  <2> QED
    BY <2>1, <2>2, PromiseActions
<1>4. CASE \/ CacheSync \/ Restart \/ ReconcileNothing \/ ReconcileGetFails \/ NewClientFails
           \/ HandleCollector \/ Unregister \/ StartWorkers \/ StartScheduler
  BY <1>1, <1>4 DEF CacheSync, Restart, ReconcileNothing, ReconcileGetFails, NewClientFails,
                    HandleCollector, Unregister, StartWorkers, StartScheduler
<1>5. ASSUME NEW k \in Key, CloseStopC(k) PROVE UNCHANGED Promise!vars
  BY <1>1, <1>5 DEF CloseStopC
<1>6. ASSUME NEW g \in live, WorkerExits(g) \/ WorkerStops(g) PROVE UNCHANGED Promise!vars
  BY <1>1, <1>6 DEF WorkerExits, WorkerStops
<1>7. ASSUME NEW k \in Key, CloseStopCPanics(k) PROVE Promise!Forget
  BY <1>7, ProcessEndsForgets DEF CloseStopCPanics
<1>8. ASSUME Crash \/ StartWorkersPanics \/ SchedulerPanics PROVE Promise!Forget
  BY <1>8, ProcessEndsForgets DEF Crash, StartWorkersPanics, SchedulerPanics
<1>9. ASSUME ReconcileStart PROVE \E s \in Specs : Promise!Begin(Wanted(s))
  <2>1. /\ inst' = cache /\ UNCHANGED <<obj, mapVars>>
        /\ cache # Absent /\ cache.statusGen # cache.gen
        /\ inst = Absent /\ cache.spec \in Specs
    BY <1>9 DEF ReconcileStart, TakeKey, At, TypeOK, ApiTypeOK, PassTypeOK, Object
  <2>2. ASSUME ObjectStatus = "reported"
        PROVE  Wanted(cache.spec) = ObjectWants /\ Installed = ObjectWants
    <3>1. StatusCurrent /\ Involved
      BY <2>1, <2>2 DEF ObjectStatus, StatusCurrent, Involved
    <3>2. KeysMatch(obj.spec) /\ cache.spec = obj.spec /\ obj # Absent
      BY <3>1 DEF KeysInv, ReportedIsReconciled, StatusCurrent
    <3> QED
      BY <3>2, KeysMatchInstalled DEF TypeOK, ObjectWants
  <2>3. (inst # Absent)' = TRUE /\ PassWants' = Wanted(cache.spec)
    BY <2>1 DEF PassWants
  <2>4. UNCHANGED <<ObjectWants, ObjectStatus, Installed>>
    BY <2>1, SameInstalled DEF ObjectWants, ObjectStatus
  <2>5. Promise!Begin(Wanted(cache.spec))
    BY <2>1, <2>2, <2>3, <2>4, PromiseActions
  <2> QED
    BY <2>1, <2>5
<1>10. pc # "idle" => inst # Absent /\ inst.spec \in Specs
  BY DEF TypeOK, PassTypeOK, Object
<1>11. StoreTypeOK /\ StoreTypeOK'
  BY DEF TypeOK
<1>12. ASSUME pc # "idle", obj' = obj, inst' \in {inst, Absent}, UNCHANGED mapVars
       PROVE  Promise!Install \/ Promise!Abandon
  <2>1. PICK s : s = inst.spec
    OBVIOUS
  <2> QED
    BY <1>10, <1>11, <1>12, <2>1, PassToward
<1>13. ASSUME HandleCreate \/ UpdateStatusRefused PROVE Promise!Install \/ Promise!Abandon
  BY <1>12, <1>13 DEF HandleCreate, UpdateStatusRefused, At, Fail, EndPass
<1>14. ASSUME HandleMetrics PROVE Promise!Install \/ Promise!Abandon
  <2>1. /\ inst # Absent /\ inst.spec \in Specs /\ metricMap \in [Key -> Metric \cup {Absent}]
        /\ UNCHANGED <<obj, inst, modelMap, predictorMap>>
    BY <1>10, <1>11, <1>14 DEF HandleMetrics, At, StoreTypeOK
  <2>2. PICK s : s = inst.spec
    OBVIOUS
  <2>3. PICK mid \in AddAndDelete(metricMap, s) : metricMap' \in ChangeLoop(mid, s)
    BY <1>14, <2>2 DEF HandleMetrics
  <2>4. \A k \in Key : metricMap'[k] # Absent <=> HasMetric(s, k)
    BY <2>1, <2>2, <2>3, MetricKeysSet
  <2> QED
    BY <1>11, <2>1, <2>2, <2>4, PassToward
<1>15. ASSUME HandleModels PROVE Promise!Install \/ Promise!Abandon
  <2>1. /\ inst # Absent /\ inst.spec \in Specs /\ inst' \in {inst, Absent}
        /\ UNCHANGED <<obj, metricMap, predictorMap>>
    BY <1>10, <1>15 DEF HandleModels, At, Fail, EndPass
  <2>2. PICK s : s = inst.spec
    OBVIOUS
  <2>3. ASSUME NEW w \in WithModelKey
        PROVE  /\ modelMap'[w] # Absent => modelMap[w] # Absent \/ Listed(s, w)
               /\ modelMap[w] # Absent /\ Listed(s, w) => modelMap'[w] # Absent
    <3>1. CASE modelMap' = [x \in WithModelKey |-> IF Listed(s, x) THEN StoreModels(s, Key)[x]
                                                   ELSE Absent]
      BY <1>11, <2>1, <2>2, <3>1, ModelKeysStored
    <3>2. ASSUME NEW V \in SUBSET Key, modelMap' = StoreModels(s, V)
          PROVE  /\ modelMap'[w] # Absent => modelMap[w] # Absent \/ Listed(s, w)
                 /\ modelMap[w] # Absent /\ Listed(s, w) => modelMap'[w] # Absent
      BY <1>11, <2>1, <2>2, <3>2, ModelKeysStored
    <3> QED
      BY <1>15, <2>2, <3>1, <3>2 DEF HandleModels
  <2> QED
    BY <1>11, <2>1, <2>2, <2>3, PassToward
<1>16. ASSUME HandlePredictor \/ AddPredictorFails \/ ChangePredictorFails
       PROVE  Promise!Install \/ Promise!Abandon
  <2>1. /\ inst # Absent /\ inst.spec \in Specs /\ inst' \in {inst, Absent}
        /\ UNCHANGED <<obj, metricMap, modelMap>>
    BY <1>10, <1>16 DEF HandlePredictor, AddPredictorFails, ChangePredictorFails, At, Fail,
                        EndPass, PredictorUnchanged
  <2>2. PICK s : s = inst.spec
    OBVIOUS
  <2>3. /\ \A w \in changes : w \in WithModelKey /\ Listed(s, w)
        /\ \A w \in ToAdd(s) : w \in WithModelKey /\ Listed(s, w)
    BY <2>1, <2>2 DEF TypeOK, PassTypeOK, ToAdd
  <2>4. PICK W \in SUBSET WithModelKey :
          predictorMap' = BuildPredictors(s, W) /\ \A w \in W : Listed(s, w)
    <3>1. CASE HandlePredictor
      BY <2>2, <2>3, <3>1 DEF HandlePredictor
    <3>2. CASE AddPredictorFails
      BY <2>2, <2>3, <3>2 DEF AddPredictorFails, AddedBefore
    <3>3. CASE ChangePredictorFails
      BY <2>2, <2>3, <3>3 DEF ChangePredictorFails
    <3> QED
      BY <1>16, <3>1, <3>2, <3>3
  <2>5. \A w \in WithModelKey : predictorMap'[w] # Absent
          <=> w \in W \/ (Listed(s, w) /\ predictorMap[w] # Absent)
    BY <1>11, <2>1, <2>2, <2>4, PredictorKeysBuilt DEF TypeOK
  <2> QED
    BY <1>11, <2>1, <2>2, <2>4, <2>5, PassToward
<1>17. ASSUME UpdateStatus PROVE Promise!Report
  BY <1>17, StatusWrittenReports DEF UpdateStatus, Succeed
<1>18. ASSUME UpdateStatusLost PROVE Promise!Report \/ Promise!Abandon \/ Promise!Install
  <2>1. CASE StatusWritten
    BY <1>18, <2>1, StatusWrittenReports DEF UpdateStatusLost, Fail
  <2>2. CASE UNCHANGED apiVars
    BY <1>12, <1>18, <2>2 DEF UpdateStatusLost, At, Fail, EndPass
  <2> QED
    BY <1>18, <2>1, <2>2 DEF UpdateStatusLost
<1>19. CASE UNCHANGED vars
  BY <1>1, <1>19 DEF vars
<1>20. ASSUME NEW s \in Specs, Promise!Write(Wanted(s)) \/ Promise!Begin(Wanted(s))
       PROVE  Promise!Next
  BY <1>20 DEF Promise!Next
<1>21. ASSUME User PROVE Promise!Next
  BY <1>2, <1>3, <1>20, <1>21 DEF User, Promise!Next
<1>22. ASSUME PassStep PROVE [Promise!Next]_Promise!vars
  BY <1>4, <1>5, <1>7, <1>8, <1>9, <1>13, <1>14, <1>15, <1>16, <1>17, <1>20, <1>22
     DEF PassStep, Promise!Next
<1>23. ASSUME Fault PROVE [Promise!Next]_Promise!vars
  BY <1>4, <1>18, <1>23 DEF Fault, Promise!Next
<1> QED
  BY <1>4, <1>6, <1>8, <1>19, <1>21, <1>22, <1>23 DEF Next, WorkerStep, Promise!Next

(***************************************************************************)
(* The reconciler implements Reconciliation for every set of specs: its    *)
(* passes, error returns, repetitions and process ends only move the maps  *)
(* towards the spec of the pass, and a status is only written over maps    *)
(* that have exactly the keys of the spec it names.                        *)
(***************************************************************************)
THEOREM PromiseKept == Spec => PassesKeepPromise
<1>1. Init => Promise!Init
  <2> SUFFICES ASSUME Init PROVE Promise!Init
    OBVIOUS
  <2>1. Held(metricMap) = {} /\ Held(modelMap) = {} /\ Held(predictorMap) = {}
    BY DEF Init, Held
  <2>2. Installed = {}
    BY <2>1 DEF Installed, Entries
  <2> QED
    BY <2>2 DEF Init, Promise!Init, ObjectWants, ObjectStatus, PassWants
<1>2. TypeOK /\ TypeOK' /\ KeysInv /\ [Next]_vars => [Promise!Next]_Promise!vars
  BY PromiseStep
<1> QED
  BY <1>1, <1>2, TypeCorrect, KeysConsistent, PTL DEF Spec, PassesKeepPromise, Promise!Spec

(***************************************************************************)
(* What makes Kept inductive: a spec that is taken up again while it is    *)
(* reported is the reported one, and all of it is installed.               *)
(***************************************************************************)
KeptInv ==
  ObjectStatus = "reported" =>
    /\ Installed \in {ObjectWants, {}}
    /\ inst # Absent => PassWants = ObjectWants /\ Installed = ObjectWants

\* Steps of Reconciliation alone, whatever implements them, keep what is reported.
LEMMA KeptStep ==
  ASSUME KeptInv, [Promise!Next]_Promise!vars
  PROVE  KeptInv'
<1>1. ASSUME NEW w, Promise!Write(w) PROVE KeptInv'
  BY <1>1, PromiseActions DEF KeptInv
<1>2. CASE Promise!Delete
  BY <1>2, PromiseActions DEF KeptInv
<1>3. ASSUME NEW g, Promise!Begin(g) PROVE KeptInv'
  BY <1>3, PromiseActions DEF KeptInv
<1>4. CASE Promise!Install \/ Promise!Abandon
  <2>1. /\ inst # Absent /\ UNCHANGED <<ObjectWants, ObjectStatus>>
        /\ Installed' \subseteq Installed \cup PassWants
        /\ Installed \cap PassWants \subseteq Installed'
        /\ (inst # Absent)' => PassWants' = PassWants
    BY <1>4, PromiseActions
  <2>2. ASSUME ObjectStatus = "reported" PROVE Installed' = Installed
    BY <2>1, <2>2 DEF KeptInv
  <2> QED
    BY <2>1, <2>2 DEF KeptInv
<1>5. CASE Promise!Report
  BY <1>5, PromiseActions DEF KeptInv
<1>6. CASE Promise!Forget
  BY <1>6, PromiseActions DEF KeptInv
<1>7. CASE UNCHANGED Promise!vars
  BY <1>7, PromiseActions DEF KeptInv
<1> QED
  BY <1>1, <1>2, <1>3, <1>4, <1>5, <1>6, <1>7 DEF Promise!Next

(***************************************************************************)
(* A status that names the generation of the spec was written over maps    *)
(* with exactly its keys, and no later pass, failure or stale read of that *)
(* process leaves a part of them or another spec's.                        *)
(***************************************************************************)
THEOREM ReportsKept == Spec => []ReportedKeys
<1>1. Promise!Init => KeptInv
  BY DEF Promise!Init, KeptInv
<1>2. KeptInv /\ [Promise!Next]_Promise!vars => KeptInv'
  BY KeptStep
<1>3. KeptInv => ReportedKeys
  BY DEF KeptInv, ReportedKeys, Promise!Kept
<1> QED
  BY <1>1, <1>2, <1>3, PromiseKept, PTL DEF PassesKeepPromise, Promise!Spec

=============================================================================
