----------------------------- MODULE SharedStore -----------------------------
(***************************************************************************)
(* Several AOM objects in one process.  They share store.globalStore, the  *)
(* map from names to Hides that GetHide (common/store/store.go) reads and  *)
(* fills without a lock, and pCollector, the one Prometheus collector      *)
(* (controllers/aom_controller.go, collector/prometheus_collector).  One   *)
(* worker reconciles the objects in turn; beside it run the goroutines of  *)
(* StartWorker and Scheduler.Run.  What a pass does to the maps inside a   *)
(* Hide is in AOMController; here metrics only come, they do not go.       *)
(***************************************************************************)
EXTENDS Integers, FiniteSets

CONSTANTS
  Name,      \* the NamespacedNames of the objects
  Key,       \* NoModelKeys
  Address,   \* of Prometheus servers
  Invalid,   \* the addresses that api.NewClient rejects
  Specs,     \* the specs that users write
  MaxGen,    \* bound on metadata.generation
  Absent

AOMSpec == [addr : Address, keys : SUBSET Key]

ASSUME StoreAssumption ==
  /\ IsFiniteSet(Name) /\ IsFiniteSet(Key)
  /\ Invalid \subseteq Address /\ Specs \subseteq AOMSpec
  /\ Absent \notin Address \cup Name
  /\ MaxGen \in Nat \ {0}

VARIABLES
  obj,         \* the objects in the API server
  up,          \* the process runs
  store,       \* globalStore: the Hide of each name, 0 for none
  hides,       \* how many Hides were made
  collected,   \* the keys of each Hide's CollectorMap
  promc,       \* pCollector is set
  client,      \* pCollector's client: the server it queries, or Absent
  pc, name,    \* the pass: where it is, and for which object
  inst,        \* the object as the pass read it
  goroutines   \* of StartWorker and Run

storeVars == <<store, hides, collected>>
promcVars == <<promc, client>>
passVars  == <<pc, name, inst>>

vars == <<obj, up, storeVars, promcVars, passVars, goroutines>>

Object == [spec : Specs, gen : 1 .. MaxGen, statusGen : 0 .. MaxGen]

\* own: the address in the spec of the pass that started it; created: by handleCreate.
Goroutine == [kind : {"worker", "run"}, name : Name, key : Key \cup {Absent},
              at : {"start", "reading", "loop"}, hide : Nat,
              addr : Address \cup {Absent}, own : Address \cup {Absent},
              created : BOOLEAN]

\* Nothing of a process is there yet, or any more.
Fresh(st, hs, co, pr, cl, p, nm, in, gs) ==
  /\ st = [n \in Name |-> 0] /\ hs = 0 /\ co = [n \in Name |-> {}]
  /\ pr = FALSE /\ cl = Absent
  /\ p = "idle" /\ nm = Absent /\ in = Absent
  /\ gs = {}

Init ==
  /\ obj = [n \in Name |-> Absent]
  /\ up = TRUE
  /\ Fresh(store, hides, collected, promc, client, pc, name, inst, goroutines)

-----------------------------------------------------------------------------
(* The users, and the life of the process *)

Create(n, s) ==
  /\ obj[n] = Absent
  /\ obj' = [obj EXCEPT ![n] = [spec |-> s, gen |-> 1, statusGen |-> 0]]
  /\ UNCHANGED <<up, storeVars, promcVars, passVars, goroutines>>

Edit(n, s) ==
  /\ obj[n] # Absent /\ obj[n].gen < MaxGen
  /\ s # obj[n].spec /\ obj[n].spec.keys \subseteq s.keys
  /\ obj' = [obj EXCEPT ![n].spec = s, ![n].gen = @ + 1]
  /\ UNCHANGED <<up, storeVars, promcVars, passVars, goroutines>>

ProcessEnds ==
  /\ up' = FALSE
  /\ Fresh(store', hides', collected', promc', client', pc', name', inst', goroutines')
  /\ UNCHANGED obj

Killed == up /\ ProcessEnds

Restart ==
  /\ ~up /\ up' = TRUE
  /\ UNCHANGED <<obj, storeVars, promcVars, passVars, goroutines>>

-----------------------------------------------------------------------------
(* GetHide *)

\* Mutant of Found: the entry is not looked at.
FoundNothing(n) == hides + 1

\* The Hide that GetHide(n) returns.
Found(n) == IF store[n] = 0 THEN hides + 1 ELSE store[n]

\* GetHide returns: a Hide that was not in the map is in it now.
GetHide(n) ==
  /\ store' = [store EXCEPT ![n] = Found(n)]
  /\ hides' = IF Found(n) > hides THEN Found(n) ELSE hides
  /\ collected' = [collected EXCEPT ![n] = IF Found(n) = store[n] THEN @ ELSE {}]

-----------------------------------------------------------------------------
(* A pass of the reconciler *)

At(point) == up /\ pc = point

Creating == inst.statusGen = 0

\* Reconcile takes an object off the queue; Handle sees a new generation.
StartPass(n) ==
  /\ At("idle")
  /\ obj[n] # Absent /\ obj[n].statusGen # obj[n].gen
  /\ name' = n /\ inst' = obj[n]
  /\ pc' = IF obj[n].statusGen = 0 THEN "address" ELSE "hide"
  /\ UNCHANGED <<obj, up, storeVars, promcVars, goroutines>>

\* Mutant of EndPass: the object of the pass is kept.
EndPassKeepsObject == pc' = "idle" /\ name' = Absent /\ inst' = inst

EndPass == pc' = "idle" /\ name' = Absent /\ inst' = Absent

\* Mutant of SetServerAddress: under promcOnce as well.
SetServerAddressOnce(addr) ==
  client' = IF addr \notin Invalid /\ client = Absent THEN addr ELSE client

\* The client that the collector had is kept when api.NewClient fails.
SetServerAddress(addr) == client' = IF addr \notin Invalid THEN addr ELSE client

\* The start of handleCreate: promcOnce and the server address.
HandleCreate ==
  /\ At("address")
  /\ promc' = TRUE
  /\ SetServerAddress(inst.spec.addr)
  /\ \/ inst.spec.addr \notin Invalid /\ pc' = "hide" /\ UNCHANGED <<name, inst>>
     \/ inst.spec.addr \in Invalid /\ EndPass
  /\ UNCHANGED <<obj, up, storeVars, goroutines>>

\* The first GetHide of the pass finds the Hide.
FindHide ==
  /\ At("hide") /\ store[name] # 0
  /\ GetHide(name)
  /\ pc' = "collector"
  /\ UNCHANGED <<obj, up, promcVars, name, inst, goroutines>>

\* Mutant of WriteBegins: a new Hide for every pass.
WriteBeginsAlways ==
  /\ At("hide")
  /\ pc' = "writing"
  /\ UNCHANGED <<obj, up, storeVars, promcVars, name, inst, goroutines>>

\* It does not, and writes to the map: the write has a begin and an end.
WriteBegins ==
  /\ At("hide") /\ store[name] = 0
  /\ pc' = "writing"
  /\ UNCHANGED <<obj, up, storeVars, promcVars, name, inst, goroutines>>

WriteEnds ==
  /\ At("writing")
  /\ GetHide(name)
  /\ pc' = "collector"
  /\ UNCHANGED <<obj, up, promcVars, name, inst, goroutines>>

\* A goroutine of the pass's object, at its beginning.
Started(kind, k, addr, own, created) ==
  [kind |-> kind, name |-> name, key |-> k, at |-> "start", hide |-> 0,
   addr |-> addr, own |-> own, created |-> created]

Worker(k) == Started("worker", k, client, inst.spec.addr, Creating)
Run       == Started("run", Absent, Absent, Absent, TRUE)

ToAdd == inst.spec.keys \ collected[name]

\* handleCollector: a worker, with the client of the moment, for every new metric.
HandleCollector ==
  /\ At("collector") /\ (ToAdd # {} => promc)
  /\ collected' = [collected EXCEPT ![name] = @ \cup inst.spec.keys]
  /\ goroutines' = goroutines \cup {Worker(k) : k \in ToAdd}
  /\ pc' = "schedule"
  /\ UNCHANGED <<obj, up, store, hides, promcVars, name, inst>>

\* pCollector is nil: nobody ran handleCreate in this process.
HandleCollectorPanics ==
  /\ At("collector") /\ ToAdd # {} /\ ~promc
  /\ ProcessEnds

\* A Run of the pass's object: a repeated handleCreate starts another one.
HasRun == \E g \in goroutines : g.kind = "run" /\ g.name = name

(***************************************************************************)
(* handleCreate ends with "go schdlr.Run"; then the status is written,     *)
(* unless the object was edited or the update fails.  One goroutine stands *)
(* for all Runs of an object: they read the map in the same way.           *)
(***************************************************************************)
Schedule ==
  /\ At("schedule")
  /\ goroutines' = goroutines \cup (IF Creating /\ ~HasRun THEN {Run} ELSE {})
  /\ \/ obj[name] = inst /\ obj' = [obj EXCEPT ![name].statusGen = inst.gen]
     \/ UNCHANGED obj
  /\ EndPass
  /\ UNCHANGED <<up, storeVars, promcVars>>

\* A model lacks its metric or cannot be built: the pass is repeated.
PassFails ==
  /\ At("collector") \/ At("schedule")
  /\ EndPass
  /\ UNCHANGED <<obj, up, storeVars, promcVars, goroutines>>

-----------------------------------------------------------------------------
(* The goroutines: StartWorker calls GetHide once, Run at every tick *)

Becomes(g, h) == goroutines' = (goroutines \ {g}) \cup {h}

ReadBegins(g) ==
  /\ up
  /\ g.at = "start" \/ (g.at = "loop" /\ g.kind = "run")
  /\ Becomes(g, [g EXCEPT !.at = "reading"])
  /\ UNCHANGED <<obj, up, storeVars, promcVars, passVars>>

ReadEnds(g) ==
  /\ up /\ g.at = "reading"
  /\ GetHide(g.name)
  /\ Becomes(g, [g EXCEPT !.at = "loop", !.hide = Found(g.name)])
  /\ UNCHANGED <<obj, up, promcVars, passVars>>

\* The Go runtime may notice that the map is read while it is written.
ConcurrentMapAccess ==
  /\ At("writing") /\ \E g \in goroutines : g.at = "reading"
  /\ ProcessEnds

\* Collect with the nil client of a pCollector that never got a valid address.
CollectPanics(g) ==
  /\ up /\ g.kind = "worker" /\ g.at = "loop" /\ g.addr = Absent
  /\ ProcessEnds

-----------------------------------------------------------------------------
Pass ==
  \/ \E n \in Name : StartPass(n)
  \/ HandleCreate \/ FindHide \/ WriteBegins \/ WriteEnds
  \/ HandleCollector \/ HandleCollectorPanics \/ Schedule \/ PassFails

Next ==
  \/ \E n \in Name, s \in Specs : Create(n, s) \/ Edit(n, s)
  \/ Pass
  \/ \E g \in goroutines : ReadBegins(g) \/ ReadEnds(g) \/ CollectPanics(g)
  \/ ConcurrentMapAccess
  \/ Killed \/ Restart

Spec == Init /\ [][Next]_vars

-----------------------------------------------------------------------------
\* Every variable has its type, a pass has its object, and no two names share a Hide.
TypeOK ==
  /\ obj \in [Name -> Object \cup {Absent}]
  /\ up \in BOOLEAN /\ promc \in BOOLEAN /\ client \in Address \cup {Absent}
  /\ store \in [Name -> 0 .. hides] /\ hides \in Nat
  /\ collected \in [Name -> SUBSET Key]
  /\ pc \in {"idle", "address", "hide", "writing", "collector", "schedule"}
  /\ pc = "idle" <=> name = Absent
  /\ pc = "idle" <=> inst = Absent
  /\ name \in Name \cup {Absent} /\ inst \in Object \cup {Absent}
  /\ goroutines \subseteq Goroutine
  /\ \A n, m \in Name : store[n] = store[m] /\ store[n] # 0 => n = m

(***************************************************************************)
(* A goroutine works on the Hide that the reconciler edits: GetHide never  *)
(* makes a second Hide for a name, although every caller makes one when it *)
(* finds none and nothing orders the callers.                              *)
(***************************************************************************)
GoroutinesShareHide ==
  \A g \in goroutines : store[g.name] # 0 /\ g.hide \in {0, store[g.name]}

(***************************************************************************)
(* The workers that handleCreate starts query the server of their own      *)
(* object, although all objects set the address of one pCollector.         *)
(***************************************************************************)
CreatedWorkersUseOwnServer ==
  \A g \in goroutines : g.kind = "worker" /\ g.created => g.addr = g.own

(***************************************************************************)
(* The unlocked write to the map can only meet goroutines of other         *)
(* objects: those of an object start after its Hide is in the map, and it  *)
(* stays there.  A process with one object cannot die of the missing lock. *)
(***************************************************************************)
WritesMeetOthersOnly ==
  pc = "writing" => \A g \in goroutines : g.name # name

\* A worker queries the server that the spec of its object names.
WorkersUseOwnServer ==
  \A g \in goroutines : g.kind = "worker" => g.addr = g.own

=============================================================================
