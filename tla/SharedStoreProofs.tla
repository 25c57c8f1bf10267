-------------------------- MODULE SharedStoreProofs --------------------------
(***************************************************************************)
(* Proofs for SharedStore: for any number of objects, metrics and servers, *)
(* the goroutines of an object work on the Hide that its passes edit, and  *)
(* the workers of a first pass on the server that its spec names.          *)
(***************************************************************************)
EXTENDS SharedStore, TLAPS

-----------------------------------------------------------------------------
(* The inductive invariant *)

\* After the first GetHide of a pass the Hide of its object is in the map.
HideFound == pc \in {"collector", "schedule"} => store[name] # 0

\* Only the pass of an object puts its first Hide into the map.
WritingNew == pc = "writing" => store[name] = 0

(***************************************************************************)
(* From handleCreate on, a first pass has its own server in the collector: *)
(* one worker reconciles all objects, so no other pass comes between.      *)
(***************************************************************************)
ClientIsOwn ==
  pc \notin {"idle", "address"} /\ Creating => client = inst.spec.addr

StoreInv ==
  /\ TypeOK
  /\ HideFound /\ WritingNew /\ ClientIsOwn
  /\ GoroutinesShareHide /\ CreatedWorkersUseOwnServer

-----------------------------------------------------------------------------
(* GetHide *)

\* GetHide(n) leaves a Hide for n that no other name has, and keeps the others.
LEMMA GetHideAdds ==
  ASSUME TypeOK, NEW n \in Name, GetHide(n)
  PROVE  /\ Found(n) \in Nat \ {0}
         /\ store' \in [Name -> 0 .. hides'] /\ hides' \in Nat
         /\ collected' \in [Name -> SUBSET Key]
         /\ store'[n] = Found(n)
         /\ \A m \in Name : m # n \/ store[m] # 0 => store'[m] = store[m]
         /\ \A m, o \in Name : store'[m] = store'[o] /\ store'[m] # 0 => m = o
<1>1. /\ hides \in Nat /\ store \in [Name -> 0 .. hides]
      /\ collected \in [Name -> SUBSET Key]
      /\ \A m, o \in Name : store[m] = store[o] /\ store[m] # 0 => m = o
  BY DEF TypeOK
<1>2. CASE store[n] = 0
  <2>1. Found(n) = hides + 1 /\ hides' = hides + 1
    BY <1>1, <1>2 DEF Found, GetHide
  <2>2. store' = [store EXCEPT ![n] = hides + 1]
    BY <2>1 DEF GetHide
  <2>3. collected' \in [Name -> SUBSET Key]
    BY <1>1 DEF GetHide
  <2>4. \A m \in Name : m # n => store'[m] = store[m] /\ store'[m] # hides + 1
    BY <1>1, <2>2
  <2>5. store' \in [Name -> 0 .. hides'] /\ store'[n] = hides + 1
    BY <1>1, <2>1, <2>2
  <2>6. \A m, o \in Name : store'[m] = store'[o] /\ store'[m] # 0 => m = o
    BY <1>1, <2>4, <2>5
  <2> QED
    BY <1>1, <1>2, <2>1, <2>3, <2>4, <2>5, <2>6
<1>3. CASE store[n] # 0
  <2>1. Found(n) = store[n] /\ store[n] \in 1 .. hides
    BY <1>1, <1>3 DEF Found
  <2>2. store' = store /\ hides' = hides
    BY <1>1, <2>1 DEF GetHide
  <2>3. collected' = collected
    BY <1>1, <2>1 DEF GetHide
  <2> QED
    BY <1>1, <2>1, <2>2, <2>3
<1> QED
  BY <1>2, <1>3

-----------------------------------------------------------------------------
(* Types *)

\* Where no process is, there is no type to lose.
LEMMA FreshType ==
  ASSUME obj \in [Name -> Object \cup {Absent}], up \in BOOLEAN,
         Fresh(store, hides, collected, promc, client, pc, name, inst, goroutines)
  PROVE  TypeOK
<1>1. /\ store = [n \in Name |-> 0] /\ hides = 0 /\ collected = [n \in Name |-> {}]
      /\ promc = FALSE /\ client = Absent /\ pc = "idle"
      /\ name = Absent /\ inst = Absent /\ goroutines = {}
  BY DEF Fresh
<1>2. store \in [Name -> 0 .. hides] /\ collected \in [Name -> SUBSET Key]
  BY <1>1
<1> QED
  BY <1>1, <1>2 DEF TypeOK

LEMMA TypeInit == Init => TypeOK
<1> SUFFICES ASSUME Init PROVE TypeOK
  OBVIOUS
<1>1. obj \in [Name -> Object \cup {Absent}] /\ up \in BOOLEAN
  BY DEF Init
<1> QED
  BY <1>1, FreshType DEF Init

LEMMA EndsType ==
  ASSUME TypeOK, ProcessEnds
  PROVE  TypeOK'
<1>1. /\ store' = [n \in Name |-> 0] /\ hides' = 0 /\ collected' = [n \in Name |-> {}]
      /\ promc' = FALSE /\ client' = Absent /\ pc' = "idle"
      /\ name' = Absent /\ inst' = Absent /\ goroutines' = {}
      /\ up' = FALSE /\ obj' = obj
  BY DEF Fresh, ProcessEnds
<1>2. store' \in [Name -> 0 .. hides'] /\ collected' \in [Name -> SUBSET Key]
  BY <1>1
<1> QED
  BY <1>1, <1>2 DEF TypeOK

\* The parts of a spec that the user can write have their types.
LEMMA SpecParts ==
  ASSUME NEW s \in Specs
  PROVE  s.addr \in Address /\ s.keys \subseteq Key
  BY StoreAssumption DEF AOMSpec

\* A pass that is under way has a name and an object.
LEMMA PassHas ==
  ASSUME TypeOK, pc # "idle"
  PROVE  name \in Name /\ inst \in Object /\ inst.spec \in Specs
  BY DEF TypeOK, Object

\* The goroutines that a pass starts.
LEMMA StartedType ==
  ASSUME TypeOK, pc # "idle"
  PROVE  /\ Run \in Goroutine
         /\ \A k \in Key : Worker(k) \in Goroutine
<1>1. name \in Name /\ inst.spec.addr \in Address /\ client \in Address \cup {Absent}
  BY PassHas, SpecParts DEF TypeOK
<1>2. Run \in Goroutine
  BY <1>1 DEF Run, Started, Goroutine
<1>3. ASSUME NEW k \in Key PROVE Worker(k) \in Goroutine
  <2>1. Creating \in BOOLEAN
    BY DEF Creating
  <2> QED
    BY <1>1, <2>1 DEF Worker, Started, Goroutine
<1> QED
  BY <1>2, <1>3

\* A Hide that GetHide returns is in the map; a goroutine keeps its other fields.
LEMMA ReaderType ==
  ASSUME NEW g \in Goroutine, NEW h \in Nat
  PROVE  /\ [g EXCEPT !.at = "reading"] \in Goroutine
         /\ [g EXCEPT !.at = "loop", !.hide = h] \in Goroutine
  BY DEF Goroutine

LEMMA TypeStep == TypeOK /\ [Next]_vars => TypeOK'
<1> SUFFICES ASSUME TypeOK, [Next]_vars PROVE TypeOK'
  OBVIOUS
<1> USE DEF storeVars, promcVars, passVars
<1>1. ASSUME NEW n \in Name, NEW s \in Specs, Create(n, s) PROVE TypeOK'
  <2>1. [spec |-> s, gen |-> 1, statusGen |-> 0] \in Object
    BY StoreAssumption DEF Object
  <2>2. obj' \in [Name -> Object \cup {Absent}]
    BY <1>1, <2>1 DEF Create, TypeOK
  <2> QED
    BY <1>1, <2>2 DEF Create, TypeOK
<1>2. ASSUME NEW n \in Name, NEW s \in Specs, Edit(n, s) PROVE TypeOK'
  <2>1. obj[n] \in Object /\ obj[n].gen < MaxGen /\ MaxGen \in Nat
    BY <1>2, StoreAssumption DEF Edit, TypeOK
  <2>2. [obj[n] EXCEPT !.spec = s, !.gen = @ + 1] \in Object
    <3>1. obj[n].gen + 1 \in 1 .. MaxGen
      BY <2>1 DEF Object
    <3> QED
      BY <2>1, <3>1 DEF Object
  <2>3. obj' \in [Name -> Object \cup {Absent}]
    BY <1>2, <2>2 DEF Edit, TypeOK
  <2> QED
    BY <1>2, <2>3 DEF Edit, TypeOK
<1>3. ASSUME NEW n \in Name, StartPass(n) PROVE TypeOK'
  <2>1. obj[n] \in Object /\ obj[n] # Absent /\ n # Absent
    BY <1>3, StoreAssumption DEF StartPass, TypeOK
  <2> QED
    BY <1>3, <2>1 DEF StartPass, TypeOK
<1>4. CASE HandleCreate
  <2>1. pc = "address" /\ inst.spec.addr \in Address
    BY <1>4, PassHas, SpecParts DEF HandleCreate, At
  <2>2. client' \in Address \cup {Absent} /\ promc' \in BOOLEAN
    BY <1>4, <2>1 DEF HandleCreate, SetServerAddress, TypeOK
  <2> QED
    BY <1>4, <2>1, <2>2 DEF HandleCreate, EndPass, TypeOK
<1>5. CASE FindHide \/ WriteEnds
  <2>1. pc # "idle" /\ name \in Name /\ GetHide(name)
    BY <1>5, PassHas DEF FindHide, WriteEnds, At
  <2>2. /\ pc' = "collector"
        /\ UNCHANGED <<obj, up, promc, client, name, inst, goroutines>>
    BY <1>5 DEF FindHide, WriteEnds
  <2> QED
    BY <2>1, <2>2, GetHideAdds DEF TypeOK
<1>6. CASE WriteBegins
  BY <1>6 DEF WriteBegins, At, TypeOK
<1>7. CASE HandleCollector
  <2>1. pc # "idle" /\ name \in Name /\ inst.spec.keys \subseteq Key
    BY <1>7, PassHas, SpecParts DEF HandleCollector, At
  <2>2. collected' \in [Name -> SUBSET Key]
    BY <1>7, <2>1 DEF HandleCollector, TypeOK
  <2>3. goroutines' \subseteq Goroutine
    BY <1>7, <2>1, StartedType DEF HandleCollector, ToAdd, TypeOK
  <2> QED
    BY <1>7, <2>1, <2>2, <2>3 DEF HandleCollector, TypeOK
<1>8. CASE Schedule
  <2>1. pc # "idle" /\ name \in Name /\ inst \in Object
    BY <1>8, PassHas DEF Schedule, At
  <2>2. goroutines' \subseteq Goroutine
    BY <1>8, <2>1, StartedType DEF Schedule, TypeOK
  <2>3. obj' \in [Name -> Object \cup {Absent}]
    <3>1. CASE UNCHANGED obj
      BY <3>1 DEF TypeOK
    <3>2. CASE obj[name] = inst /\ obj' = [obj EXCEPT ![name].statusGen = inst.gen]
      <4>1. [inst EXCEPT !.statusGen = inst.gen] \in Object
        BY <2>1, StoreAssumption DEF Object
      <4>2. obj' = [obj EXCEPT ![name] = [inst EXCEPT !.statusGen = inst.gen]]
        BY <3>2, <2>1
      <4> QED
        BY <2>1, <4>1, <4>2 DEF TypeOK
    <3> QED
      BY <1>8, <3>1, <3>2 DEF Schedule
  <2> QED
    BY <1>8, <2>2, <2>3 DEF Schedule, EndPass, TypeOK
<1>9. CASE PassFails
  BY <1>9 DEF PassFails, EndPass, TypeOK
<1>10. ASSUME NEW g \in goroutines, ReadBegins(g) PROVE TypeOK'
  <2>1. goroutines' \subseteq Goroutine
    BY <1>10, ReaderType DEF ReadBegins, Becomes, TypeOK
  <2> QED
    BY <1>10, <2>1 DEF ReadBegins, TypeOK
<1>11. ASSUME NEW g \in goroutines, ReadEnds(g) PROVE TypeOK'
  <2>1. g \in Goroutine /\ g.name \in Name /\ GetHide(g.name)
    BY <1>11 DEF ReadEnds, TypeOK, Goroutine
  <2>2. goroutines' \subseteq Goroutine
    <3>1. Found(g.name) \in Nat
      BY <2>1, GetHideAdds
    <3>2. [g EXCEPT !.at = "loop", !.hide = Found(g.name)] \in Goroutine
      BY <2>1, <3>1, ReaderType
    <3> QED
      BY <1>11, <3>2 DEF ReadEnds, Becomes, TypeOK
  <2>3. UNCHANGED <<obj, up, promc, client, pc, name, inst>>
    BY <1>11 DEF ReadEnds
  <2> QED
    BY <2>1, <2>2, <2>3, GetHideAdds DEF TypeOK
<1>12. CASE ProcessEnds
  BY <1>12, EndsType
<1>13. CASE Restart
  BY <1>13 DEF Restart, TypeOK
<1>14. CASE UNCHANGED vars
  BY <1>14 DEF vars, TypeOK
<1> QED
  BY <1>1, <1>2, <1>3, <1>4, <1>5, <1>6, <1>7, <1>8, <1>9, <1>10, <1>11, <1>12,
     <1>13, <1>14
  DEF Next, Pass, Killed, HandleCollectorPanics, CollectPanics, ConcurrentMapAccess

-----------------------------------------------------------------------------
(* The invariant *)

\* The parts of StoreInv besides the types.
Hidden == HideFound /\ WritingNew /\ ClientIsOwn
Shared == GoroutinesShareHide /\ CreatedWorkersUseOwnServer

LEMMA InvInit == Init => StoreInv
<1> SUFFICES ASSUME Init PROVE StoreInv
  OBVIOUS
<1>1. pc = "idle" /\ goroutines = {}
  BY DEF Init, Fresh
<1> QED
  BY <1>1, TypeInit DEF StoreInv, HideFound, WritingNew, ClientIsOwn,
     GoroutinesShareHide, CreatedWorkersUseOwnServer

\* GetHide disturbs no goroutine: each has its Hide in the map already.
LEMMA GetHideKeepsShared ==
  ASSUME TypeOK, Shared, NEW n \in Name, GetHide(n)
  PROVE  \A g \in goroutines :
           /\ store'[g.name] = store[g.name] /\ store[g.name] # 0
           /\ g.hide \in {0, store[g.name]}
<1> SUFFICES ASSUME NEW g \in goroutines
             PROVE  /\ store'[g.name] = store[g.name] /\ store[g.name] # 0
                    /\ g.hide \in {0, store[g.name]}
  OBVIOUS
<1>1. g.name \in Name
  BY DEF TypeOK, Goroutine
<1>2. store[g.name] # 0 /\ g.hide \in {0, store[g.name]}
  BY DEF Shared, GoroutinesShareHide
<1> QED
  BY <1>1, <1>2, GetHideAdds

LEMMA InvStep == StoreInv /\ [Next]_vars => StoreInv'
<1> SUFFICES ASSUME StoreInv, [Next]_vars PROVE StoreInv'
  OBVIOUS
<1>t. TypeOK /\ TypeOK' /\ HideFound /\ WritingNew /\ ClientIsOwn /\ Shared
  BY TypeStep DEF StoreInv, Shared
<1> SUFFICES Hidden' /\ Shared'
  BY <1>t DEF StoreInv, Hidden, Shared
<1> USE DEF storeVars, promcVars, passVars
<1>1. CASE /\ UNCHANGED <<store, client, goroutines>>
           /\ UNCHANGED <<pc, name, inst>> \/ pc' = "idle"
  BY <1>1, <1>t DEF Hidden, HideFound, WritingNew, ClientIsOwn, Creating, Shared,
     GoroutinesShareHide, CreatedWorkersUseOwnServer
<1>2. CASE ProcessEnds
  <2>1. pc' = "idle" /\ goroutines' = {}
    BY <1>2 DEF ProcessEnds, Fresh
  <2> QED
    BY <2>1 DEF Hidden, HideFound, WritingNew, ClientIsOwn, Shared,
       GoroutinesShareHide, CreatedWorkersUseOwnServer
<1>3. ASSUME NEW n \in Name, StartPass(n) PROVE Hidden' /\ Shared'
  <2>1. UNCHANGED <<store, goroutines>> /\ pc' \in {"address", "hide"}
        /\ inst' = obj[n] /\ (pc' = "hide" => obj[n].statusGen # 0)
    BY <1>3 DEF StartPass
  <2> QED
    BY <2>1, <1>t DEF Hidden, HideFound, WritingNew, ClientIsOwn, Creating, Shared,
       GoroutinesShareHide, CreatedWorkersUseOwnServer
<1>4. CASE HandleCreate
  <2>1. UNCHANGED <<store, goroutines>>
    BY <1>4 DEF HandleCreate
  <2>2. Shared'
    BY <2>1, <1>t DEF Shared, GoroutinesShareHide, CreatedWorkersUseOwnServer
  <2>3. \/ pc' = "idle"
        \/ pc' = "hide" /\ inst' = inst /\ client' = inst.spec.addr
    BY <1>4 DEF HandleCreate, EndPass, SetServerAddress
  <2> QED
    BY <2>2, <2>3 DEF Hidden, HideFound, WritingNew, ClientIsOwn, Creating
<1>5. CASE FindHide \/ WriteEnds
  <2>1. pc \notin {"idle", "address"} /\ name \in Name /\ GetHide(name)
    BY <1>5, <1>t, PassHas DEF FindHide, WriteEnds, At
  <2>2. UNCHANGED <<client, name, inst, goroutines>> /\ pc' = "collector"
    BY <1>5 DEF FindHide, WriteEnds
  <2>3. store'[name] # 0
    BY <1>t, <2>1, GetHideAdds
  <2>4. Hidden'
    BY <1>t, <2>1, <2>2, <2>3 DEF Hidden, HideFound, WritingNew, ClientIsOwn, Creating
  <2>5. Shared'
    BY <1>t, <2>1, <2>2, GetHideKeepsShared
    DEF Shared, GoroutinesShareHide, CreatedWorkersUseOwnServer
  <2> QED
    BY <2>4, <2>5
<1>6. CASE WriteBegins
  <2>1. UNCHANGED <<store, client, name, inst, goroutines>>
        /\ pc = "hide" /\ pc' = "writing" /\ store[name] = 0
    BY <1>6 DEF WriteBegins, At
  <2> QED
    BY <2>1, <1>t DEF Hidden, HideFound, WritingNew, ClientIsOwn, Creating, Shared,
       GoroutinesShareHide, CreatedWorkersUseOwnServer
<1>7. CASE HandleCollector
  <2>1. UNCHANGED <<store, client, name, inst>>
        /\ pc = "collector" /\ pc' = "schedule"
    BY <1>7 DEF HandleCollector, At
  <2>2. Hidden'
    BY <2>1, <1>t DEF Hidden, HideFound, WritingNew, ClientIsOwn, Creating
  <2>3. ASSUME NEW g \in goroutines'
        PROVE  /\ store[g.name] # 0 /\ g.hide \in {0, store[g.name]}
               /\ g.kind = "worker" /\ g.created => g.addr = g.own
    <3>1. CASE g \in goroutines
      BY <3>1, <1>t DEF Shared, GoroutinesShareHide, CreatedWorkersUseOwnServer
    <3>2. ASSUME NEW k \in ToAdd, g = Worker(k)
          PROVE  /\ store[g.name] # 0 /\ g.hide \in {0, store[g.name]}
                 /\ g.kind = "worker" /\ g.created => g.addr = g.own
      <4>1. /\ g.name = name /\ g.hide = 0 /\ g.addr = client
            /\ g.own = inst.spec.addr /\ g.created = Creating
        BY <3>2 DEF Worker, Started
      <4> QED
        BY <4>1, <2>1, <1>t DEF HideFound, ClientIsOwn
    <3> QED
      BY <3>1, <3>2, <1>7 DEF HandleCollector
  <2> QED
    BY <2>1, <2>2, <2>3 DEF Shared, GoroutinesShareHide, CreatedWorkersUseOwnServer
<1>8. CASE Schedule
  <2>1. UNCHANGED store /\ pc = "schedule" /\ pc' = "idle"
    BY <1>8 DEF Schedule, EndPass, At
  <2>2. ASSUME NEW g \in goroutines'
        PROVE  /\ store[g.name] # 0 /\ g.hide \in {0, store[g.name]}
               /\ g.kind = "worker" /\ g.created => g.addr = g.own
    <3>1. CASE g \in goroutines
      BY <3>1, <1>t DEF Shared, GoroutinesShareHide, CreatedWorkersUseOwnServer
    <3>2. CASE g = Run
      <4>1. g.name = name /\ g.hide = 0 /\ g.kind = "run"
        BY <3>2 DEF Run, Started
      <4> QED
        BY <4>1, <2>1, <1>t DEF HideFound
    <3> QED
      BY <3>1, <3>2, <1>8 DEF Schedule
  <2> QED
    BY <2>1, <2>2 DEF Hidden, HideFound, WritingNew, ClientIsOwn, Shared,
       GoroutinesShareHide, CreatedWorkersUseOwnServer
<1>9. ASSUME NEW g \in goroutines, ReadBegins(g) PROVE Hidden' /\ Shared'
  <2> DEFINE h == [g EXCEPT !.at = "reading"]
  <2>1. UNCHANGED <<store, client, pc, name, inst>>
        /\ goroutines' = (goroutines \ {g}) \cup {h}
    BY <1>9 DEF ReadBegins, Becomes
  <2>2. /\ h.name = g.name /\ h.kind = g.kind /\ h.created = g.created
        /\ h.addr = g.addr /\ h.own = g.own /\ h.hide = g.hide
    BY <1>t DEF TypeOK, Goroutine
  <2>3. Hidden'
    BY <2>1, <1>t DEF Hidden, HideFound, WritingNew, ClientIsOwn, Creating
  <2> HIDE DEF h
  <2>4. Shared'
    BY <2>1, <2>2, <1>t DEF Shared, GoroutinesShareHide, CreatedWorkersUseOwnServer
  <2> QED
    BY <2>3, <2>4
<1>10. ASSUME NEW g \in goroutines, ReadEnds(g) PROVE Hidden' /\ Shared'
  <2> DEFINE h == [g EXCEPT !.at = "loop", !.hide = Found(g.name)]
  <2>1. UNCHANGED <<client, pc, name, inst>> /\ GetHide(g.name)
        /\ goroutines' = (goroutines \ {g}) \cup {h}
    BY <1>10 DEF ReadEnds, Becomes
  <2>2. g \in Goroutine /\ g.name \in Name
    BY <1>t DEF TypeOK, Goroutine
  <2>3. /\ h.name = g.name /\ h.kind = g.kind /\ h.created = g.created
        /\ h.addr = g.addr /\ h.own = g.own /\ h.hide = Found(g.name)
    BY <2>2 DEF Goroutine
  <2>4. store[g.name] # 0 /\ store'[g.name] = store[g.name]
    BY <1>t, <2>1, <2>2, GetHideKeepsShared
  <2>5. Found(g.name) = store'[g.name]
    BY <2>4 DEF Found
  <2>6. store' = store
    BY <1>t, <2>1, <2>2, <2>4 DEF GetHide, Found, TypeOK
  <2>7. Hidden'
    BY <2>1, <2>6, <1>t DEF Hidden, HideFound, WritingNew, ClientIsOwn, Creating
  <2> HIDE DEF h
  <2>8. Shared'
    BY <2>1, <2>3, <2>4, <2>5, <2>6, <1>t
    DEF Shared, GoroutinesShareHide, CreatedWorkersUseOwnServer
  <2> QED
    BY <2>7, <2>8
<1>11. ASSUME NEW n \in Name, NEW s \in Specs, Create(n, s) \/ Edit(n, s)
       PROVE  Hidden' /\ Shared'
  BY <1>11, <1>1 DEF Create, Edit
<1>12. CASE PassFails
  BY <1>12, <1>1 DEF PassFails, EndPass
<1>13. CASE Restart \/ UNCHANGED vars
  BY <1>13, <1>1 DEF Restart, vars
<1> QED
  BY <1>2, <1>3, <1>4, <1>5, <1>6, <1>7, <1>8, <1>9, <1>10, <1>11, <1>12, <1>13
  DEF Next, Pass, Killed, HandleCollectorPanics, CollectPanics, ConcurrentMapAccess

LEMMA Invariance == Spec => []StoreInv
  BY InvInit, InvStep, PTL DEF Spec

-----------------------------------------------------------------------------
(* The theorems *)

(***************************************************************************)
(* The types of the variables; with them, that the maps of two objects are *)
(* never one Hide, although any goroutine may make a Hide in GetHide.      *)
(***************************************************************************)
THEOREM TypeCorrect == Spec => []TypeOK
  BY Invariance, PTL DEF StoreInv

(***************************************************************************)
(* A goroutine of StartWorker or Run works on the Hide that the passes of  *)
(* its object edit: the unordered calls of GetHide agree for every name.   *)
(***************************************************************************)
THEOREM HidesAreShared == Spec => []GoroutinesShareHide
  BY Invariance, PTL DEF StoreInv

(***************************************************************************)
(* The workers that handleCreate starts query the server of their own      *)
(* object, however many objects set the address of the one pCollector.     *)
(***************************************************************************)
THEOREM FirstWorkersUseOwnServer == Spec => []CreatedWorkersUseOwnServer
  BY Invariance, PTL DEF StoreInv

\* A first pass that writes to the map has no goroutine of its own object.
LEMMA WritersAreFirst == StoreInv => WritesMeetOthersOnly
  BY DEF StoreInv, WritingNew, GoroutinesShareHide, WritesMeetOthersOnly

(***************************************************************************)
(* The unlocked write in GetHide races with goroutines of other objects    *)
(* only: a process that handles one object cannot die of it.               *)
(***************************************************************************)
THEOREM WritesAreNotOwn == Spec => []WritesMeetOthersOnly
  BY Invariance, WritersAreFirst, PTL

=============================================================================
