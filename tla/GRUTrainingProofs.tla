-------------------------- MODULE GRUTrainingProofs --------------------------
(***************************************************************************)
(* Proofs for GRUTraining: for any number of predictors, trainings and     *)
(* waiting connections, whatever the servers do to each other's sockets.   *)
(***************************************************************************)
EXTENDS GRUTraining, TLAPS

-----------------------------------------------------------------------------
(* The inductive invariant *)

Alive == {"idle", "busy", "trained"}

\* Place 0 of a server holds its job, the places after it its queue.
Places(s)  == 0 .. Len(queue[s])
Slot(s, i) == IF i = 0 THEN job[s] ELSE queue[s][i]

\* What a server does agrees with what it holds and what it has saved.
ServersAgree ==
  \A s \in Predictor :
    /\ call[s] = "unbuilt" => phase[s] = "none"
    /\ phase[s] \notin Alive => queue[s] = <<>>
    /\ phase[s] \in {"busy", "trained"} <=> job[s] # NoJob
    /\ job[s].kind = "train" => layers[s] = Layers[job[s].from]
    /\ phase[s] = "trained" =>
         job[s].kind = "train" /\ file[job[s].from] = Layers[job[s].from]

\* A waiter is there once its training was asked for; only a listener is sent to.
WaitersAgree ==
  \A w \in Waiter :
    /\ w[2] > trains[w[1]] => wait[w] = "none"
    /\ inbox[w] # Absent => wait[w] = "listening"

PredictOf(p) == [kind |-> "predict", from |-> p]

\* A predictor waits for an answer exactly if its request is at some place ...
PredictsHeld ==
  \A p \in Predictor : call[p] = "waiting" <=>
    \E s \in Predictor : \E i \in Places(s) : Slot(s, i) = PredictOf(p)

\* ... and it is at one place only.
PredictsOnce ==
  \A p, s, t \in Predictor : \A i \in Places(s), j \in Places(t) :
    Slot(s, i) = PredictOf(p) /\ Slot(t, j) = PredictOf(p) => s = t /\ i = j

\* One waiter at a time: it finds the path free and is bound while it listens.
WaitsAlone ==
  /\ \A v, w \in Pending : v = w
  /\ \A w \in Waiter : wait[w] # "found" /\ (wait[w] = "listening" => rra = w)

\* The request to train is at one place, and its waiter still waits for the end.
TrainsAlone ==
  /\ \A s, t \in Predictor : \A i \in Places(s), j \in Places(t) :
       Slot(s, i).kind = "train" /\ Slot(t, j).kind = "train" => s = t /\ i = j
  /\ \A s \in Predictor : \A i \in Places(s) : Slot(s, i).kind = "train" =>
       \E w \in Pending : w[1] = Slot(s, i).from /\ inbox[w] = Absent

\* The answer is for the model of its waiter, whose network is saved.
AnswersAgree ==
  \A w \in Waiter : inbox[w] # Absent =>
    inbox[w] = w[1] /\ file[w[1]] = Layers[w[1]]

\* Trainings that nothing disturbed, one after the other.
InOrder == disturbed \/ (WaitsAlone /\ TrainsAlone /\ AnswersAgree)

TrainingInv ==
  /\ TypeOK
  /\ ServersAgree /\ WaitersAgree
  /\ PredictsHeld /\ PredictsOnce
  /\ FilesHaveOwnLayers
  /\ InOrder
  /\ StrayOnlyWhenDisturbed /\ ReadyIsTrained

-----------------------------------------------------------------------------
(* Types *)

\* A waiter is a predictor and the number of one of its trainings.
LEMMA WaiterParts ==
  ASSUME NEW w \in Waiter
  PROVE  /\ w[1] \in Predictor /\ MaxTrain[w[1]] \in Nat
         /\ w[2] \in 1 .. MaxTrain[w[1]] /\ w = <<w[1], w[2]>>
  BY TrainingAssumption DEF Waiter

LEMMA WaiterOf ==
  ASSUME NEW p \in Predictor, NEW n \in 1 .. MaxTrain[p]
  PROVE  <<p, n>> \in Waiter /\ <<p, n>>[1] = p /\ <<p, n>>[2] = n
  BY DEF Waiter

\* A server holds requests of predictors; none is mistaken for no request.
LEMMA ConnectionParts ==
  ASSUME NEW c \in Connection
  PROVE  c.kind \in {"train", "predict"} /\ c.from \in Predictor /\ c # NoJob
  BY DEF Connection, NoJob

LEMMA JobType ==
  ASSUME TypeOK, NEW s \in Predictor
  PROVE  /\ job[s] \in Connection \cup {NoJob}
         /\ job[s].kind \in {"train", "predict"} =>
              job[s] \in Connection /\ job[s] # NoJob /\ job[s].from \in Predictor
  BY ConnectionParts DEF TypeOK, NoJob

LEMMA QueueType ==
  ASSUME TypeOK, NEW s \in Predictor
  PROVE  queue[s] \in Seq(Connection)
  BY DEF TypeOK

\* What the type invariant needs besides itself.
TypeInv == TypeOK /\ ServersAgree /\ WaitersAgree

LEMMA TypeInit == Init => TypeInv
<1> SUFFICES ASSUME Init PROVE TypeInv
  OBVIOUS
<1>1. /\ call \in [Predictor -> {"unbuilt", "failed", "idle", "waiting"}]
      /\ ready \in [Predictor -> BOOLEAN]
      /\ trains \in [Predictor -> Nat] /\ \A p \in Predictor : trains[p] <= MaxTrain[p]
      /\ wait \in [Waiter -> {"none", "spawned", "found", "cleared", "listening", "done"}]
      /\ inbox \in [Waiter -> Predictor \cup {Absent}]
  BY TrainingAssumption DEF Init
<1>2. /\ phase \in [Predictor ->
            {"none", "starting", "idle", "busy", "trained", "dead"}]
      /\ layers \in [Predictor -> Nat] /\ file \in [Predictor -> Nat]
      /\ job \in [Predictor -> Connection \cup {NoJob}]
  BY TrainingAssumption DEF Init
<1>3. queue \in [Predictor -> Seq(Connection)]
  BY DEF Init
<1>4. /\ reports \subseteq Predictor \X (Predictor \cup {Absent})
      /\ disturbed \in BOOLEAN /\ rra = Absent /\ uds = Absent
  BY DEF Init
<1>5. TypeOK
  BY <1>1, <1>2, <1>3, <1>4 DEF TypeOK
<1>6. ServersAgree
  BY DEF Init, ServersAgree, NoJob, Alive
<1>7. WaitersAgree
  BY DEF Init, WaitersAgree
<1> QED
  BY <1>5, <1>6, <1>7 DEF TypeInv

\* The part of the type invariant that is about each group of variables.
CallType == 
  /\ call \in [Predictor -> {"unbuilt", "failed", "idle", "waiting"}]
  /\ ready \in [Predictor -> BOOLEAN]
  /\ trains \in [Predictor -> Nat] /\ \A p \in Predictor : trains[p] <= MaxTrain[p]

WaitType ==
  /\ wait \in [Waiter -> {"none", "spawned", "found", "cleared", "listening", "done"}]
  /\ inbox \in [Waiter -> Predictor \cup {Absent}]
  /\ rra \in {Absent} \cup {w \in Waiter : wait[w] = "listening"}

ServerType ==
  /\ phase \in [Predictor ->
       {"none", "starting", "idle", "busy", "trained", "dead"}]
  /\ uds \in {Absent} \cup {s \in Predictor : phase[s] \in {"idle", "busy", "trained"}}
  /\ layers \in [Predictor -> Nat] /\ file \in [Predictor -> Nat]
  /\ queue \in [Predictor -> Seq(Connection)]
  /\ job \in [Predictor -> Connection \cup {NoJob}]

HistoryType ==
  /\ reports \subseteq Predictor \X (Predictor \cup {Absent})
  /\ disturbed \in BOOLEAN

LEMMA Groups ==
  /\ TypeOK <=> CallType /\ WaitType /\ ServerType /\ HistoryType
  /\ TypeOK' <=> (CallType /\ WaitType /\ ServerType /\ HistoryType)'
  BY DEF TypeOK, CallType, WaitType, ServerType, HistoryType

\* A request goes to a server that is alive.
LEMMA RequestSent ==
  ASSUME ServerType, Connects, NEW kind \in {"train", "predict"},
         NEW p \in Predictor, Request(kind, p)
  PROVE  /\ uds \in Predictor /\ phase[uds] \in Alive
         /\ queue' = [queue EXCEPT ![uds] = Append(@, [kind |-> kind, from |-> p])]
         /\ queue' \in [Predictor -> Seq(Connection)]
  BY DEF ServerType, Connects, Request, Connection, Alive

\* A server that has done its job.
LEMMA JobEnds ==
  ASSUME ServerType, ServersAgree, NEW s \in Predictor, EndJob(s), phase[s] \in Alive,
         UNCHANGED <<queue, layers, file>>,
         \A p \in Predictor : call'[p] = "unbuilt" => call[p] = "unbuilt"
  PROVE  ServersAgree'
<1>1. /\ phase'[s] = "idle" /\ job'[s] = NoJob
      /\ \A t \in Predictor : t # s => phase'[t] = phase[t] /\ job'[t] = job[t]
  BY DEF EndJob, ServerType
<1>2. NoJob.kind = "none" /\ call'[s] # "unbuilt"
  BY DEF NoJob, ServersAgree, Alive
<1> QED
  BY <1>1, <1>2 DEF ServersAgree, Alive

\* A server that dies, for any reason.
LEMMA DeathType ==
  ASSUME TypeOK, ServersAgree, NEW s \in Predictor, Dies(s),
         UNCHANGED <<layers, file>>, phase[s] \in Alive
  PROVE  /\ ServerType'
         /\ call' \in [Predictor -> {"unbuilt", "failed", "idle", "waiting"}]
         /\ \A p \in Predictor : call'[p] = "unbuilt" => call[p] = "unbuilt"
         /\ ServersAgree'
<1>1. ServerType'
  BY DEF TypeOK, ServerType, Dies, Unbound, NoJob
<1>2. /\ call' \in [Predictor -> {"unbuilt", "failed", "idle", "waiting"}]
      /\ \A p \in Predictor : call'[p] = "unbuilt" => call[p] = "unbuilt"
  BY DEF TypeOK, Dies
<1>3. \A t \in Predictor \ {s} : phase'[t] = phase[t] /\ queue'[t] = queue[t]
                                  /\ job'[t] = job[t]
  BY DEF Dies, TypeOK
<1>4. phase'[s] = "dead" /\ queue'[s] = <<>> /\ job'[s] = NoJob
  BY DEF Dies, TypeOK
<1>5. call[s] # "unbuilt"
  BY DEF ServersAgree, Alive
<1>6. ServersAgree'
  BY <1>2, <1>3, <1>4, <1>5 DEF ServersAgree, Alive, NoJob
<1> QED
  BY <1>1, <1>2, <1>6

\* Waiters only: the path of the answers is that of a waiter which listens.
LEMMA WaiterKeeps ==
  ASSUME TypeInv, NEW w \in Waiter, WaiterStep(w)
  PROVE  TypeInv'
<1>1. /\ UNCHANGED <<call, trains, serverVars>>
      /\ ready' \in [Predictor -> BOOLEAN]
      /\ wait' \in [Waiter -> {"none", "spawned", "found", "cleared", "listening", "done"}]
      /\ inbox' \in [Waiter -> Predictor \cup {Absent}]
      /\ wait[w] \notin {"none", "done"}
      /\ \E point \in {"found", "cleared", "listening", "done"} : Goes(w, point)
      /\ HistoryType'
  <2> USE DEF callVars, waitVars, history, Goes, HistoryType
  <2>1. CASE WaiterStats(w)
    BY <2>1 DEF TypeInv, TypeOK, WaiterStats
  <2>2. CASE WaiterRemoves(w)
    BY <2>2 DEF TypeInv, TypeOK, WaiterRemoves
  <2>3. CASE WaiterListens(w)
    BY <2>3 DEF TypeInv, TypeOK, WaiterListens
  <2>4. CASE WaiterUpdates(w)
    <3>1. w[1] \in Predictor
      BY WaiterParts
    <3>2. <<inbox[w], Absent>> \in Predictor \X (Predictor \cup {Absent})
      BY <2>4 DEF TypeInv, TypeOK, WaiterUpdates
    <3>3. HistoryType'
      BY <2>4, <3>2 DEF TypeInv, TypeOK, WaiterUpdates
    <3> QED
      BY <2>4, <3>1, <3>3 DEF TypeInv, TypeOK, WaiterUpdates
  <2> QED
    BY <2>1, <2>2, <2>3, <2>4 DEF WaiterStep
<1>2. /\ rra' \in {rra, w, Absent} /\ (rra' = w => wait'[w] = "listening")
      /\ rra' = rra => rra # w
      /\ inbox'[w] # Absent => wait'[w] = "listening"
  BY TrainingAssumption DEF WaiterStep, WaiterStats, WaiterRemoves, WaiterListens, WaiterUpdates, TypeInv,
     TypeOK, WaitersAgree, waitVars, Goes
<1>3. WaitType'
  BY <1>1, <1>2 DEF WaitType, TypeInv, TypeOK, Goes
<1>4. CallType' /\ ServerType'
  BY <1>1, Groups DEF TypeInv, CallType, ServerType, serverVars
<1>5. ServersAgree'
  BY <1>1 DEF ServersAgree, TypeInv, serverVars
<1>6. WaitersAgree'
  <2>1. \A v \in Waiter : v # w => inbox'[v] = inbox[v] /\ wait'[v] = wait[v]
    BY DEF WaiterStep, WaiterStats, WaiterRemoves, WaiterListens, WaiterUpdates,
       TypeInv, TypeOK, Goes
  <2> QED
    BY <1>1, <1>2, <2>1 DEF WaitersAgree, TypeInv
<1> QED
  BY <1>1, <1>3, <1>4, <1>5, <1>6, Groups DEF TypeInv

\* A predictor is built, or sends a request to the server at the path.
LEMMA PredictorKeeps ==
  ASSUME TypeInv, NEW p \in Predictor, New(p) \/ Predict(p) \/ Train(p)
  PROVE  TypeInv'
<1> USE DEF callVars, waitVars, serverVars, history
<1>1. CASE New(p)
  <2>1. phase[p] = "none" /\ call[p] = "unbuilt"
    BY <1>1 DEF New, TypeInv, ServersAgree
  <2>2. CallType' /\ WaitType' /\ HistoryType'
    BY <1>1 DEF New, TypeInv, TypeOK, CallType, WaitType, HistoryType
  <2>3. ServerType'
    BY <1>1, <2>1 DEF New, TypeInv, TypeOK, ServerType
  <2>4. ServersAgree'
    BY <1>1, <2>1 DEF New, TypeInv, TypeOK, ServersAgree, Alive
  <2>5. WaitersAgree'
    BY <1>1 DEF New, TypeInv, WaitersAgree
  <2> QED
    BY <2>2, <2>3, <2>4, <2>5, Groups DEF TypeInv
<1>2. CASE Predict(p)
  <2>1. Connects /\ Request("predict", p) /\ ServerType
    BY <1>2, Groups DEF Predict, TypeInv
  <2>2. CallType' /\ WaitType' /\ HistoryType'
    BY <1>2 DEF Predict, TypeInv, TypeOK, CallType, WaitType, HistoryType
  <2>3. ServerType'
    BY <1>2, <2>1, RequestSent DEF Predict, ServerType
  <2>4. ServersAgree'
    <3>1. \A s \in Predictor : call'[s] = "unbuilt" => call[s] = "unbuilt"
      BY <1>2 DEF Predict, TypeInv, TypeOK
    <3>2. \A s \in Predictor : phase[s] \notin Alive => queue'[s] = queue[s]
      BY <2>1, RequestSent DEF ServerType
    <3>3. UNCHANGED <<phase, layers, job, file>>
      BY <1>2 DEF Predict
    <3> QED
      BY <3>1, <3>2, <3>3 DEF TypeInv, ServersAgree
  <2>5. WaitersAgree'
    BY <1>2 DEF Predict, TypeInv, WaitersAgree
  <2> QED
    BY <2>2, <2>3, <2>4, <2>5, Groups DEF TypeInv
<1>3. CASE Train(p)
  <2> DEFINE n == trains[p] + 1
  <2>1. Connects /\ Request("train", p) /\ ServerType
    BY <1>3, Groups DEF Train, TypeInv
  <2>2. trains[p] \in Nat /\ trains[p] < MaxTrain[p] /\ MaxTrain[p] \in Nat
    BY <1>3, TrainingAssumption DEF Train, TypeInv, TypeOK
  <2>3. trains' = [trains EXCEPT ![p] = n] /\ trains'[p] = n
        /\ n \in 1 .. MaxTrain[p]
    BY <1>3, <2>2 DEF Train, TypeInv, TypeOK
  <2>4. <<p, n>> \in Waiter /\ <<p, n>>[1] = p /\ <<p, n>>[2] = n
    BY <2>3, WaiterOf
  <2>5. wait' = [wait EXCEPT ![<<p, n>>] = "spawned"]
    BY <1>3, <2>3 DEF Train
  <2>w. wait[<<p, n>>] = "none"
    <3>1. n > trains[p]
      BY <2>2
    <3> QED
      BY <2>4, <3>1 DEF TypeInv, WaitersAgree
  <2>6. CallType'
    BY <1>3, <2>2, <2>3 DEF Train, TypeInv, TypeOK, CallType
  <2>7. WaitType' /\ HistoryType'
    BY <1>3, <2>4, <2>5, <2>w DEF Train, TypeInv, TypeOK, WaitType, HistoryType
  <2>8. ServerType'
    BY <1>3, <2>1, RequestSent DEF Train, ServerType
  <2>9. ServersAgree'
    <3>1. \A s \in Predictor : phase[s] \notin Alive => queue'[s] = queue[s]
      BY <2>1, RequestSent DEF ServerType
    <3>2. UNCHANGED <<call, phase, layers, job, file>>
      BY <1>3 DEF Train
    <3> QED
      BY <3>1, <3>2 DEF TypeInv, ServersAgree
  <2>10. WaitersAgree'
    <3> SUFFICES ASSUME NEW w \in Waiter
                 PROVE  /\ w[2] > trains'[w[1]] => wait'[w] = "none"
                        /\ inbox'[w] # Absent => wait'[w] = "listening"
      BY DEF WaitersAgree
    <3>1. w[1] \in Predictor /\ w[2] \in Nat /\ w = <<w[1], w[2]>>
      BY WaiterParts
    <3>2. inbox' = inbox /\ (inbox[w] # Absent => wait[w] = "listening")
          /\ (w[2] > trains[w[1]] => wait[w] = "none")
      BY <1>3 DEF Train, TypeInv, WaitersAgree
    <3>3. CASE w[1] # p
      <4>1. trains'[w[1]] = trains[w[1]] /\ wait'[w] = wait[w]
        BY <2>3, <2>4, <2>5, <3>1, <3>3 DEF TypeInv, TypeOK
      <4> QED
        BY <3>2, <4>1
    <3>4. CASE w[1] = p /\ w[2] # n
      <4>1. wait'[w] = wait[w]
        BY <2>4, <2>5, <3>4 DEF TypeInv, TypeOK
      <4> QED
        BY <2>2, <2>3, <3>1, <3>2, <3>4, <4>1
    <3>5. CASE w[1] = p /\ w[2] = n
      <4>1. w = <<p, n>>
        BY <3>1, <3>5
      <4>2. inbox'[w] = Absent
        BY <2>w, <3>2, <4>1
      <4>3. ~(w[2] > trains'[w[1]])
        BY <2>3, <3>5
      <4> QED
        BY <4>2, <4>3
    <3> QED
      BY <3>3, <3>4, <3>5
  <2> QED
    BY <2>6, <2>7, <2>8, <2>9, <2>10, Groups DEF TypeInv
<1> QED
  BY <1>1, <1>2, <1>3

\* A server starts, takes a request, serves it, or dies.
LEMMA ServerKeeps ==
  ASSUME TypeInv, FilesHaveOwnLayers, NEW s \in Predictor, ServerStep(s)
  PROVE  TypeInv'
<1> USE DEF callVars, waitVars, serverVars, history
<1>t. TypeOK /\ ServersAgree /\ WaitersAgree /\ CallType /\ WaitType
      /\ ServerType /\ HistoryType
  BY Groups DEF TypeInv
<1>1. CASE ServerStarts(s)
  <2>1. CallType' /\ WaitType' /\ HistoryType' /\ WaitersAgree'
    BY <1>1, <1>t DEF ServerStarts, CallType, WaitType, HistoryType, WaitersAgree
  <2>2. ServerType'
    BY <1>1, <1>t DEF ServerStarts, ServerType
  <2>3. ServersAgree'
    BY <1>1, <1>t DEF ServerStarts, ServerType, ServersAgree, Alive
  <2> QED
    BY <2>1, <2>2, <2>3, Groups DEF TypeInv
<1>2. CASE ServerTakes(s)
  <2>1. queue[s] \in Seq(Connection) /\ queue[s] # <<>> /\ phase[s] = "idle"
    BY <1>2, <1>t DEF ServerTakes, ServerType
  <2>2. Head(queue[s]) \in Connection /\ Tail(queue[s]) \in Seq(Connection)
    BY <2>1
  <2>3. LayersFor(s, Head(queue[s])) \in Nat
    BY <2>2, <1>t, ConnectionParts, TrainingAssumption DEF LayersFor, ServerType
  <2>4. CallType' /\ WaitType' /\ HistoryType' /\ WaitersAgree'
    BY <1>2, <1>t DEF ServerTakes, CallType, WaitType, HistoryType, WaitersAgree
  <2>5. ServerType'
    BY <1>2, <1>t, <2>1, <2>2, <2>3 DEF ServerTakes, ServerType
  <2>6. job'[s] = Head(queue[s]) /\ layers'[s] = LayersFor(s, Head(queue[s]))
        /\ phase'[s] = "busy"
    BY <1>2, <1>t DEF ServerTakes, ServerType
  <2>7. \A t \in Predictor \ {s} : /\ job'[t] = job[t] /\ layers'[t] = layers[t]
                                    /\ phase'[t] = phase[t] /\ queue'[t] = queue[t]
    BY <1>2, <1>t DEF ServerTakes, ServerType
  <2>8. file' = file /\ call' = call
    BY <1>2 DEF ServerTakes
  <2>9. ServersAgree'
    BY <1>t, <2>1, <2>2, <2>6, <2>7, <2>8, ConnectionParts
    DEF ServersAgree, LayersFor, Alive
  <2> QED
    BY <2>4, <2>5, <2>9, Groups DEF TypeInv
<1>3. CASE ServerAnswers(s)
  <2>1. /\ phase[s] = "busy" /\ job[s].kind = "predict" /\ job[s].from \in Predictor
        /\ call' = [call EXCEPT ![job[s].from] = "idle"]
    BY <1>3, <1>t, JobType DEF ServerAnswers, Serves
  <2>2. CallType' /\ WaitType' /\ HistoryType' /\ WaitersAgree'
    BY <1>3, <2>1, <1>t
    DEF ServerAnswers, CallType, WaitType, HistoryType, WaitersAgree
  <2>3. ServerType'
    BY <1>3, <2>1, <1>t DEF ServerAnswers, ServerType, EndJob
  <2>4. ServersAgree'
    <3>1. \A p \in Predictor : call'[p] = "unbuilt" => call[p] = "unbuilt"
      BY <2>1, <1>t DEF CallType
    <3>2. phase[s] \in Alive
      BY <2>1 DEF Alive
    <3> QED
      BY <1>3, <1>t, <3>1, <3>2, JobEnds DEF ServerAnswers
  <2> QED
    BY <2>2, <2>3, <2>4, Groups DEF TypeInv
<1>4. CASE ServerRaises(s)
  <2>1. phase[s] \in Alive /\ Dies(s) /\ UNCHANGED <<layers, file>>
    BY <1>4 DEF ServerRaises, Serves, Alive
  <2>2. WaitType' /\ HistoryType' /\ WaitersAgree'
    BY <1>4, <1>t DEF ServerRaises, WaitType, HistoryType, WaitersAgree
  <2>3. CallType'
    BY <1>4, <1>t, <2>1, DeathType DEF ServerRaises, CallType
  <2> QED
    BY <1>t, <2>1, <2>2, <2>3, DeathType, Groups DEF TypeInv
<1>5. CASE ServerTrains(s)
  <2>1. phase[s] = "busy" /\ job[s].kind = "train" /\ job[s].from \in Predictor
        /\ layers[s] = Layers[job[s].from]
    BY <1>5, <1>t, JobType DEF ServerTrains, Serves, ServersAgree
  <2>2. CallType' /\ WaitType' /\ HistoryType' /\ WaitersAgree'
    BY <1>5, <1>t DEF ServerTrains, CallType, WaitType, HistoryType, WaitersAgree
  <2>3. ServerType'
    BY <1>5, <2>1, <1>t DEF ServerTrains, ServerType
  <2>4. file' = [file EXCEPT ![job[s].from] = Layers[job[s].from]]
    BY <1>5, <2>1 DEF ServerTrains
  <2>5. \A t \in Predictor : phase[t] = "trained" => job[t].from \in Predictor
    BY <1>t, JobType DEF ServersAgree
  <2>6. ServersAgree'
    BY <1>5, <2>1, <2>4, <2>5, <1>t
    DEF ServerTrains, CallType, ServerType, ServersAgree, Alive
  <2> QED
    BY <2>2, <2>3, <2>6, Groups DEF TypeInv
<1>6. CASE ServerReports(s)
  <2> DEFINE p == job[s].from
             heard == rra # Absent /\ inbox[rra] = Absent
  <2>1. phase[s] = "trained" /\ p \in Predictor
    BY <1>6, <1>t, JobType DEF ServerReports, ServersAgree
  <2>2. /\ inbox' = IF heard THEN [inbox EXCEPT ![rra] = p] ELSE inbox
        /\ reports' = reports \cup {<<p, IF heard THEN rra[1] ELSE Absent>>}
        /\ disturbed' = (disturbed \/ Early(p))
        /\ UNCHANGED <<ready, trains, wait, rra, layers, file>>
        /\ IF rra = Absent THEN Dies(s)
           ELSE EndJob(s) /\ UNCHANGED <<uds, call, queue>>
    BY <1>6 DEF ServerReports
  <2>3. rra # Absent => rra \in Waiter /\ wait[rra] = "listening" /\ rra[1] \in Predictor
    BY <1>t, WaiterParts DEF WaitType
  <2>4. WaitType' /\ WaitersAgree'
    BY <2>1, <2>2, <2>3, <1>t DEF WaitType, WaitersAgree
  <2>5. HistoryType'
    <3>1. <<p, IF heard THEN rra[1] ELSE Absent>>
            \in Predictor \X (Predictor \cup {Absent})
      BY <2>1, <2>3
    <3>2. disturbed' \in BOOLEAN
      BY <2>2, <1>t, Zenon DEF HistoryType, Early
    <3> QED
      BY <2>2, <3>1, <3>2, <1>t DEF HistoryType
  <2>6. CASE rra = Absent
    <3>1. Dies(s) /\ UNCHANGED <<layers, file>> /\ phase[s] \in Alive
      BY <2>1, <2>2, <2>6 DEF Alive
    <3>2. CallType'
      BY <3>1, <2>2, <1>t, DeathType DEF CallType
    <3> QED
      BY <3>1, <3>2, <2>4, <2>5, <1>t, DeathType, Groups DEF TypeInv
  <2>7. CASE rra # Absent
    <3>1. EndJob(s) /\ UNCHANGED <<uds, call, queue, layers, file, ready, trains>>
      BY <2>2, <2>7
    <3>2. CallType'
      BY <3>1, <1>t DEF CallType
    <3>3. ServerType'
      BY <3>1, <2>1, <1>t DEF ServerType, EndJob
    <3>4. ServersAgree'
      BY <3>1, <2>1, <1>t DEF ServersAgree, ServerType, EndJob, NoJob, Alive
    <3> QED
      BY <3>2, <3>3, <3>4, <2>4, <2>5, Groups DEF TypeInv
  <2> QED
    BY <2>6, <2>7
<1> QED
  BY <1>1, <1>2, <1>3, <1>4, <1>5, <1>6 DEF ServerStep

-----------------------------------------------------------------------------
(* The places of requests *)

LEMMA SlotType ==
  ASSUME TypeOK, NEW s \in Predictor
  PROVE  /\ Len(queue[s]) \in Nat /\ 0 \in Places(s)
         /\ \A i \in Places(s) : i \in Nat /\ Slot(s, i) \in Connection \cup {NoJob}
<1>1. queue[s] \in Seq(Connection) /\ job[s] \in Connection \cup {NoJob}
  BY DEF TypeOK
<1> QED
  BY <1>1 DEF Places, Slot

LEMMA PredictKind ==
  ASSUME NEW c \in Connection \cup {NoJob}
  PROVE  /\ c.kind = "predict" => c.from \in Predictor /\ c = PredictOf(c.from)
         /\ \A p : c = PredictOf(p) => c.kind = "predict" /\ c.from = p
  BY DEF Connection, NoJob, PredictOf

\* The clients of a server are those whose request to predict it holds.
LEMMA ClientsAre ==
  ASSUME TypeOK, NEW s \in Predictor, NEW p \in Predictor
  PROVE  p \in Clients(s) <=> \E i \in Places(s) : Slot(s, i) = PredictOf(p)
<1>1. queue[s] \in Seq(Connection) /\ job[s] \in Connection \cup {NoJob}
  BY DEF TypeOK
<1>2. ASSUME p \in Clients(s)
      PROVE  \E i \in Places(s) : Slot(s, i) = PredictOf(p)
  <2>1. PICK c \in {job[s]} \cup {queue[s][i] : i \in DOMAIN queue[s]} :
               c.kind = "predict" /\ c.from = p
    BY <1>2 DEF Clients
  <2>2. c \in Connection \cup {NoJob}
    BY <1>1
  <2>3. c = PredictOf(p)
    BY <2>1, <2>2, PredictKind
  <2>4. CASE c = job[s]
    BY <2>3, <2>4, SlotType DEF Slot
  <2>5. ASSUME NEW i \in DOMAIN queue[s], c = queue[s][i]
        PROVE  \E j \in Places(s) : Slot(s, j) = PredictOf(p)
    <3>1. i \in Places(s) /\ i # 0
      BY <1>1 DEF Places
    <3> QED
      BY <2>3, <2>5, <3>1 DEF Slot
  <2> QED
    BY <2>1, <2>4, <2>5
<1>3. ASSUME NEW i \in Places(s), Slot(s, i) = PredictOf(p)
      PROVE  p \in Clients(s)
  <2>1. Slot(s, i) \in {job[s]} \cup {queue[s][j] : j \in DOMAIN queue[s]}
    BY <1>1 DEF Slot, Places
  <2>2. Slot(s, i).kind = "predict" /\ Slot(s, i).from = p
    BY <1>3 DEF PredictOf
  <2> QED
    BY <2>1, <2>2 DEF Clients
<1> QED
  BY <1>2, <1>3

\* The places of s are as they were.
SameAt(s) ==
  Places(s)' = Places(s) /\ \A i \in Places(s) : Slot(s, i)' = Slot(s, i)

\* A request that is sent has a place of its own, at a server that is alive.
LEMMA SendSlots ==
  ASSUME TypeOK, Connects, NEW kind \in {"train", "predict"}, NEW p \in Predictor,
         Request(kind, p), UNCHANGED job
  PROVE  \E u \in Predictor :
           /\ phase[u] \in Alive
           /\ \A t \in Predictor : t # u => SameAt(t)
           /\ \A i \in Places(u) : Slot(u, i)' = Slot(u, i)
           /\ \E new \in Places(u)' \ Places(u) :
                /\ Places(u)' = Places(u) \cup {new}
                /\ Slot(u, new)' = [kind |-> kind, from |-> p]
<1> DEFINE c == [kind |-> kind, from |-> p]
<1>1. PICK u \in Predictor :
        /\ phase[u] \in Alive
        /\ queue' = [queue EXCEPT ![u] = Append(@, c)]
  BY RequestSent, Groups
<1>2. queue \in [Predictor -> Seq(Connection)] /\ c \in Connection
  BY DEF TypeOK, Connection
<1> HIDE DEF c
<1>3. \A t \in Predictor : t # u => SameAt(t)
  BY <1>1, <1>2 DEF SameAt, Places, Slot
<1>4. /\ queue'[u] = Append(queue[u], c)
      /\ queue[u] \in Seq(Connection) /\ Len(queue[u]) \in Nat
  BY <1>1, <1>2
<1>5. /\ Len(queue'[u]) = Len(queue[u]) + 1
      /\ queue'[u][Len(queue[u]) + 1] = c
      /\ \A i \in 1 .. Len(queue[u]) : queue'[u][i] = queue[u][i]
  BY <1>2, <1>4
<1>6. \A i \in Places(u) : Slot(u, i)' = Slot(u, i)
  BY <1>4, <1>5 DEF Places, Slot
<1> DEFINE new == Len(queue[u]) + 1
<1>7. /\ new \in Places(u)' /\ new \notin Places(u)
      /\ Places(u)' = Places(u) \cup {new}
  BY <1>4, <1>5 DEF Places
<1>8. (IF new = 0 THEN job' ELSE queue'[u][new]) = c
  BY <1>4, <1>5
<1>9. ASSUME NEW n, n = new PROVE Slot(u, n)' = c
  BY <1>8, <1>9, <1>4 DEF Slot
<1> HIDE DEF new
<1>10. \E n \in Places(u)' \ Places(u) : Places(u)' = Places(u) \cup {n} /\ Slot(u, n)' = c
  BY <1>7, <1>9
<1> QED
  BY <1>1, <1>3, <1>6, <1>10 DEF c

\* A server that takes a request moves all that it holds by one place.
LEMMA TakeSlots ==
  ASSUME TypeOK, ServersAgree, NEW s \in Predictor, ServerTakes(s)
  PROVE  /\ \A t \in Predictor \ {s} : SameAt(t)
         /\ Slot(s, 0) = NoJob
         /\ \A i \in Places(s)' : i + 1 \in Places(s) /\ Slot(s, i)' = Slot(s, i + 1)
         /\ \A i \in Places(s) \ {0} : i - 1 \in Places(s)' /\ (i - 1) + 1 = i
<1>1. /\ queue[s] \in Seq(Connection) /\ queue[s] # <<>>
      /\ Len(queue[s]) \in Nat \ {0}
      /\ job'[s] = Head(queue[s]) /\ queue'[s] = Tail(queue[s])
      /\ \A t \in Predictor \ {s} : job'[t] = job[t] /\ queue'[t] = queue[t]
  BY DEF ServerTakes, TypeOK
<1>2. \A t \in Predictor \ {s} : SameAt(t)
  BY <1>1 DEF SameAt, Places, Slot
<1>3. Slot(s, 0) = NoJob
  BY DEF Slot, ServersAgree, ServerTakes
<1>4. /\ Len(queue'[s]) = Len(queue[s]) - 1
      /\ job'[s] = queue[s][1]
      /\ \A i \in 1 .. Len(queue[s]) - 1 : queue'[s][i] = queue[s][i + 1]
  BY <1>1
<1>5. \A i \in Places(s)' : i + 1 \in Places(s) /\ Slot(s, i)' = Slot(s, i + 1)
  BY <1>1, <1>4 DEF Places, Slot
<1>6. \A i \in Places(s) \ {0} : i - 1 \in Places(s)' /\ (i - 1) + 1 = i
  BY <1>1, <1>4 DEF Places
<1> QED
  BY <1>2, <1>3, <1>5, <1>6

\* A job that has ended leaves its place.
LEMMA EndSlots ==
  ASSUME TypeOK, NEW s \in Predictor, EndJob(s), UNCHANGED queue
  PROVE  /\ \A t \in Predictor : t # s => SameAt(t)
         /\ Places(s)' = Places(s) /\ Slot(s, 0)' = NoJob
         /\ \A i \in Places(s) \ {0} : Slot(s, i)' = Slot(s, i)
  BY DEF EndJob, TypeOK, SameAt, Places, Slot

\* A server that dies holds nothing any more.
LEMMA DeathSlots ==
  ASSUME TypeOK, NEW s \in Predictor, Dies(s)
  PROVE  /\ \A t \in Predictor : t # s => SameAt(t)
         /\ \A i \in Places(s)' : Slot(s, i)' = NoJob
  BY DEF Dies, TypeOK, SameAt, Places, Slot

\* Nothing is sent, taken or ended.
LEMMA SameSlots ==
  ASSUME UNCHANGED <<queue, job>>
  PROVE  \A s \in Predictor : SameAt(s)
  BY DEF SameAt, Places, Slot

-----------------------------------------------------------------------------
(* Requests to predict *)

Held == PredictsHeld /\ PredictsOnce

\* Whose call waits does not change, and neither do the places.
LEMMA HeldSame ==
  ASSUME Held, \A s \in Predictor : SameAt(s),
         \A p \in Predictor : call'[p] = "waiting" <=> call[p] = "waiting"
  PROVE  Held'
  BY DEF Held, PredictsHeld, PredictsOnce, SameAt

\* A request that is sent: to predict, and its caller waits, or to train.
LEMMA HeldSend ==
  ASSUME TypeOK, Held, NEW p \in Predictor, Predict(p) \/ Train(p)
  PROVE  Held'
<1>1. PICK kind \in {"train", "predict"} :
        /\ Request(kind, p) /\ Connects /\ UNCHANGED job
        /\ \A q \in Predictor \ {p} : call'[q] = call[q]
        /\ \/ kind = "predict" /\ call[p] = "idle" /\ call'[p] = "waiting"
           \/ kind = "train" /\ call'[p] = call[p]
  BY DEF Predict, Train, TypeOK
<1>2. PICK u \in Predictor :
        /\ \A t \in Predictor : t # u => SameAt(t)
        /\ \A i \in Places(u) : Slot(u, i)' = Slot(u, i)
        /\ \E new \in Places(u)' \ Places(u) :
             /\ Places(u)' = Places(u) \cup {new}
             /\ Slot(u, new)' = [kind |-> kind, from |-> p]
  BY <1>1, SendSlots
<1>3. PICK new \in Places(u)' \ Places(u) :
        /\ Places(u)' = Places(u) \cup {new}
        /\ Slot(u, new)' = [kind |-> kind, from |-> p]
  BY <1>2
<1>4. ASSUME NEW q \in Predictor
      PROVE  Slot(u, new)' = PredictOf(q) <=> kind = "predict" /\ q = p
  BY <1>3 DEF PredictOf
<1>5. ASSUME NEW s \in Predictor, NEW i \in Places(s)'
      PROVE  \/ s = u /\ i = new
             \/ i \in Places(s) /\ Slot(s, i)' = Slot(s, i)
  BY <1>2, <1>3 DEF SameAt
<1>6. ASSUME NEW s \in Predictor, NEW i \in Places(s)
      PROVE  i \in Places(s)' /\ Slot(s, i)' = Slot(s, i)
  BY <1>2, <1>3 DEF SameAt
<1>7. PredictsHeld'
  <2> SUFFICES ASSUME NEW q \in Predictor
               PROVE  call'[q] = "waiting" <=>
                        \E s \in Predictor : \E i \in Places(s)' : Slot(s, i)' = PredictOf(q)
    BY DEF PredictsHeld, PredictOf
  <2>0. call[q] = "waiting" <=>
          \E s \in Predictor : \E i \in Places(s) : Slot(s, i) = PredictOf(q)
    BY DEF Held, PredictsHeld
  <2>1. CASE kind = "predict" /\ q = p
    BY <1>1, <1>3, <1>4, <2>1
  <2>2. CASE ~(kind = "predict" /\ q = p)
    <3>1. call'[q] = call[q]
      BY <1>1, <2>2
    <3> QED
      BY <1>4, <1>5, <1>6, <2>0, <2>2, <3>1
  <2> QED
    BY <2>1, <2>2
<1>8. PredictsOnce'
  <2> SUFFICES ASSUME NEW q \in Predictor, NEW s \in Predictor, NEW t \in Predictor,
                      NEW i \in Places(s)', NEW j \in Places(t)',
                      Slot(s, i)' = PredictOf(q), Slot(t, j)' = PredictOf(q)
               PROVE  s = t /\ i = j
    BY DEF PredictsOnce, PredictOf
  <2>1. CASE kind = "predict" /\ q = p
    <3>1. ~\E v \in Predictor : \E k \in Places(v) : Slot(v, k) = PredictOf(q)
      BY <1>1, <2>1 DEF Held, PredictsHeld
    <3> QED
      BY <1>5, <3>1
  <2>2. CASE ~(kind = "predict" /\ q = p)
    BY <1>4, <1>5, <2>2 DEF Held, PredictsOnce
  <2> QED
    BY <2>1, <2>2
<1> QED
  BY <1>7, <1>8 DEF Held

LEMMA HeldTake ==
  ASSUME TypeOK, ServersAgree, Held, NEW s \in Predictor, ServerTakes(s)
  PROVE  Held'
<1>1. /\ \A t \in Predictor \ {s} : SameAt(t)
      /\ Slot(s, 0) = NoJob
      /\ \A i \in Places(s)' : i + 1 \in Places(s) /\ Slot(s, i)' = Slot(s, i + 1)
      /\ \A i \in Places(s) \ {0} : i - 1 \in Places(s)' /\ (i - 1) + 1 = i
  BY TakeSlots
<1>2. call' = call
  BY DEF ServerTakes, callVars
<1>3. ASSUME NEW q \in Predictor, NEW t \in Predictor, NEW i \in Places(t),
             Slot(t, i) = PredictOf(q)
      PROVE  \E j \in Places(t)' : Slot(t, j)' = PredictOf(q)
  <2>1. CASE t # s
    BY <1>1, <1>3, <2>1 DEF SameAt
  <2>2. CASE t = s
    <3>1. i # 0
      BY <1>1, <1>3, <2>2 DEF PredictOf, NoJob
    <3>2. i - 1 \in Places(s)' /\ Slot(s, i - 1)' = Slot(s, i)
      BY <1>1, <2>2, <3>1
    <3> QED
      BY <1>3, <2>2, <3>2
  <2> QED
    BY <2>1, <2>2
<1>4. ASSUME NEW t \in Predictor, NEW i \in Places(t)'
      PROVE  \E j \in Places(t) : Slot(t, j) = Slot(t, i)'
  BY <1>1 DEF SameAt
<1>5. PredictsHeld'
  BY <1>2, <1>3, <1>4 DEF Held, PredictsHeld, PredictOf
<1>6. PredictsOnce'
  <2> SUFFICES ASSUME NEW q \in Predictor, NEW t \in Predictor, NEW v \in Predictor,
                      NEW i \in Places(t)', NEW j \in Places(v)',
                      Slot(t, i)' = PredictOf(q), Slot(v, j)' = PredictOf(q)
               PROVE  t = v /\ i = j
    BY DEF PredictsOnce, PredictOf
  <2>1. t = v
    BY <1>4 DEF Held, PredictsOnce
  <2>2. CASE t # s
    BY <1>1, <2>1, <2>2 DEF SameAt, Held, PredictsOnce
  <2>3. CASE t = s
    <3>1. i + 1 \in Places(s) /\ j + 1 \in Places(s) /\ i + 1 = j + 1
      BY <1>1, <2>1, <2>3 DEF Held, PredictsOnce
    <3>2. i \in Nat /\ j \in Nat
      BY <2>1, <2>3 DEF Places
    <3> QED
      BY <2>1, <3>1, <3>2
  <2> QED
    BY <2>2, <2>3
<1> QED
  BY <1>5, <1>6 DEF Held

\* The answer goes to the caller of the job; an ended training answers no call.
LEMMA HeldEnd ==
  ASSUME TypeOK, Held, NEW s \in Predictor, EndJob(s), UNCHANGED queue,
         \/ job[s].kind = "predict" /\ call' = [call EXCEPT ![job[s].from] = "idle"]
         \/ job[s].kind = "train" /\ UNCHANGED call
  PROVE  Held'
<1>1. /\ \A t \in Predictor : t # s => SameAt(t)
      /\ Places(s)' = Places(s) /\ Slot(s, 0)' = NoJob
      /\ \A i \in Places(s) \ {0} : Slot(s, i)' = Slot(s, i)
  BY EndSlots
<1>2. 0 \in Places(s) /\ Slot(s, 0) = job[s] /\ job[s] \in Connection \cup {NoJob}
  BY SlotType DEF Slot
<1>3. \A q : Slot(s, 0)' # PredictOf(q)
  BY <1>1 DEF NoJob, PredictOf
<1>4. ASSUME NEW t \in Predictor, NEW i \in Places(t)', NEW q \in Predictor,
             Slot(t, i)' = PredictOf(q)
      PROVE  i \in Places(t) /\ Slot(t, i) = PredictOf(q) /\ (t # s \/ i # 0)
  BY <1>1, <1>3, <1>4 DEF SameAt
<1>5. PredictsOnce'
  <2> SUFFICES ASSUME NEW q \in Predictor, NEW t \in Predictor, NEW v \in Predictor,
                      NEW i \in Places(t)', NEW j \in Places(v)',
                      Slot(t, i)' = PredictOf(q), Slot(v, j)' = PredictOf(q)
               PROVE  t = v /\ i = j
    BY DEF PredictsOnce, PredictOf
  <2> QED
    BY <1>4 DEF Held, PredictsOnce
<1>6. PredictsHeld'
  <2> SUFFICES ASSUME NEW q \in Predictor
               PROVE  call'[q] = "waiting" <=>
                        \E t \in Predictor : \E i \in Places(t)' : Slot(t, i)' = PredictOf(q)
    BY DEF PredictsHeld, PredictOf
  <2>0. call[q] = "waiting" <=>
          \E t \in Predictor : \E i \in Places(t) : Slot(t, i) = PredictOf(q)
    BY DEF Held, PredictsHeld
  <2>1. CASE Slot(s, 0) = PredictOf(q)
    <3>1. call'[q] = "idle"
      BY <1>2, <2>1, PredictKind DEF TypeOK
    <3>2. ASSUME NEW t \in Predictor, NEW i \in Places(t)', Slot(t, i)' = PredictOf(q)
          PROVE  FALSE
      <4>1. i \in Places(t) /\ Slot(t, i) = PredictOf(q) /\ (t # s \/ i # 0)
        BY <1>4, <3>2
      <4> QED
        BY <1>2, <2>1, <4>1 DEF Held, PredictsOnce
    <3> QED
      BY <3>1, <3>2
  <2>2. CASE Slot(s, 0) # PredictOf(q)
    <3>1. call'[q] = call[q]
      <4>1. job[s].kind = "predict" =>
              job[s].from \in Predictor /\ job[s] = PredictOf(job[s].from)
        BY <1>2, PredictKind, Zenon
      <4>2. job[s].kind = "predict" => job[s].from # q
        BY <1>2, <2>2, <4>1, Zenon
      <4>3. call \in [Predictor -> {"unbuilt", "failed", "idle", "waiting"}]
        BY DEF TypeOK
      <4> QED
        BY <4>2, <4>3
    <3>2. ASSUME NEW t \in Predictor, NEW i \in Places(t), Slot(t, i) = PredictOf(q)
          PROVE  i \in Places(t)' /\ Slot(t, i)' = PredictOf(q)
      BY <1>1, <2>2, <3>2 DEF SameAt
    <3> QED
      BY <1>4, <2>0, <3>1, <3>2
  <2> QED
    BY <2>1, <2>2
<1> QED
  BY <1>5, <1>6 DEF Held

\* The clients of a server that dies read the end of the stream.
LEMMA HeldDeath ==
  ASSUME TypeOK, Held, NEW s \in Predictor, Dies(s)
  PROVE  Held'
<1>1. /\ \A t \in Predictor : t # s => SameAt(t)
      /\ \A i \in Places(s)' : Slot(s, i)' = NoJob
  BY DeathSlots
<1>2. \A q : NoJob # PredictOf(q)
  BY DEF NoJob, PredictOf
<1>3. \A q \in Predictor : call'[q] =
         IF \E i \in Places(s) : Slot(s, i) = PredictOf(q) THEN "idle" ELSE call[q]
  BY ClientsAre DEF Dies
<1>4. ASSUME NEW t \in Predictor, NEW i \in Places(t)', NEW q \in Predictor,
             Slot(t, i)' = PredictOf(q)
      PROVE  i \in Places(t) /\ Slot(t, i) = PredictOf(q) /\ t # s
  BY <1>1, <1>2, <1>4 DEF SameAt
<1>5. PredictsOnce'
  <2> SUFFICES ASSUME NEW q \in Predictor, NEW t \in Predictor, NEW v \in Predictor,
                      NEW i \in Places(t)', NEW j \in Places(v)',
                      Slot(t, i)' = PredictOf(q), Slot(v, j)' = PredictOf(q)
               PROVE  t = v /\ i = j
    BY DEF PredictsOnce, PredictOf
  <2> QED
    BY <1>4 DEF Held, PredictsOnce
<1>6. PredictsHeld'
  <2> SUFFICES ASSUME NEW q \in Predictor
               PROVE  call'[q] = "waiting" <=>
                        \E t \in Predictor : \E i \in Places(t)' : Slot(t, i)' = PredictOf(q)
    BY DEF PredictsHeld, PredictOf
  <2>0. call[q] = "waiting" <=>
          \E t \in Predictor : \E i \in Places(t) : Slot(t, i) = PredictOf(q)
    BY DEF Held, PredictsHeld
  <2>1. CASE \E i \in Places(s) : Slot(s, i) = PredictOf(q)
    BY <1>3, <1>4, <2>1 DEF Held, PredictsOnce
  <2>2. CASE ~\E i \in Places(s) : Slot(s, i) = PredictOf(q)
    <3>1. call'[q] = call[q]
      BY <1>3, <2>2
    <3>2. ASSUME NEW t \in Predictor, NEW i \in Places(t), Slot(t, i) = PredictOf(q)
          PROVE  i \in Places(t)' /\ Slot(t, i)' = PredictOf(q)
      BY <1>1, <2>2, <3>2 DEF SameAt
    <3> QED
      BY <1>4, <2>0, <3>1, <3>2
  <2> QED
    BY <2>1, <2>2
<1> QED
  BY <1>5, <1>6 DEF Held

\* Every step keeps the requests to predict at their places.
LEMMA HeldStep ==
  ASSUME TypeInv, Held, Next
  PROVE  Held'
<1> USE DEF callVars, waitVars, serverVars
<1>t. TypeOK /\ ServersAgree
  BY DEF TypeInv
<1>1. ASSUME NEW p \in Predictor, New(p) PROVE Held'
  <2>1. \A q \in Predictor : call'[q] = "waiting" <=> call[q] = "waiting"
    BY <1>1, <1>t DEF New, TypeOK
  <2> QED
    BY <1>1, <2>1, SameSlots, HeldSame DEF New
<1>2. ASSUME NEW p \in Predictor, Predict(p) \/ Train(p) PROVE Held'
  BY <1>2, <1>t, HeldSend
<1>3. ASSUME NEW w \in Waiter, WaiterStep(w) PROVE Held'
  <2>1. UNCHANGED <<call, queue, job>>
    BY <1>3 DEF WaiterStep, WaiterStats, WaiterRemoves, WaiterListens, WaiterUpdates
  <2> QED
    BY <2>1, SameSlots, HeldSame
<1>4. ASSUME NEW s \in Predictor, ServerStep(s) PROVE Held'
  <2>1. CASE ServerStarts(s) \/ ServerTrains(s)
    <3>1. UNCHANGED <<call, queue, job>>
      BY <2>1 DEF ServerStarts, ServerTrains
    <3> QED
      BY <3>1, SameSlots, HeldSame
  <2>2. CASE ServerTakes(s)
    BY <2>2, <1>t, HeldTake
  <2>3. CASE ServerAnswers(s)
    BY <2>3, <1>t, HeldEnd DEF ServerAnswers, Serves
  <2>4. CASE ServerRaises(s)
    BY <2>4, <1>t, HeldDeath DEF ServerRaises
  <2>5. CASE ServerReports(s)
    <3>1. \/ Dies(s)
          \/ EndJob(s) /\ UNCHANGED <<call, queue>>
      BY <2>5, Zenon DEF ServerReports
    <3>2. job[s].kind = "train"
      BY <2>5, <1>t DEF ServerReports, ServersAgree
    <3> QED
      BY <3>1, <3>2, <1>t, HeldDeath, HeldEnd
  <2> QED
    BY <1>4, <2>1, <2>2, <2>3, <2>4, <2>5 DEF ServerStep
<1> QED
  BY <1>1, <1>2, <1>3, <1>4 DEF Next

\* A call waits exactly if one server, which is alive, has it as a client.
LEMMA HeldServed == TypeOK /\ ServersAgree /\ Held => WaitingIsServed
<1> SUFFICES ASSUME TypeOK, ServersAgree, Held, NEW p \in Predictor
             PROVE  call[p] = "waiting" <=>
                      \E s \in Predictor :
                        /\ p \in Clients(s)
                        /\ phase[s] \in {"idle", "busy", "trained"}
                        /\ \A t \in Predictor \ {s} : p \notin Clients(t)
  BY DEF WaitingIsServed
<1>1. ASSUME call[p] = "waiting"
      PROVE  \E s \in Predictor :
               /\ p \in Clients(s)
               /\ phase[s] \in {"idle", "busy", "trained"}
               /\ \A t \in Predictor \ {s} : p \notin Clients(t)
  <2>1. PICK s \in Predictor : \E i \in Places(s) : Slot(s, i) = PredictOf(p)
    BY <1>1 DEF Held, PredictsHeld
  <2>2. PICK i \in Places(s) : Slot(s, i) = PredictOf(p)
    BY <2>1
  <2>3. p \in Clients(s)
    BY <2>1, ClientsAre
  <2>4. phase[s] \in Alive
    <3>1. CASE i = 0
      <4>1. job[s] # NoJob
        BY <2>2, <3>1 DEF Slot, PredictOf, NoJob
      <4> QED
        BY <4>1 DEF ServersAgree, Alive
    <3>2. CASE i # 0
      <4>1. queue[s] # <<>>
        BY <3>2 DEF Places
      <4> QED
        BY <4>1 DEF ServersAgree
    <3> QED
      BY <3>1, <3>2
  <2>5. \A t \in Predictor \ {s} : p \notin Clients(t)
    BY <2>2, ClientsAre DEF Held, PredictsOnce
  <2> QED
    BY <2>3, <2>4, <2>5 DEF Alive
<1>2. ASSUME NEW s \in Predictor, p \in Clients(s)
      PROVE  call[p] = "waiting"
  BY <1>2, ClientsAre DEF Held, PredictsHeld
<1> QED
  BY <1>1, <1>2

-----------------------------------------------------------------------------
(* The saved networks *)

\* A network is saved with the layers of the model that was trained.
LEMMA FileStep ==
  ASSUME TypeInv, FilesHaveOwnLayers, Next
  PROVE  /\ FilesHaveOwnLayers'
         /\ \A p \in Predictor : file[p] = Layers[p] => file'[p] = Layers[p]
<1> USE DEF callVars, waitVars, serverVars
<1>1. CASE UNCHANGED file
  BY <1>1 DEF FilesHaveOwnLayers
<1>2. ASSUME NEW s \in Predictor, ServerTrains(s)
      PROVE  file' = [file EXCEPT ![job[s].from] = Layers[job[s].from]]
  BY <1>2 DEF ServerTrains, Serves, TypeInv, ServersAgree
<1>3. ASSUME NEW s \in Predictor, ServerTrains(s)
      PROVE  /\ FilesHaveOwnLayers'
             /\ \A p \in Predictor : file[p] = Layers[p] => file'[p] = Layers[p]
  <2>1. file \in [Predictor -> Nat] /\ file' = [file EXCEPT ![job[s].from] = Layers[job[s].from]]
    BY <1>2, <1>3 DEF TypeInv, TypeOK
  <2>2. \A p \in Predictor : file'[p] = file[p] \/ file'[p] = Layers[p]
    BY <2>1
  <2> QED
    BY <2>2 DEF FilesHaveOwnLayers
<1>4. \/ UNCHANGED file
      \/ \E s \in Predictor : ServerTrains(s)
  BY DEF Next, New, Predict, Train, WaiterStep, WaiterStats, WaiterRemoves,
     WaiterListens, WaiterUpdates, ServerStep, ServerStarts, ServerTakes, ServerAnswers,
     ServerRaises, ServerReports
<1> QED
  BY <1>1, <1>3, <1>4

-----------------------------------------------------------------------------
(* Trainings that nothing disturbs *)

Orderly == WaitsAlone /\ TrainsAlone /\ AnswersAgree

\* Only a waiter that is under way is at the path of the answers or has one.
LEMMA PendingIs ==
  ASSUME TypeOK, WaitersAgree
  PROVE  /\ \A w \in Waiter : wait[w] = "listening" => w \in Pending
         /\ \A w \in Waiter : inbox[w] # Absent => w \in Pending /\ wait[w] = "listening"
         /\ rra # Absent => rra \in Pending /\ wait[rra] = "listening"
         /\ Absent \notin Pending
         /\ Pending \subseteq Waiter
  BY TrainingAssumption DEF TypeOK, WaitersAgree, Pending

\* The requests to train that are left are where they were.
LEMMA TrainsFewer ==
  ASSUME TrainsAlone, UNCHANGED <<wait, inbox>>,
         \A s \in Predictor : \A i \in Places(s)' : (Slot(s, i).kind = "train")' =>
           i \in Places(s) /\ Slot(s, i)' = Slot(s, i)
  PROVE  TrainsAlone'
<1>1. Pending' = Pending
  BY DEF Pending
<1>2. ASSUME NEW s \in Predictor, NEW i \in Places(s)', (Slot(s, i).kind = "train")'
      PROVE  /\ i \in Places(s) /\ Slot(s, i).kind = "train"
             /\ Slot(s, i)' = Slot(s, i)
  BY <1>2
<1>3. ASSUME NEW s \in Predictor, NEW t \in Predictor, NEW i \in Places(s)',
             NEW j \in Places(t)',
             (Slot(s, i).kind = "train")', (Slot(t, j).kind = "train")'
      PROVE  s = t /\ i = j
  BY <1>2, <1>3 DEF TrainsAlone
<1>4. ASSUME NEW s \in Predictor, NEW i \in Places(s)', (Slot(s, i).kind = "train")'
      PROVE  \E w \in Pending : w[1] = Slot(s, i).from' /\ inbox[w] = Absent
  BY <1>2, <1>4 DEF TrainsAlone
<1> QED
  BY <1>1, <1>3, <1>4 DEF TrainsAlone

\* Where the waiters and the files stay as they are.
LEMMA WaitsSame ==
  ASSUME WaitsAlone, AnswersAgree, UNCHANGED <<wait, inbox, rra, file>>
  PROVE  WaitsAlone' /\ AnswersAgree'
  BY DEF WaitsAlone, AnswersAgree, Pending

\* A request to predict is none to train.
LEMMA OrderPredict ==
  ASSUME TypeOK, Orderly, NEW p \in Predictor, Predict(p)
  PROVE  Orderly'
<1>1. Connects /\ Request("predict", p) /\ UNCHANGED <<wait, inbox, rra, file, job>>
  BY DEF Predict, waitVars
<1>2. PICK u \in Predictor :
        /\ \A t \in Predictor : t # u => SameAt(t)
        /\ \A i \in Places(u) : Slot(u, i)' = Slot(u, i)
        /\ \E new \in Places(u)' \ Places(u) :
             /\ Places(u)' = Places(u) \cup {new}
             /\ Slot(u, new)' = [kind |-> "predict", from |-> p]
  BY <1>1, SendSlots
<1>3. \A s \in Predictor : \A i \in Places(s)' : (Slot(s, i).kind = "train")' =>
        i \in Places(s) /\ Slot(s, i)' = Slot(s, i)
  BY <1>2 DEF SameAt
<1> QED
  BY <1>1, <1>3, TrainsFewer, WaitsSame DEF Orderly

\* A training that is asked for while nobody waits for another one.
LEMMA OrderTrain ==
  ASSUME TypeInv, Orderly, NEW p \in Predictor, Train(p), Pending = {}
  PROVE  Orderly'
<1> DEFINE w == <<p, trains[p] + 1>>
<1>1. /\ w \in Waiter /\ w[1] = p
      /\ wait' = [wait EXCEPT ![w] = "spawned"]
      /\ UNCHANGED <<inbox, rra, file, job>>
      /\ Connects /\ Request("train", p)
  <2>1. trains[p] \in Nat /\ trains[p] < MaxTrain[p] /\ MaxTrain[p] \in Nat
    BY TrainingAssumption DEF Train, TypeInv, TypeOK
  <2>2. trains[p] + 1 \in 1 .. MaxTrain[p] /\ trains'[p] = trains[p] + 1
    BY <2>1 DEF Train, TypeInv, TypeOK
  <2> QED
    BY <2>2, WaiterOf DEF Train
<1> HIDE DEF w
<1>2. \A v \in Waiter : inbox[v] = Absent /\ wait[v] \in {"none", "done"}
  BY PendingIs DEF TypeInv, Pending
<1>3. Pending' = {w} /\ (\A v \in Waiter : wait'[v] \in {"none", "done", "spawned"})
  BY <1>1, <1>2 DEF Pending, TypeInv, TypeOK
<1>4. WaitsAlone' /\ AnswersAgree'
  BY <1>1, <1>2, <1>3 DEF WaitsAlone, AnswersAgree
<1>5. PICK u \in Predictor :
        /\ \A t \in Predictor : t # u => SameAt(t)
        /\ \A i \in Places(u) : Slot(u, i)' = Slot(u, i)
        /\ \E new \in Places(u)' \ Places(u) :
             /\ Places(u)' = Places(u) \cup {new}
             /\ Slot(u, new)' = [kind |-> "train", from |-> p]
  BY <1>1, SendSlots DEF TypeInv
<1>6. PICK new \in Places(u)' :
        /\ Places(u)' = Places(u) \cup {new}
        /\ Slot(u, new)' = [kind |-> "train", from |-> p]
  BY <1>5
<1>7. \A s \in Predictor : \A i \in Places(s) : Slot(s, i).kind # "train"
  BY DEF Orderly, TrainsAlone
<1>8. ASSUME NEW s \in Predictor, NEW i \in Places(s)', (Slot(s, i).kind = "train")'
      PROVE  s = u /\ i = new
  BY <1>5, <1>6, <1>7, <1>8 DEF SameAt
<1>9. Slot(u, new).from' = p /\ w \in Pending' /\ w[1] = p /\ inbox'[w] = Absent
  BY <1>1, <1>2, <1>3, <1>6
<1>10. TrainsAlone'
  BY <1>8, <1>9 DEF TrainsAlone
<1> QED
  BY <1>4, <1>10 DEF Orderly

\* The one waiter that is under way finds the path free and takes its answer.
LEMMA OrderWaiter ==
  ASSUME TypeInv, Orderly, NEW w \in Waiter, WaiterStep(w), ~disturbed'
  PROVE  Orderly'
<1> USE DEF callVars, waitVars, serverVars, Goes
<1>t. TypeOK /\ WaitersAgree /\ WaitsAlone /\ TrainsAlone /\ AnswersAgree
  BY DEF TypeInv, Orderly
<1>1. w \in Pending /\ Pending = {w} /\ wait[w] # "found"
  BY <1>t DEF WaiterStep, WaiterStats, WaiterRemoves, WaiterListens, WaiterUpdates,
     Pending, WaitsAlone
<1>2. rra \in {Absent, w} /\ (rra = w => wait[w] = "listening")
  BY <1>1, <1>t, PendingIs
<1>3. \A v \in Waiter : v # w => inbox[v] = Absent /\ wait[v] \in {"none", "done"}
  BY <1>1, <1>t, PendingIs DEF Pending
<1>4. UNCHANGED <<queue, job, file>>
  BY DEF WaiterStep, WaiterStats, WaiterRemoves, WaiterListens, WaiterUpdates
<1>5. \A s \in Predictor : \A i \in Places(s)' : i \in Places(s) /\ Slot(s, i)' = Slot(s, i)
  BY <1>4, SameSlots DEF SameAt
<1>6. ASSUME NEW point \in {"cleared", "listening"}, wait' = [wait EXCEPT ![w] = point],
             UNCHANGED inbox, point = "listening" => rra' = w
      PROVE  Orderly'
  <2>1. wait'[w] = point /\ \A v \in Waiter : v # w => wait'[v] = wait[v]
    BY <1>6, <1>t DEF TypeOK
  <2>2. Pending' = {w}
    BY <1>3, <2>1 DEF Pending
  <2>3. WaitsAlone'
    BY <1>3, <1>6, <2>1, <2>2 DEF WaitsAlone
  <2>4. AnswersAgree'
    BY <1>4, <1>6, <1>t DEF AnswersAgree
  <2>5. TrainsAlone'
    BY <1>1, <1>5, <1>6, <1>t, <2>2 DEF TrainsAlone
  <2> QED
    BY <2>3, <2>4, <2>5 DEF Orderly
<1>7. CASE WaiterStats(w)
  BY <1>2, <1>6, <1>7 DEF WaiterStats
<1>8. CASE WaiterRemoves(w)
  BY <1>1, <1>8 DEF WaiterRemoves
<1>9. CASE WaiterListens(w)
  BY <1>2, <1>6, <1>9 DEF WaiterListens
<1>10. CASE WaiterUpdates(w)
  <2>1. inbox[w] # Absent /\ wait' = [wait EXCEPT ![w] = "done"]
        /\ inbox' = [inbox EXCEPT ![w] = Absent]
    BY <1>10 DEF WaiterUpdates
  <2>2. \A v \in Waiter : inbox'[v] = Absent /\ wait'[v] \in {"none", "done"}
    BY <1>3, <1>t, <2>1 DEF TypeOK
  <2>3. WaitsAlone' /\ AnswersAgree'
    BY <2>2 DEF WaitsAlone, AnswersAgree, Pending
  <2>4. \A s \in Predictor : \A i \in Places(s) : Slot(s, i).kind # "train"
    BY <1>1, <1>t, <2>1 DEF TrainsAlone
  <2>5. TrainsAlone'
    BY <1>5, <2>4 DEF TrainsAlone
  <2> QED
    BY <2>3, <2>5 DEF Orderly
<1> QED
  BY <1>7, <1>8, <1>9, <1>10 DEF WaiterStep

\* A server takes a request, to train or to predict.
LEMMA OrderTake ==
  ASSUME TypeInv, Orderly, NEW s \in Predictor, ServerTakes(s)
  PROVE  Orderly'
<1>1. /\ \A t \in Predictor \ {s} : SameAt(t)
      /\ \A i \in Places(s)' : i + 1 \in Places(s) /\ Slot(s, i)' = Slot(s, i + 1)
  BY TakeSlots DEF TypeInv
<1>2. UNCHANGED <<wait, inbox, rra, file>> /\ TrainsAlone
  BY DEF ServerTakes, waitVars, Orderly
<1>3. Pending' = Pending
  BY <1>2 DEF Pending
<1>4. ASSUME NEW t \in Predictor, NEW i \in Places(t)'
      PROVE  \E j \in Places(t) : Slot(t, j) = Slot(t, i)'
  BY <1>1 DEF SameAt
<1>5. ASSUME NEW t \in Predictor, NEW v \in Predictor, NEW i \in Places(t)',
             NEW j \in Places(v)',
             (Slot(t, i).kind = "train")', (Slot(v, j).kind = "train")'
      PROVE  t = v /\ i = j
  <2>1. t = v
    BY <1>2, <1>4, <1>5 DEF TrainsAlone
  <2>2. CASE t # s
    BY <1>1, <1>2, <1>5, <2>1, <2>2 DEF SameAt, TrainsAlone
  <2>3. CASE t = s
    <3>1. i + 1 \in Places(s) /\ j + 1 \in Places(s) /\ i + 1 = j + 1
      BY <1>1, <1>2, <1>5, <2>1, <2>3 DEF TrainsAlone
    <3>2. i \in Nat /\ j \in Nat
      BY <2>1, <2>3 DEF Places
    <3> QED
      BY <2>1, <3>1, <3>2
  <2> QED
    BY <2>2, <2>3
<1>6. ASSUME NEW t \in Predictor, NEW i \in Places(t)', (Slot(t, i).kind = "train")'
      PROVE  \E w \in Pending : w[1] = Slot(t, i).from' /\ inbox[w] = Absent
  <2>1. PICK j \in Places(t) : Slot(t, j) = Slot(t, i)'
    BY <1>4
  <2> QED
    BY <1>2, <1>6, <2>1 DEF TrainsAlone
<1>7. TrainsAlone'
  BY <1>2, <1>3, <1>5, <1>6 DEF TrainsAlone
<1> QED
  BY <1>2, <1>7, WaitsSame DEF Orderly

\* The job ends or its server dies: nothing is sent to a waiter.
LEMMA OrderLeave ==
  ASSUME TypeInv, Orderly, NEW s \in Predictor, ServerAnswers(s) \/ ServerRaises(s)
  PROVE  Orderly'
<1>1. UNCHANGED <<wait, inbox, rra, file>>
  BY DEF ServerAnswers, ServerRaises, waitVars
<1>2. Dies(s) \/ (EndJob(s) /\ UNCHANGED queue)
  BY DEF ServerAnswers, ServerRaises
<1>3. NoJob.kind # "train"
  BY DEF NoJob
<1>4. \A t \in Predictor : \A i \in Places(t)' : (Slot(t, i).kind = "train")' =>
        i \in Places(t) /\ Slot(t, i)' = Slot(t, i)
  <2>1. CASE Dies(s)
    BY <1>3, <2>1, DeathSlots DEF TypeInv, SameAt
  <2>2. CASE EndJob(s) /\ UNCHANGED queue
    BY <1>3, <2>2, EndSlots DEF TypeInv, SameAt
  <2> QED
    BY <1>2, <2>1, <2>2
<1> QED
  BY <1>1, <1>4, TrainsFewer, WaitsSame DEF Orderly

\* The network is saved; the file that an answer told of stays as it is.
LEMMA OrderTrained ==
  ASSUME TypeInv, Orderly, FilesHaveOwnLayers, NEW s \in Predictor, ServerTrains(s)
  PROVE  Orderly'
<1>1. UNCHANGED <<wait, inbox, rra, queue, job>>
  BY DEF ServerTrains, waitVars
<1>2. \A t \in Predictor : \A i \in Places(t)' : i \in Places(t) /\ Slot(t, i)' = Slot(t, i)
  BY <1>1, SameSlots DEF SameAt
<1>3. TrainsAlone'
  BY <1>1, <1>2, TrainsFewer DEF Orderly
<1>4. \A p \in Predictor : file[p] = Layers[p] => file'[p] = Layers[p]
  <2>1. Next
    BY DEF Next, ServerStep
  <2> QED
    BY <2>1, FileStep
<1>5. AnswersAgree'
  BY <1>1, <1>4, WaiterParts DEF Orderly, AnswersAgree
<1>6. WaitsAlone'
  BY <1>1 DEF Orderly, WaitsAlone, Pending
<1> QED
  BY <1>3, <1>5, <1>6 DEF Orderly

\* The waiter of an undisturbed training listens and hears of its end.
LEMMA OrderReport ==
  ASSUME TypeInv, Orderly, NEW s \in Predictor, ServerReports(s), ~disturbed'
  PROVE  /\ Orderly'
         /\ reports' = reports \cup {<<job[s].from, job[s].from>>}
<1> DEFINE p == job[s].from
           heard == rra # Absent /\ inbox[rra] = Absent
<1>t. TypeOK /\ WaitersAgree /\ ServersAgree /\ WaitsAlone /\ TrainsAlone /\ AnswersAgree
  BY DEF TypeInv, Orderly
<1>1. /\ ~Early(p)
      /\ reports' = reports \cup {<<p, IF heard THEN rra[1] ELSE Absent>>}
      /\ inbox' = IF heard THEN [inbox EXCEPT ![rra] = p] ELSE inbox
      /\ IF rra = Absent THEN Dies(s)
         ELSE EndJob(s) /\ UNCHANGED <<uds, call, queue>>
      /\ UNCHANGED <<wait, rra, file>>
  BY DEF ServerReports
<1>2. job[s].kind = "train" /\ p \in Predictor /\ file[p] = Layers[p]
  BY <1>t, JobType DEF ServerReports, ServersAgree
<1>3. 0 \in Places(s) /\ Slot(s, 0).kind = "train" /\ Slot(s, 0).from = p
  BY <1>2, <1>t, SlotType DEF Slot
<1>4. PICK w \in Pending : w[1] = p /\ inbox[w] = Absent
  BY <1>3, <1>t DEF TrainsAlone
<1>5. w \in Waiter /\ wait[w] = "listening"
  BY <1>1, <1>4 DEF Early, Pending
<1>6. rra = w /\ w # Absent /\ heard
  BY <1>4, <1>5, <1>t, TrainingAssumption DEF WaitsAlone
<1> HIDE DEF p
<1>7. /\ reports' = reports \cup {<<p, p>>}
      /\ inbox' = [inbox EXCEPT ![w] = p]
      /\ EndJob(s) /\ UNCHANGED queue
  BY <1>1, <1>4, <1>6
<1>8. AnswersAgree'
  <2>1. \A v \in Waiter : v # w => inbox'[v] = inbox[v]
    BY <1>7
  <2>2. inbox'[w] = p
    BY <1>5, <1>7, <1>t DEF TypeOK
  <2> QED
    BY <1>1, <1>2, <1>4, <1>t, <2>1, <2>2 DEF AnswersAgree
<1>9. WaitsAlone'
  BY <1>1, <1>t DEF WaitsAlone, Pending
<1>10. \A t \in Predictor : \A i \in Places(t)' : (Slot(t, i).kind # "train")'
  <2> SUFFICES ASSUME NEW t \in Predictor, NEW i \in Places(t)', (Slot(t, i).kind = "train")'
               PROVE  FALSE
    BY Zenon
  <2>1. NoJob.kind # "train"
    BY DEF NoJob
  <2>2. i \in Places(t) /\ Slot(t, i).kind = "train" /\ (t # s \/ i # 0)
    BY <1>7, <1>t, <2>1, EndSlots DEF SameAt
  <2> QED
    BY <1>3, <1>t, <2>2 DEF TrainsAlone
<1>11. TrainsAlone'
  BY <1>10 DEF TrainsAlone
<1> QED
  BY <1>7, <1>8, <1>9, <1>11 DEF Orderly, p

History == StrayOnlyWhenDisturbed /\ ReadyIsTrained

\* What disturbs trainings is never forgotten; else they stay in order.
LEMMA OrderStep ==
  ASSUME TypeInv, FilesHaveOwnLayers, InOrder, History, Next
  PROVE  InOrder' /\ History'
<1> USE DEF callVars, waitVars, serverVars, history
<1>t. TypeOK /\ ServersAgree /\ WaitersAgree
  BY DEF TypeInv
<1>1. CASE disturbed'
  BY <1>1 DEF InOrder, History, StrayOnlyWhenDisturbed, ReadyIsTrained
<1>2. CASE ~disturbed'
  <2>1. \A p \in Predictor : file[p] = Layers[p] => file'[p] = Layers[p]
    BY FileStep
  <2>2. ASSUME ~disturbed, UNCHANGED <<ready, reports>>
        PROVE  History'
    BY <2>1, <2>2 DEF History, StrayOnlyWhenDisturbed, ReadyIsTrained
  <2>3. ASSUME ~disturbed
        PROVE  Orderly /\ \A r \in reports : r[2] = r[1]
    BY <2>3 DEF InOrder, Orderly, History, StrayOnlyWhenDisturbed
  <2>4. ASSUME NEW p \in Predictor, New(p)
        PROVE  InOrder' /\ History'
    <3>1. ~disturbed /\ UNCHANGED <<wait, inbox, rra, file, queue, job, ready, reports>>
      BY <1>2, <2>4 DEF New
    <3>2. \A t \in Predictor : \A i \in Places(t)' : i \in Places(t) /\ Slot(t, i)' = Slot(t, i)
      BY <3>1, SameSlots DEF SameAt
    <3>3. Orderly'
      BY <2>3, <3>1, <3>2, TrainsFewer, WaitsSame DEF Orderly
    <3> QED
      BY <2>2, <3>1, <3>3 DEF InOrder, Orderly
  <2>5. ASSUME NEW p \in Predictor, Predict(p)
        PROVE  InOrder' /\ History'
    <3>1. ~disturbed /\ UNCHANGED <<ready, reports>>
      BY <1>2, <2>5 DEF Predict
    <3> QED
      BY <1>t, <2>2, <2>3, <2>5, <3>1, OrderPredict DEF InOrder, Orderly
  <2>6. ASSUME NEW p \in Predictor, Train(p)
        PROVE  InOrder' /\ History'
    <3>1. ~disturbed /\ Pending = {} /\ UNCHANGED <<ready, reports>>
      BY <1>2, <2>6 DEF Train
    <3> QED
      BY <2>2, <2>3, <2>6, <3>1, OrderTrain DEF InOrder, Orderly
  <2>7. ASSUME NEW w \in Waiter, WaiterStep(w)
        PROVE  InOrder' /\ History'
    <3>1. ~disturbed /\ UNCHANGED reports
      BY <1>2, <2>7 DEF WaiterStep, WaiterStats, WaiterRemoves, WaiterListens, WaiterUpdates
    <3>2. Orderly'
      BY <1>2, <2>3, <2>7, <3>1, OrderWaiter
    <3>3. \/ UNCHANGED ready
          \/ inbox[w] # Absent /\ ready' = [ready EXCEPT ![w[1]] = TRUE]
      BY <2>7 DEF WaiterStep, WaiterStats, WaiterRemoves, WaiterListens, WaiterUpdates
    <3>4. inbox[w] # Absent => file[w[1]] = Layers[w[1]] /\ w[1] \in Predictor
      BY <2>3, <3>1, WaiterParts DEF Orderly, AnswersAgree
    <3>5. \A p \in Predictor : ready'[p] => ready[p] \/ file[p] = Layers[p]
      BY <1>t, <3>3, <3>4 DEF TypeOK
    <3>6. ReadyIsTrained'
      BY <2>1, <3>1, <3>5 DEF History, ReadyIsTrained
    <3>7. StrayOnlyWhenDisturbed'
      BY <2>3, <3>1 DEF StrayOnlyWhenDisturbed
    <3> QED
      BY <3>2, <3>6, <3>7 DEF InOrder, Orderly, History
  <2>8. ASSUME NEW s \in Predictor, ServerStep(s)
        PROVE  InOrder' /\ History'
    <3>1. CASE ServerStarts(s)
      <4>1. ~disturbed /\ UNCHANGED <<wait, inbox, rra, file, queue, job, ready, reports>>
        BY <1>2, <3>1 DEF ServerStarts
      <4>2. \A t \in Predictor : \A i \in Places(t)' :
              i \in Places(t) /\ Slot(t, i)' = Slot(t, i)
        BY <4>1, SameSlots DEF SameAt
      <4>3. Orderly'
        BY <2>3, <4>1, <4>2, TrainsFewer, WaitsSame DEF Orderly
      <4> QED
        BY <2>2, <4>1, <4>3 DEF InOrder, Orderly
    <3>2. CASE ServerTakes(s) \/ ServerAnswers(s) \/ ServerRaises(s) \/ ServerTrains(s)
      <4>1. ~disturbed /\ UNCHANGED <<ready, reports>>
        BY <1>2, <3>2 DEF ServerTakes, ServerAnswers, ServerRaises, ServerTrains
      <4>2. Orderly'
        BY <2>3, <3>2, <4>1, OrderTake, OrderLeave, OrderTrained
      <4> QED
        BY <2>2, <4>1, <4>2 DEF InOrder, Orderly
    <3>3. CASE ServerReports(s)
      <4>1. ~disturbed /\ UNCHANGED ready
        BY <1>2, <3>3 DEF ServerReports
      <4>2. Orderly' /\ reports' = reports \cup {<<job[s].from, job[s].from>>}
        BY <1>2, <2>3, <3>3, <4>1, OrderReport
      <4>3. StrayOnlyWhenDisturbed'
        BY <2>3, <4>1, <4>2 DEF StrayOnlyWhenDisturbed
      <4>4. ReadyIsTrained'
        BY <2>1, <4>1 DEF History, ReadyIsTrained
      <4> QED
        BY <4>2, <4>3, <4>4 DEF InOrder, Orderly, History
    <3> QED
      BY <2>8, <3>1, <3>2, <3>3 DEF ServerStep
  <2> QED
    BY <2>4, <2>5, <2>6, <2>7, <2>8 DEF Next
<1> QED
  BY <1>1, <1>2

-----------------------------------------------------------------------------
(* The invariant *)

LEMMA InvInit == Init => TrainingInv
<1> SUFFICES ASSUME Init PROVE TrainingInv
  OBVIOUS
<1>1. TypeInv
  BY TypeInit
<1>2. \A s \in Predictor : Places(s) = {0} /\ Slot(s, 0) = NoJob
  BY DEF Init, Places, Slot
<1>3. PredictsHeld /\ PredictsOnce
  BY <1>2 DEF PredictsHeld, PredictsOnce, PredictOf, NoJob, Init
<1>4. FilesHaveOwnLayers /\ StrayOnlyWhenDisturbed /\ ReadyIsTrained
  BY DEF Init, FilesHaveOwnLayers, StrayOnlyWhenDisturbed, ReadyIsTrained
<1>5. Pending = {} /\ \A w \in Waiter : wait[w] = "none" /\ inbox[w] = Absent
  BY DEF Init, Pending
<1>6. WaitsAlone /\ TrainsAlone /\ AnswersAgree
  BY <1>2, <1>5 DEF WaitsAlone, TrainsAlone, AnswersAgree, NoJob
<1> QED
  BY <1>1, <1>3, <1>4, <1>6 DEF TrainingInv, TypeInv, InOrder

LEMMA InvStep == TrainingInv /\ [Next]_vars => TrainingInv'
<1> SUFFICES ASSUME TrainingInv, [Next]_vars PROVE TrainingInv'
  OBVIOUS
<1>1. TypeInv /\ Held /\ FilesHaveOwnLayers /\ InOrder /\ History
  BY DEF TrainingInv, TypeInv, Held, History
<1>2. CASE Next
  <2>1. TypeInv'
    BY <1>1, <1>2, PredictorKeeps, WaiterKeeps, ServerKeeps DEF Next
  <2>2. Held' /\ FilesHaveOwnLayers' /\ InOrder' /\ History'
    BY <1>1, <1>2, HeldStep, FileStep, OrderStep
  <2> QED
    BY <2>1, <2>2 DEF TrainingInv, TypeInv, Held, History
<1>3. CASE UNCHANGED vars
  BY <1>3 DEF vars, callVars, waitVars, serverVars, history, TrainingInv, TypeOK,
     ServersAgree, WaitersAgree, PredictsHeld, PredictsOnce, Places, Slot, InOrder,
     WaitsAlone, TrainsAlone, AnswersAgree, Pending, FilesHaveOwnLayers,
     StrayOnlyWhenDisturbed, ReadyIsTrained
<1> QED
  BY <1>2, <1>3

LEMMA Invariance == Spec => []TrainingInv
  BY InvInit, InvStep, PTL DEF Spec

LEMMA InvImplies == TrainingInv => WaitingIsServed
  BY HeldServed DEF TrainingInv, Held

-----------------------------------------------------------------------------
(* The theorems *)

(***************************************************************************)
(* The types of the variables; with them, that a socket file never is that *)
(* of a server or waiter which is gone.                                    *)
(***************************************************************************)
THEOREM TypeCorrect == Spec => []TypeOK
  BY Invariance, PTL DEF TrainingInv

(***************************************************************************)
(* A call to Predict that waits is held by exactly one server, which runs: *)
(* main.py takes, answers or drops each request once, also when it dies.   *)
(***************************************************************************)
THEOREM CallsAreServed == Spec => []WaitingIsServed
  BY Invariance, InvImplies, PTL

(***************************************************************************)
(* main.py saves a network with the n_layers of the model it trained,      *)
(* whichever models use the server between the trainings.                  *)
(***************************************************************************)
THEOREM FilesAreOwn == Spec => []FilesHaveOwnLayers
  BY Invariance, PTL DEF TrainingInv

(***************************************************************************)
(* The end of a training reaches the model that asked for it, unless two   *)
(* trainings overlap, an answer comes early or is read short: one waiter   *)
(* in WaitAndUpdate always finds the path free and the answer its own.     *)
(***************************************************************************)
THEOREM AnswersStrayOnlyWhenDisturbed == Spec => []StrayOnlyWhenDisturbed
  BY Invariance, PTL DEF TrainingInv

(***************************************************************************)
(* Unless an answer went astray in that way, readyToPredict is set only    *)
(* for a model whose network is saved, with its own number of layers.      *)
(***************************************************************************)
THEOREM ReadyModelsAreTrained == Spec => []ReadyIsTrained
  BY Invariance, PTL DEF TrainingInv

=============================================================================
