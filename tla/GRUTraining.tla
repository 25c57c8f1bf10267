----------------------------- MODULE GRUTraining -----------------------------
(***************************************************************************)
(* The GRU predictors (predictor/GRU/gru.go), the Python servers that each *)
(* New starts (algorithms/DL/main.py) and the sockets between them: all    *)
(* servers bind /tmp/uds_socket, all predictors wait for the end of a      *)
(* training at /tmp/rra.socket.  Samples, forecasts and losses are left    *)
(* out, and so are the checks made before a request (MetricWindow).        *)
(***************************************************************************)
EXTENDS Naturals, Sequences, FiniteSets

CONSTANTS
  Predictor,  \* the GRU predictors; each is built once and starts one server
  Layers,     \* Layers[p]: the n_layers of the model
  DefLayers,  \* param.n_layers of a new server
  Backlog,    \* connections that listen lets wait besides the first
  MaxTrain,   \* bound: MaxTrain[p] trainings that p asks for
  MayFail,    \* Python may fail to start or raise exceptions of its own
  ShortReads, \* a read may return less than the peer has sent
  Prompt,     \* no training ends before its waiter has called Listen
  Absent

\* The goroutines in WaitAndUpdate.
Waiter == UNION {{p} \X (1 .. MaxTrain[p]) : p \in Predictor}

ASSUME TrainingAssumption ==
  /\ Layers \in [Predictor -> Nat \ {0}] /\ DefLayers \in Nat \ {0}
  /\ Backlog \in Nat /\ MaxTrain \in [Predictor -> Nat]
  /\ {MayFail, ShortReads, Prompt} \subseteq BOOLEAN
  /\ Absent \notin Predictor /\ Absent \notin Waiter

VARIABLES
  call,    \* each predictor: "unbuilt", "failed", "idle" or "waiting"
  ready,   \* readyToPredict
  trains,  \* the number of trainings asked for
  wait,    \* where each waiter is
  inbox,   \* the predictor whose answer a waiter has been sent, or Absent
  rra,     \* the waiter bound to /tmp/rra.socket, or Absent
  uds,     \* the server bound to /tmp/uds_socket, or Absent
  phase,   \* where the server that a predictor started is
  layers,  \* its param.n_layers
  queue,   \* the connections it has not taken
  job,     \* the one it serves
  file,    \* the n_layers of the saved network <key>.pt, 0 if there is none
  reports, \* history: trained predictor and receiver of the answer, or Absent
  disturbed \* history: trainings overlapped, an answer was early or read short

callVars   == <<call, ready, trains>>
waitVars   == <<wait, inbox, rra>>
serverVars == <<uds, phase, layers, queue, job, file>>
history    == <<reports, disturbed>>

vars == <<callVars, waitVars, serverVars, history>>

NoJob == [kind |-> "none", from |-> Absent]

Init ==
  /\ call = [p \in Predictor |-> "unbuilt"]
  /\ ready = [p \in Predictor |-> FALSE]
  /\ trains = [p \in Predictor |-> 0]
  /\ wait = [w \in Waiter |-> "none"]
  /\ inbox = [w \in Waiter |-> Absent]
  /\ rra = Absent /\ uds = Absent
  /\ phase = [p \in Predictor |-> "none"]
  /\ layers = [p \in Predictor |-> DefLayers]
  /\ queue = [p \in Predictor |-> <<>>]
  /\ job = [p \in Predictor |-> NoJob]
  /\ file = [p \in Predictor |-> 0]
  /\ reports = {} /\ disturbed = FALSE

-----------------------------------------------------------------------------
(* The predictors *)

\* The server is started before the parameters of the model are parsed.
New(p) ==
  /\ call[p] = "unbuilt"
  /\ \E outcome \in {"idle", "failed"} : call' = [call EXCEPT ![p] = outcome]
  /\ phase' = [phase EXCEPT ![p] = "starting"]
  /\ UNCHANGED <<ready, trains, waitVars, uds, layers, queue, job, file, history>>

\* Dial succeeds: somebody listens, and its backlog is not full.
Connects == uds # Absent /\ Len(queue[uds]) <= Backlog

Request(kind, p) ==
  queue' = [queue EXCEPT ![uds] = Append(@, [kind |-> kind, from |-> p])]

Predict(p) ==
  /\ call[p] = "idle" /\ ready[p] /\ Connects
  /\ Request("predict", p)
  /\ call' = [call EXCEPT ![p] = "waiting"]
  /\ UNCHANGED <<ready, trains, waitVars, uds, phase, layers, job, file, history>>

Pending == {w \in Waiter : wait[w] \notin {"none", "done"}}

\* Train writes the request, starts the goroutine that waits, and closes.
Train(p) ==
  /\ call[p] \in {"idle", "waiting"} /\ trains[p] < MaxTrain[p] /\ Connects
  /\ Request("train", p)
  /\ trains' = [trains EXCEPT ![p] = @ + 1]
  /\ wait' = [wait EXCEPT ![<<p, trains'[p]>>] = "spawned"]
  /\ disturbed' = (disturbed \/ Pending # {})
  /\ UNCHANGED <<call, ready, inbox, rra, uds, phase, layers, job, file, reports>>

-----------------------------------------------------------------------------
(* WaitAndUpdate *)

Goes(w, point) == wait' = [wait EXCEPT ![w] = point]

WaiterStats(w) ==
  /\ wait[w] = "spawned"
  /\ Goes(w, IF rra = Absent THEN "cleared" ELSE "found")
  /\ UNCHANGED <<callVars, inbox, rra, serverVars, history>>

\* Remove fails when the file is gone by now.
WaiterRemoves(w) ==
  /\ wait[w] = "found"
  /\ Goes(w, IF rra = Absent THEN "done" ELSE "cleared")
  /\ rra' = Absent
  /\ UNCHANGED <<callVars, inbox, serverVars, history>>

\* Mutant of WaiterListens: the file is removed after Listen, not before.
WaiterListensAndRemoves(w) ==
  /\ wait[w] = "cleared"
  /\ Goes(w, IF rra = Absent THEN "listening" ELSE "done")
  /\ UNCHANGED <<callVars, inbox, rra, serverVars, history>>

\* Listen fails when another waiter has bound the path again.
WaiterListens(w) ==
  /\ wait[w] = "cleared"
  /\ \/ rra = Absent /\ Goes(w, "listening") /\ rra' = w
     \/ rra # Absent /\ Goes(w, "done") /\ UNCHANGED rra
  /\ UNCHANGED <<callVars, inbox, serverVars, history>>

\* The answer makes the waiter's own model ready, whichever model it names;
\* Close removes the file at the path, whoever has bound it.
WaiterUpdates(w) ==
  /\ wait[w] = "listening" /\ inbox[w] # Absent
  /\ \/ ready' = [ready EXCEPT ![w[1]] = TRUE] /\ UNCHANGED history
     \/ /\ ShortReads
        /\ reports' = reports \cup {<<inbox[w], Absent>>}
        /\ disturbed' = TRUE
        /\ UNCHANGED ready
  /\ Goes(w, "done")
  /\ inbox' = [inbox EXCEPT ![w] = Absent]
  /\ rra' = Absent
  /\ UNCHANGED <<call, trains, serverVars>>

-----------------------------------------------------------------------------
(* The Python server that p started *)

\* It removes the socket file of the server before and binds the path.
ServerStarts(s) ==
  /\ phase[s] = "starting"
  /\ \/ uds' = s /\ phase' = [phase EXCEPT ![s] = "idle"]
     \/ MayFail /\ phase' = [phase EXCEPT ![s] = "dead"] /\ UNCHANGED uds
  /\ UNCHANGED <<callVars, waitVars, layers, queue, job, file, history>>

\* Mutant of SetBody: the body as it was given.
SetBodyAsGiven == "open"

\* How a body ends; main.py receives up to a newline or the client's close.
SetBody == "newline"

Received(c) == c.kind = "train" \/ SetBody = "newline"

\* Mutant of LayersFor: param.n_layers is left as it is.
LayersKept(s, c) == layers[s]

\* Requests to predict leave out n_layers.
LayersFor(s, c) == IF c.kind = "train" THEN Layers[c.from] ELSE layers[s]

ServerTakes(s) ==
  /\ phase[s] = "idle" /\ queue[s] # <<>> /\ Received(Head(queue[s]))
  /\ job' = [job EXCEPT ![s] = Head(queue[s])]
  /\ queue' = [queue EXCEPT ![s] = Tail(@)]
  /\ layers' = [layers EXCEPT ![s] = LayersFor(s, Head(queue[s]))]
  /\ phase' = [phase EXCEPT ![s] = "busy"]
  /\ UNCHANGED <<callVars, waitVars, uds, file, history>>

\* The predictors whose connection the server holds.
Clients(s) ==
  {c.from : c \in {d \in {job[s]} \cup {queue[s][i] : i \in DOMAIN queue[s]} :
                     d.kind = "predict"}}

\* Mutant of Unbound: the dead server's socket file stays.
StillBound == uds

\* __del__ removes the file at the path, whoever has bound it.
Unbound == Absent

\* An exception that nothing catches; the clients read the end of the stream.
Dies(s) ==
  /\ phase' = [phase EXCEPT ![s] = "dead"]
  /\ uds' = Unbound
  /\ call' = [p \in Predictor |-> IF p \in Clients(s) THEN "idle" ELSE call[p]]
  /\ queue' = [queue EXCEPT ![s] = <<>>]
  /\ job' = [job EXCEPT ![s] = NoJob]

Serves(s, kind) == phase[s] = "busy" /\ job[s].kind = kind

\* The saved network of the key loads into one with the server's n_layers.
Loads(s) == file[job[s].from] = layers[s]

EndJob(s) ==
  /\ phase' = [phase EXCEPT ![s] = "idle"]
  /\ job' = [job EXCEPT ![s] = NoJob]

\* Mutant of ServerAnswers: neither an answer nor the end of the stream is sent.
ServerAnswersNothing(s) ==
  /\ Serves(s, "predict") /\ Loads(s)
  /\ EndJob(s)
  /\ UNCHANGED <<callVars, waitVars, uds, layers, queue, file, history>>

\* Predict returns a forecast, or an error if the answer does not parse.
ServerAnswers(s) ==
  /\ Serves(s, "predict") /\ Loads(s)
  /\ call' = [call EXCEPT ![job[s].from] = "idle"]
  /\ EndJob(s)
  /\ UNCHANGED <<ready, trains, waitVars, uds, layers, queue, file, history>>

\* The answer would hold the exception, which json.dumps does not take.
ServerRaises(s) ==
  /\ \/ Serves(s, "predict") /\ (MayFail \/ ~Loads(s))
     \/ Serves(s, "train") /\ MayFail
  /\ Dies(s)
  /\ UNCHANGED <<ready, trains, waitVars, layers, file, history>>

\* Mutant of ServerTrains: the network is not saved.
ServerTrainsOnly(s) ==
  /\ Serves(s, "train")
  /\ phase' = [phase EXCEPT ![s] = "trained"]
  /\ UNCHANGED <<callVars, waitVars, uds, layers, queue, job, file, history>>

ServerTrains(s) ==
  /\ Serves(s, "train")
  /\ file' = [file EXCEPT ![job[s].from] = layers[s]]
  /\ phase' = [phase EXCEPT ![s] = "trained"]
  /\ UNCHANGED <<callVars, waitVars, uds, layers, queue, job, history>>

\* A waiter of p that has not called Listen yet.
Early(p) == \E w \in Pending : w[1] = p /\ wait[w] # "listening"

\* A second answer waits for an Accept that does not come; without a
\* listener connect raises an exception.
ServerReports(s) ==
  LET p == job[s].from
      heard == rra # Absent /\ inbox[rra] = Absent
  IN /\ phase[s] = "trained" /\ (Prompt => ~Early(p))
     /\ disturbed' = (disturbed \/ Early(p))
     /\ reports' = reports \cup {<<p, IF heard THEN rra[1] ELSE Absent>>}
     /\ inbox' = IF heard THEN [inbox EXCEPT ![rra] = p] ELSE inbox
     /\ IF rra = Absent THEN Dies(s)
        ELSE EndJob(s) /\ UNCHANGED <<uds, call, queue>>
     /\ UNCHANGED <<ready, trains, wait, rra, layers, file>>

-----------------------------------------------------------------------------
ServerStep(s) ==
  \/ ServerStarts(s) \/ ServerTakes(s) \/ ServerAnswers(s) \/ ServerRaises(s)
  \/ ServerTrains(s) \/ ServerReports(s)

WaiterStep(w) ==
  WaiterStats(w) \/ WaiterRemoves(w) \/ WaiterListens(w) \/ WaiterUpdates(w)

Next ==
  \/ \E p \in Predictor : New(p) \/ Predict(p) \/ Train(p) \/ ServerStep(p)
  \/ \E w \in Waiter : WaiterStep(w)

\* Processes and goroutines run, trainings end; nobody has to ask for anything.
Fairness ==
  /\ \A s \in Predictor : WF_vars(ServerStep(s))
  /\ \A w \in Waiter : WF_vars(WaiterStep(w))

Spec == Init /\ [][Next]_vars /\ Fairness

-----------------------------------------------------------------------------
Connection == [kind : {"train", "predict"}, from : Predictor]

(***************************************************************************)
(* Every variable has its type, and a socket file that exists is that of a *)
(* process that listens at it.                                             *)
(***************************************************************************)
TypeOK ==
  /\ call \in [Predictor -> {"unbuilt", "failed", "idle", "waiting"}]
  /\ ready \in [Predictor -> BOOLEAN]
  /\ trains \in [Predictor -> Nat] /\ \A p \in Predictor : trains[p] <= MaxTrain[p]
  /\ wait \in [Waiter -> {"none", "spawned", "found", "cleared", "listening", "done"}]
  /\ inbox \in [Waiter -> Predictor \cup {Absent}]
  /\ rra \in {Absent} \cup {w \in Waiter : wait[w] = "listening"}
  /\ phase \in [Predictor ->
       {"none", "starting", "idle", "busy", "trained", "dead"}]
  /\ uds \in {Absent} \cup {s \in Predictor : phase[s] \in {"idle", "busy", "trained"}}
  /\ layers \in [Predictor -> Nat] /\ file \in [Predictor -> Nat]
  /\ queue \in [Predictor -> Seq(Connection)]
  /\ job \in [Predictor -> Connection \cup {NoJob}]
  /\ reports \subseteq Predictor \X (Predictor \cup {Absent})
  /\ disturbed \in BOOLEAN

(***************************************************************************)
(* Servers come, lose their path and die, but a call to Predict that waits *)
(* for an answer is held by exactly one server, which still runs.          *)
(***************************************************************************)
WaitingIsServed ==
  \A p \in Predictor : call[p] = "waiting" <=>
    \E s \in Predictor :
      /\ p \in Clients(s)
      /\ phase[s] \in {"idle", "busy", "trained"}
      /\ \A t \in Predictor \ {s} : p \notin Clients(t)

(***************************************************************************)
(* param.n_layers is global to a server and set by every training request, *)
(* yet no network is saved with the layers of another model.               *)
(***************************************************************************)
FilesHaveOwnLayers == \A p \in Predictor : file[p] \in {0, Layers[p]}

(***************************************************************************)
(* The end of a training reaches the model that asked for it, unless two   *)
(* trainings overlapped, it came before its waiter listened or the waiter  *)
(* took the first part of it for the whole.                                *)
(***************************************************************************)
StrayOnlyWhenDisturbed == \A r \in reports : r[2] = r[1] \/ disturbed

(***************************************************************************)
(* Unless an answer went astray for one of these reasons, a model that is  *)
(* ready has a saved network, of its own size.                             *)
(***************************************************************************)
ReadyIsTrained ==
  \A p \in Predictor : ready[p] => file[p] = Layers[p] \/ disturbed

\* Predict returns, although it reads without a deadline.
CallsReturn ==
  \A p \in Predictor : call[p] = "waiting" ~> call[p] = "idle"

(***************************************************************************)
(* "The goroutine updates the state after it has received the answer": it  *)
(* is the state of the model that was trained.  The code does not keep it. *)
(***************************************************************************)
AnswersReachTheirModel == \A r \in reports : r[2] = r[1]

=============================================================================
