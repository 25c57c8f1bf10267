---------------------------- MODULE MetricWindow ----------------------------
(***************************************************************************)
(* The samples of one metric: the Prometheus worker that appends them      *)
(* (prometheus_collector.go) and the predictors that take them             *)
(* (gru.go, holt_winter.go).  Collect, DataCap and Send share w.data       *)
(* without a lock, and every Send empties it, so what one caller checked   *)
(* or measured another may have taken.  A slice header is read or written  *)
(* in one step here; each read and each write of w.data is a step.         *)
(***************************************************************************)
EXTENDS Integers, Sequences

CONSTANTS
  Reader,     \* the predictors built on the worker
  Calls,      \* the calls they make: pairs of a reader and an operation
  Check,      \* Check[r]: what Predict compares DataCap with
  Window,     \* Window[r]: the samples Predict slices off the end
  TrainSize,  \* TrainSize[r]
  MaxSample   \* bound: number of samples collected

Ops == {"new", "predict", "train"}

ASSUME WindowAssumption ==
  /\ Calls \subseteq Reader \X Ops
  /\ Check \in [Reader -> Nat] /\ Window \in [Reader -> Nat]
  /\ TrainSize \in [Reader -> Nat]
  /\ MaxSample \in Nat

VARIABLES
  data,      \* w.data: the numbers of the samples (from 1), oldest first
  next,      \* the number of the next sample
  appending, \* Collect has evaluated append's argument
  seen,      \* what it read
  stage,     \* of each call: "idle", "checked", "made" or "copied"
  got,       \* Send's res for the call; 0 is a zero-valued sample
  used,      \* history: the newest sample the call has used so far
  history,   \* len(MetricHistory) of each reader
  robbed,    \* history: the calls since whose check another Send has emptied
  panicked   \* a slice expression was out of range

collectVars == <<appending, seen, next>>

vars == <<data, collectVars, stage, got, used, history, robbed, panicked>>

Init ==
  /\ data = <<>> /\ next = 1
  /\ appending = FALSE /\ seen = <<>>
  /\ stage = [c \in Calls |-> "idle"]
  /\ got = [c \in Calls |-> <<>>]
  /\ used = [c \in Calls |-> 0]
  /\ history = [r \in Reader |-> 0]
  /\ robbed = {}
  /\ panicked = FALSE

-----------------------------------------------------------------------------
(* Collect: the query returned a sample *)

CollectReads ==
  /\ ~panicked /\ ~appending /\ next <= MaxSample
  /\ appending' = TRUE
  /\ seen' = data
  /\ UNCHANGED <<data, next, stage, got, used, history, robbed, panicked>>

CollectAppends ==
  /\ ~panicked /\ appending
  /\ data' = Append(seen, next)
  /\ next' = next + 1
  /\ appending' = FALSE
  /\ seen' = <<>>
  /\ UNCHANGED <<stage, got, used, history, robbed, panicked>>

-----------------------------------------------------------------------------
(* New, Predict and Train of a predictor *)

\* Mutant of Enough: off by one.
EnoughButOne(c) ==
  /\ c[2] = "predict" => Len(data) + 1 >= Check[c[1]]
  /\ c[2] = "train" => history[c[1]] >= TrainSize[c[1]]

\* The check made before Send: New makes none, Train looks at what New stored.
Enough(c) ==
  /\ c[2] = "predict" => Len(data) >= Check[c[1]]
  /\ c[2] = "train" => history[c[1]] >= TrainSize[c[1]]

\* The length of the slice taken after Send; New keeps all of it.
Needed(c) ==
  IF c[2] = "predict" THEN Window[c[1]]
  ELSE IF c[2] = "train" THEN TrainSize[c[1]] ELSE 0

\* A call that finds too little data returns and changes nothing.
Checks(c) ==
  /\ ~panicked /\ stage[c] = "idle"
  /\ Enough(c)
  /\ stage' = [stage EXCEPT ![c] = "checked"]
  /\ UNCHANGED <<data, collectVars, got, used, history, robbed, panicked>>

\* Send allocates as many zero-valued samples as it sees in w.data.
SendMakes(c) ==
  /\ ~panicked /\ stage[c] = "checked"
  /\ got' = [got EXCEPT ![c] = [i \in 1 .. Len(data) |-> 0]]
  /\ stage' = [stage EXCEPT ![c] = "made"]
  /\ UNCHANGED <<data, collectVars, used, history, robbed, panicked>>

\* Mutant of SendCopies: newest sample first.
SendCopiesReversed(c) ==
  /\ ~panicked /\ stage[c] = "made"
  /\ got' = [got EXCEPT ![c] = [i \in 1 .. Len(@) |->
                IF i <= Len(data) THEN data[Len(data) + 1 - i] ELSE 0]]
  /\ stage' = [stage EXCEPT ![c] = "copied"]
  /\ UNCHANGED <<data, collectVars, used, history, robbed, panicked>>

\* copy stops at the end of the shorter slice.
SendCopies(c) ==
  /\ ~panicked /\ stage[c] = "made"
  /\ got' = [got EXCEPT ![c] = [i \in 1 .. Len(@) |->
                                 IF i <= Len(data) THEN data[i] ELSE 0]]
  /\ stage' = [stage EXCEPT ![c] = "copied"]
  /\ UNCHANGED <<data, collectVars, used, history, robbed, panicked>>

\* Mutant of Emptied: w.data[:len(w.data)-len(res)], the wrong end.
Truncated(c) == SubSeq(data, 1, Len(data) - Len(got[c]))

\* Mutant of Emptied: w.data is left as it is.
NotEmptied(c) == data

\* What Send leaves in the worker.
Emptied(c) == <<>>

\* Mutant of Returned: res is kept for the next call.
Kept(c) == got

\* The copy goes out of scope with the call.
Returned(c) == [got EXCEPT ![c] = <<>>]

\* w.data becomes a new slice, and the caller slices the copy.
SendEmpties(c) ==
  /\ ~panicked /\ stage[c] = "copied"
  /\ data' = Emptied(c)
  /\ stage' = [stage EXCEPT ![c] = "idle"]
  /\ got' = Returned(c)
  /\ panicked' = (Len(got[c]) < Needed(c))
  /\ history' = IF c[2] = "new" THEN [history EXCEPT ![c[1]] = Len(got[c])]
                ELSE history
  /\ used' = IF Needed(c) > 0 /\ ~panicked'
             THEN [used EXCEPT ![c] = got[c][Len(got[c])]] ELSE used
  /\ robbed' = (robbed \cup {d \in Calls : stage[d] # "idle"}) \ {c}
  /\ UNCHANGED collectVars

Next ==
  \/ CollectReads \/ CollectAppends
  \/ \E c \in Calls : Checks(c) \/ SendMakes(c) \/ SendCopies(c) \/ SendEmpties(c)

Spec == Init /\ [][Next]_vars

-----------------------------------------------------------------------------
\* Every variable has its type, and an idle call holds no copy.
TypeOK ==
  /\ data \in Seq(Nat) /\ seen \in Seq(Nat)
  /\ next \in Nat /\ appending \in BOOLEAN /\ panicked \in BOOLEAN
  /\ stage \in [Calls -> {"idle", "checked", "made", "copied"}]
  /\ got \in [Calls -> Seq(Nat)]
  /\ \A c \in Calls : stage[c] \in {"idle", "checked"} => got[c] = <<>>
  /\ used \in [Calls -> Nat]
  /\ history \in [Reader -> Nat]
  /\ robbed \subseteq Calls

\* s is a run of consecutive samples, the last one before n.
EndsBefore(s, n) == \A i \in DOMAIN s : s[i] = n - Len(s) + i - 1

(***************************************************************************)
(* Whatever Collect and the Sends lose or bring back when they race, the   *)
(* worker holds consecutive samples up to the newest one: no window has a  *)
(* hole in it, which the smoothing and the network could not see.          *)
(***************************************************************************)
DataIsConsecutive == EndsBefore(data, next)

(***************************************************************************)
(* A call copies consecutive samples from the oldest one on; when another  *)
(* Send empties w.data between its make and its copy, the rest are zeros.  *)
(***************************************************************************)
CopyIsConsecutive ==
  \A c \in Calls : stage[c] = "copied" =>
    \E m \in 0 .. Len(got[c]), n \in 1 .. next :
      /\ EndsBefore(SubSeq(got[c], 1, m), n)
      /\ \A i \in m + 1 .. Len(got[c]) : got[c][i] = 0

(***************************************************************************)
(* Each call starts from a later, collected sample than the one before,    *)
(* even when a racing Collect brings back samples that were already sent,  *)
(* unless the Send of another call came between its check and its own.     *)
(***************************************************************************)
UsesAdvance ==
  [][\A c \in Calls \ robbed :
       stage[c] = "copied" /\ stage'[c] = "idle" /\ Needed(c) > 0 /\ ~panicked'
         => used'[c] > used[c]]_vars

\* What makes DataIsConsecutive and CopyIsConsecutive inductive.
WindowInv ==
  /\ TypeOK /\ DataIsConsecutive /\ CopyIsConsecutive
  /\ Len(data) < next
  /\ EndsBefore(seen, next) /\ Len(seen) < next

(***************************************************************************)
(* A Predict that checked for no less than its window gets it from Send,   *)
(* unless another Send emptied the worker in between: the check of Holt-   *)
(* Winters suffices as long as its metric has no other model.              *)
(***************************************************************************)
EnoughUnlessRobbed ==
  \A c \in Calls \ robbed :
    /\ c[2] = "predict" /\ Check[c[1]] >= Window[c[1]]
    /\ stage[c] \in {"made", "copied"}
    => Len(got[c]) >= Window[c[1]]

\* What makes EnoughUnlessRobbed inductive.
EnoughInv ==
  /\ appending => Len(data) <= Len(seen)
  /\ \A c \in Calls \ robbed : c[2] = "predict" =>
       /\ stage[c] = "checked" => Len(data) >= Check[c[1]]
       /\ stage[c] \in {"made", "copied"} => Len(got[c]) >= Check[c[1]]

(***************************************************************************)
(* What makes UsesAdvance inductive: a Collect that still appends to what  *)
(* it read appends to w.data or to samples of an emptied worker, so the    *)
(* newest sample of a worker with samples is one no call has used.         *)
(***************************************************************************)
AdvanceInv ==
  /\ appending /\ data # <<>> => seen = data
  /\ \A c \in Calls :
       /\ used[c] < next
       /\ data # <<>> => used[c] < next - 1
       /\ \A i \in DOMAIN got[c] : got[c][i] < next
  /\ \A c \in Calls \ robbed : got[c] # <<>> =>
       /\ stage[c] = "made" => /\ Len(got[c]) <= Len(data)
                               /\ used[c] < next - Len(data) + Len(got[c]) - 1
       /\ stage[c] = "copied" => used[c] < got[c][Len(got[c])]

\* No call slices more than Send gave it.
EnoughForWindow == ~panicked

=============================================================================
