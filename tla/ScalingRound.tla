---------------------------- MODULE ScalingRound ----------------------------
(***************************************************************************)
(* What Scheduler.Run promises, without locks, channels, forecasts or      *)
(* arithmetic: rounds of one vote per predictor, and at most one write of  *)
(* a bounded replica count per round, made when the round's votes are in.  *)
(* Scheduler implements it.                                                *)
(***************************************************************************)
EXTENDS Integers

CONSTANTS
  Loop,        \* the schedulers of one object
  Voter,       \* the predictors
  Counts,      \* replica counts that others may set
  MaxReplica

VARIABLES
  alive,       \* the process has not panicked
  phase,       \* "closed", "voting" or "decided"
  pending,     \* the voters that may still vote
  voted,       \* the voters that have
  replicas     \* the count of the scale target

vars == <<alive, phase, pending, voted, replicas>>

Init ==
  /\ alive = TRUE
  /\ phase = [l \in Loop |-> "closed"]
  /\ pending = [l \in Loop |-> {}]
  /\ voted = [l \in Loop |-> {}]
  /\ replicas \in Counts

At(l, p) == alive /\ phase[l] = p

\* A round starts with no vote, whatever the last one left behind.
Open(l) ==
  /\ At(l, "closed")
  /\ phase' = [phase EXCEPT ![l] = "voting"]
  /\ \E invited \in SUBSET Voter : pending' = [pending EXCEPT ![l] = invited]
  /\ UNCHANGED <<alive, voted, replicas>>

Vote(l, w) ==
  /\ At(l, "voting") /\ w \in pending[l]
  /\ pending' = [pending EXCEPT ![l] = @ \ {w}]
  /\ voted' = [voted EXCEPT ![l] = @ \cup {w}]
  /\ UNCHANGED <<alive, phase, replicas>>

Abstain(l, w) ==
  /\ At(l, "voting") /\ w \in pending[l]
  /\ pending' = [pending EXCEPT ![l] = @ \ {w}]
  /\ UNCHANGED <<alive, phase, voted, replicas>>

AllIn(l) == At(l, "voting") /\ pending[l] = {}

\* Nobody voted, so nothing is decided and nothing is written.
CloseEmpty(l) ==
  /\ AllIn(l) /\ voted[l] = {}
  /\ phase' = [phase EXCEPT ![l] = "closed"]
  /\ UNCHANGED <<alive, pending, voted, replicas>>

Decide(l) ==
  /\ AllIn(l) /\ voted[l] # {}
  /\ phase' = [phase EXCEPT ![l] = "decided"]
  /\ UNCHANGED <<alive, pending, voted, replicas>>

\* The decision is carried out, or not: refused, or the API server fails.
Close(l) ==
  /\ At(l, "decided")
  /\ phase' = [phase EXCEPT ![l] = "closed"]
  /\ voted' = [voted EXCEPT ![l] = {}]
  /\ replicas' \in {replicas} \cup 0 .. MaxReplica
  /\ UNCHANGED <<alive, pending>>

\* The votes of a round cannot be reconciled, and the process ends.
Die(l) ==
  /\ AllIn(l) /\ voted[l] # {}
  /\ alive' = FALSE
  /\ UNCHANGED <<phase, pending, voted, replicas>>

OthersScale(n) ==
  /\ alive
  /\ replicas' = n
  /\ UNCHANGED <<alive, phase, pending, voted>>

Next ==
  \/ \E l \in Loop : \/ Open(l) \/ CloseEmpty(l) \/ Decide(l) \/ Close(l) \/ Die(l)
                     \/ \E w \in Voter : Vote(l, w) \/ Abstain(l, w)
  \/ \E n \in Counts : OthersScale(n)

Spec == Init /\ [][Next]_vars

=============================================================================
