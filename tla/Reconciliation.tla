--------------------------- MODULE Reconciliation ---------------------------
(***************************************************************************)
(* What the reconciler promises, without passes, caches, workers or the    *)
(* order of its handlers: the entries of its maps only move towards a spec *)
(* that it has taken up, and the status reports a spec when all of it, and *)
(* nothing else, is installed.  AOMController implements it.               *)
(***************************************************************************)
CONSTANT Wants  \* the sets of entries that a spec can ask for

VARIABLES
  wanted,     \* the entries of the object's spec
  status,     \* "none": no object; "pending"; "reported": the status names the spec
  busy,       \* a spec has been taken up
  goal,       \* its entries
  installed   \* the entries that are in memory

vars == <<wanted, status, busy, goal, installed>>

Init ==
  /\ wanted = {} /\ status = "none"
  /\ busy = FALSE /\ goal = {}
  /\ installed = {}

\* The user creates the object or edits its spec.
Write(w) ==
  /\ wanted' = w /\ status' = "pending"
  /\ UNCHANGED <<busy, goal, installed>>

Delete ==
  /\ status # "none"
  /\ wanted' = {} /\ status' = "none"
  /\ UNCHANGED <<busy, goal, installed>>

(***************************************************************************)
(* A spec is taken up, perhaps an old one.  Of an object that is reported  *)
(* only the reported spec is taken up again, and only if it is installed.  *)
(***************************************************************************)
Begin(g) ==
  /\ ~busy
  /\ status = "reported" => g = wanted /\ installed = wanted
  /\ busy' = TRUE /\ goal' = g
  /\ UNCHANGED <<wanted, status, installed>>

\* Nothing is added that the goal lacks, and nothing removed that it has.
Toward ==
  /\ installed' \subseteq installed \cup goal
  /\ installed \cap goal \subseteq installed'

Rest == busy' = FALSE /\ goal' = {}

Install ==
  /\ busy /\ Toward
  /\ UNCHANGED <<wanted, status, busy, goal>>

\* An error: what was done until then stays.
Abandon ==
  /\ busy /\ Toward
  /\ Rest
  /\ UNCHANGED <<wanted, status>>

Report ==
  /\ busy /\ status # "none"
  /\ goal = wanted /\ installed = wanted
  /\ status' = "reported"
  /\ Rest
  /\ UNCHANGED <<wanted, installed>>

\* The process ends; the status stays.
Forget ==
  /\ installed' = {}
  /\ Rest
  /\ UNCHANGED <<wanted, status>>

Next ==
  \/ \E w \in Wants : Write(w) \/ Begin(w)
  \/ Delete \/ Install \/ Abandon \/ Report \/ Forget

Spec == Init /\ [][Next]_vars

-----------------------------------------------------------------------------
\* What is reported is installed, or was forgotten as a whole.
Kept == status = "reported" => installed \in {wanted, {}}

=============================================================================
