----------------------------- MODULE MCTraining -----------------------------
(* Small instances of GRUTraining. *)
EXTENDS GRUTraining

CONSTANTS g1, g2

One == {g1}
Two == {g1, g2}

\* g1 has the layers of a new server, g2 one less.
MC_Layers == [p \in Predictor |-> IF p = g1 THEN 2 ELSE 1]

MC_MaxTrain == [p \in Predictor |-> IF p = g1 THEN 2 ELSE 1]

=============================================================================
