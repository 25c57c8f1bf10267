------------------------------ MODULE MCWindow ------------------------------
(* Small instances of MetricWindow. *)
EXTENDS MetricWindow

CONSTANTS gru, hw

OneHW == {hw}
TwoRs == {hw, gru}

PredictHW == {<<hw, "predict">>}
AllCalls  == {<<hw, "predict">>, <<gru, "new">>, <<gru, "predict">>, <<gru, "train">>}
OneGRU    == {gru}
PredictGRU == {<<gru, "predict">>}

\* Holt-Winters checks look_backward, GRU look_forward.
MC_Check  == [r \in Reader |-> 2]
MC_Window == [r \in Reader |-> IF r = hw THEN 2 ELSE 3]
MC_Train  == [r \in Reader |-> 2]

=============================================================================
