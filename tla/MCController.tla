----------------------------- MODULE MCController -----------------------------
(* Small instances of AOMController. *)
EXTENDS AOMController

CONSTANTS k1, k2, c1, c2, GRU, HW, a1, a2

MC_Key  == {k1, k2}
MC_Conf == {c1, c2}
MC_Type == {GRU, HW}
MC_Attr == {a1, a2}

gru1 == [type |-> GRU, attr |-> a1]
gru2 == [type |-> GRU, attr |-> a2]
hw1  == [type |-> HW, attr |-> a1]
hw2  == [type |-> HW, attr |-> a2]

\* A Holt-Winters model whose attributes do not parse.
MC_Unbuildable == {hw2}

\* The spec with the given metrics and models of k1 and k2.
Aom(met1, mod1, met2, mod2, max, addrOk) ==
  [metrics |-> [k \in MC_Key |-> IF k = k1 THEN met1 ELSE met2],
   models  |-> [k \in MC_Key |-> IF k = k1 THEN mod1 ELSE mod2],
   max     |-> max, addrOk |-> addrOk]

One    == Aom(c1, <<gru1>>, Absent, Absent, 2, TRUE)
OneBig == Aom(c1, <<gru1>>, Absent, Absent, 3, TRUE)
Two    == Aom(c1, <<gru1, hw1>>, c1, <<gru1>>, 2, TRUE)
TwoAlt == Aom(c2, <<hw1, gru2>>, c1, <<hw1>>, 2, TRUE)
Bad    == Aom(c1, <<gru1, hw2>>, c1, <<gru1>>, 2, TRUE)
BadNew == Aom(c1, <<gru2>>, c1, <<gru1, hw2>>, 2, TRUE)
TwoNew == Aom(c1, <<gru2>>, c1, <<gru1>>, 2, TRUE)
Orphan == Aom(c1, <<gru1>>, Absent, <<gru1>>, 2, FALSE)

\* Metrics come and go; models are rejected; models without a metric.
SpecsMixed == {One, TwoAlt, Bad, Orphan}

\* Models and metrics change; no edit removes a metric.
SpecsGood == {Two, TwoAlt}

\* An edit removes a metric.
SpecsRemove == {One, Two}

\* An edit changes one model and breaks another, which the next edit mends.
SpecsStale == {Two, BadNew, TwoNew}

\* An edit changes MaxReplicas only.
SpecsBounds == {One, OneBig}

=============================================================================
