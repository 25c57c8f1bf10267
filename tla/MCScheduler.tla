----------------------------- MODULE MCScheduler -----------------------------
(* Small instances of Scheduler. *)
EXTENDS Scheduler

CONSTANTS k1, k2, GRU, HW, l1, l2

MC_Key  == {k1, k2}
MC_Type == {GRU, HW}

\* A config: metrics of k1 and k2, the models present, the ones to train.
Conf(met1, met2, models, trained) ==
  [metrics |-> [k \in MC_Key |-> IF k = k1 THEN met1 ELSE met2],
   models  |-> [w \in MC_Key \X MC_Type |->
                 IF w \in models THEN [needTrain |-> w \in trained] ELSE Absent]]

M(target, weight) == [target |-> target, weight |-> weight]

\* Both models forecast two points.
MC_Forecasts == [t \in MC_Type |-> IF t = GRU THEN {<<10, 20>>, <<0, 30>>}
                                             ELSE {<<35, -5>>}]

\* Holt-Winters returns its whole window and then the two points.
MC_ForecastsHW == [t \in MC_Type |-> IF t = GRU THEN {<<10, 20>>}
                                               ELSE {<<25, 5, 10, 20>>}]

Both     == Conf(M(5, 50), M(10, 50), {<<k1, GRU>>, <<k1, HW>>, <<k2, GRU>>},
                 {<<k1, GRU>>})
BothLess == Conf(M(5, 70), M(Absent, 30), {<<k1, HW>>, <<k2, GRU>>}, {})
TwoKeys  == Conf(M(5, 50), M(10, 50), {<<k1, HW>>, <<k2, GRU>>}, {})
OnlyHW   == Conf(M(5, 100), Absent, {<<k1, HW>>}, {})
Mixed    == Conf(M(5, 100), Absent, {<<k1, GRU>>, <<k1, HW>>}, {<<k1, GRU>>})
OnlyOne  == Conf(M(5, 100), Absent, {<<k1, GRU>>}, {<<k1, GRU>>})

ConfigsEdit   == {Both, BothLess}
ConfigsMixed  == {TwoKeys, Mixed}
ConfigsOne    == {OnlyOne}
ConfigsHW     == {OnlyHW}

MC_Counts == {1, 3}
CountsOne == {1}
CountsBig == {3}

OneLoop  == {l1}
TwoLoops == {l1, l2}

=============================================================================
