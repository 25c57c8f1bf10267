------------------------- MODULE MetricWindowProofs -------------------------
(***************************************************************************)
(* Proofs for MetricWindow: for any number of predictors, windows and      *)
(* samples, the unlocked worker never holds samples with a hole between    *)
(* them, and Send never hands out any.                                     *)
(***************************************************************************)
EXTENDS MetricWindow, TLAPS

-----------------------------------------------------------------------------
(* Types *)

LEMMA TypeInit == Init => TypeOK
<1> SUFFICES ASSUME Init PROVE TypeOK
  OBVIOUS
<1>1. /\ data \in Seq(Nat) /\ seen \in Seq(Nat)
      /\ next \in Nat
      /\ stage \in [Calls -> {"idle", "checked", "made", "copied"}]
      /\ got \in [Calls -> Seq(Nat)]
      /\ used \in [Calls -> Nat]
      /\ history \in [Reader -> Nat]
      /\ \A c \in Calls : got[c] = <<>>
      /\ robbed \subseteq Calls
  BY DEF Init
<1>2. appending \in BOOLEAN /\ panicked \in BOOLEAN
  BY DEF Init
<1> QED
  BY <1>1, <1>2 DEF TypeOK

\* The newest sample of what a call sliced is a number.
LEMMA NeededType ==
  ASSUME NEW c \in Calls
  PROVE  c[1] \in Reader /\ Needed(c) \in Nat
  BY WindowAssumption DEF Needed

LEMMA TypeStep == TypeOK /\ [Next]_vars => TypeOK'
<1> SUFFICES ASSUME TypeOK, [Next]_vars PROVE TypeOK'
  OBVIOUS
<1>1. CASE CollectReads
  BY <1>1 DEF TypeOK, CollectReads
<1>2. CASE CollectAppends
  <2>1. data' \in Seq(Nat) /\ seen' \in Seq(Nat) /\ next' \in Nat
    BY <1>2 DEF TypeOK, CollectAppends
  <2>2. appending' \in BOOLEAN
    BY <1>2 DEF CollectAppends
  <2> QED
    BY <1>2, <2>1, <2>2 DEF TypeOK, CollectAppends
<1>3. ASSUME NEW c \in Calls, Checks(c) PROVE TypeOK'
  BY <1>3 DEF TypeOK, Checks, collectVars
<1>4. ASSUME NEW c \in Calls, SendMakes(c) PROVE TypeOK'
  <2>1. [i \in 1 .. Len(data) |-> 0] \in Seq(Nat)
    BY DEF TypeOK
  <2> QED
    BY <1>4, <2>1 DEF TypeOK, SendMakes, collectVars
<1>5. ASSUME NEW c \in Calls, SendCopies(c) PROVE TypeOK'
  <2>1. [i \in 1 .. Len(got[c]) |-> IF i <= Len(data) THEN data[i] ELSE 0]
          \in Seq(Nat)
    BY DEF TypeOK
  <2> QED
    BY <1>5, <2>1 DEF TypeOK, SendCopies, collectVars
<1>6. ASSUME NEW c \in Calls, SendEmpties(c) PROVE TypeOK'
  <2>1. history' \in [Reader -> Nat]
    BY <1>6, NeededType DEF TypeOK, SendEmpties
  <2>2. used' \in [Calls -> Nat]
    <3>1. CASE Needed(c) > 0 /\ ~panicked'
      <4>0. ~(Len(got[c]) < Needed(c))
        BY <1>6, <3>1, Zenon DEF SendEmpties
      <4>1. Len(got[c]) >= Needed(c) /\ Needed(c) \in Nat /\ got[c] \in Seq(Nat)
        BY <4>0, NeededType DEF TypeOK
      <4>2. got[c][Len(got[c])] \in Nat
        BY <3>1, <4>1
      <4>3. used' = [used EXCEPT ![c] = got[c][Len(got[c])]]
        BY <1>6, <3>1 DEF SendEmpties
      <4> QED
        BY <4>2, <4>3 DEF TypeOK
    <3>2. CASE ~(Needed(c) > 0 /\ ~panicked')
      BY <1>6, <3>2 DEF TypeOK, SendEmpties
    <3> QED
      BY <3>1, <3>2
  <2>3. panicked' \in BOOLEAN
    BY <1>6 DEF SendEmpties
  <2> QED
    BY <1>6, <2>1, <2>2, <2>3 DEF TypeOK, SendEmpties, Emptied, Returned, collectVars
<1>7. CASE UNCHANGED vars
  BY <1>7 DEF TypeOK, vars, collectVars
<1> QED
  BY <1>1, <1>2, <1>3, <1>4, <1>5, <1>6, <1>7 DEF Next

-----------------------------------------------------------------------------
(* The samples *)

\* Appending the next sample to the latest ones gives the latest ones.
LEMMA AppendNext ==
  ASSUME NEW s \in Seq(Nat), NEW n \in Nat, EndsBefore(s, n), Len(s) < n
  PROVE  EndsBefore(Append(s, n), n + 1) /\ Len(Append(s, n)) < n + 1
<1>1. Len(Append(s, n)) = Len(s) + 1 /\ Len(s) \in Nat
  OBVIOUS
<1>2. ASSUME NEW i \in DOMAIN Append(s, n)
      PROVE  Append(s, n)[i] = n - Len(s) + i - 1
  <2>1. i \in 1 .. Len(s) + 1
    OBVIOUS
  <2>2. CASE i = Len(s) + 1
    <3>1. Append(s, n)[i] = n
      BY <2>2
    <3> QED
      BY <1>1, <2>2, <3>1
  <2>3. CASE i # Len(s) + 1
    <3>1. i \in DOMAIN s /\ Append(s, n)[i] = s[i]
      BY <2>1, <2>3
    <3> QED
      BY <3>1 DEF EndsBefore
  <2> QED
    BY <2>2, <2>3
<1>3. EndsBefore(Append(s, n), n + 1)
  BY <1>1, <1>2 DEF EndsBefore
<1> QED
  BY <1>1, <1>3

\* What SendCopies(c) puts into got[c].
LEMMA CopyShape ==
  ASSUME NEW s \in Seq(Nat), NEW n \in Nat, EndsBefore(s, n), Len(s) < n,
         NEW t \in Seq(Nat),
         \A i \in 1 .. Len(t) : t[i] = IF i <= Len(s) THEN s[i] ELSE 0
  PROVE  \E m \in 0 .. Len(t), e \in 1 .. n :
           /\ EndsBefore(SubSeq(t, 1, m), e)
           /\ \A i \in m + 1 .. Len(t) : t[i] = 0
<1> DEFINE m == IF Len(t) <= Len(s) THEN Len(t) ELSE Len(s)
           e == n - Len(s) + m
<1>1. Len(t) \in Nat /\ Len(s) \in Nat
  OBVIOUS
<1>2. m \in 0 .. Len(t) /\ e \in 1 .. n /\ m <= Len(s)
  BY <1>1
<1>3. EndsBefore(SubSeq(t, 1, m), e)
  <2>1. Len(SubSeq(t, 1, m)) = m /\ DOMAIN SubSeq(t, 1, m) = 1 .. m
    BY <1>1, <1>2
  <2>2. ASSUME NEW i \in 1 .. m
        PROVE  SubSeq(t, 1, m)[i] = n - Len(s) + i - 1
    <3>1. SubSeq(t, 1, m)[i] = t[i]
      BY <1>1, <1>2
    <3>2. t[i] = s[i] /\ i \in DOMAIN s
      BY <1>1, <1>2
    <3> QED
      BY <3>1, <3>2 DEF EndsBefore
  <2>3. n - Len(s) = e - m
    BY <1>2
  <2> HIDE DEF m, e
  <2> QED
    BY <2>1, <2>2, <2>3 DEF EndsBefore
<1>4. \A i \in m + 1 .. Len(t) : t[i] = 0
  BY <1>1
<1> HIDE DEF m, e
<1> QED
  BY <1>2, <1>3, <1>4

LEMMA WindowStep == WindowInv /\ [Next]_vars => WindowInv'
<1> SUFFICES ASSUME WindowInv, [Next]_vars PROVE WindowInv'
  OBVIOUS
<1> USE DEF WindowInv
<1>0. TypeOK'
  BY TypeStep
<1>1. CASE CollectReads
  BY <1>0, <1>1 DEF CollectReads, DataIsConsecutive, CopyIsConsecutive
<1>2. CASE CollectAppends
  <2>1. EndsBefore(data', next') /\ Len(data') < next'
    BY <1>2, AppendNext DEF CollectAppends, TypeOK
  <2>2. EndsBefore(seen', next') /\ Len(seen') < next'
    BY <1>2 DEF CollectAppends, EndsBefore, TypeOK
  <2>3. CopyIsConsecutive'
    <3>1. 1 .. next \subseteq 1 .. next'
      BY <1>2 DEF CollectAppends, TypeOK
    <3> QED
      BY <1>2, <3>1 DEF CollectAppends, CopyIsConsecutive
  <2> QED
    BY <1>0, <2>1, <2>2, <2>3 DEF DataIsConsecutive
<1>3. ASSUME NEW c \in Calls, Checks(c) PROVE WindowInv'
  <2>1. CopyIsConsecutive'
    BY <1>3 DEF Checks, CopyIsConsecutive, collectVars, TypeOK
  <2> QED
    BY <1>0, <1>3, <2>1 DEF Checks, DataIsConsecutive, collectVars
<1>4. ASSUME NEW c \in Calls, SendMakes(c) PROVE WindowInv'
  <2>1. CopyIsConsecutive'
    BY <1>4 DEF SendMakes, CopyIsConsecutive, collectVars, TypeOK
  <2> QED
    BY <1>0, <1>4, <2>1 DEF SendMakes, DataIsConsecutive, collectVars
<1>5. ASSUME NEW c \in Calls, SendCopies(c) PROVE WindowInv'
  <2>1. CopyIsConsecutive'
    <3>1. next' = next
      BY <1>5 DEF SendCopies, collectVars
    <3> SUFFICES ASSUME NEW d \in Calls, stage'[d] = "copied"
                 PROVE  \E m \in 0 .. Len(got'[d]), n \in 1 .. next :
                          /\ EndsBefore(SubSeq(got'[d], 1, m), n)
                          /\ \A i \in m + 1 .. Len(got'[d]) : got'[d][i] = 0
      BY <3>1 DEF CopyIsConsecutive
    <3>2. CASE d = c
      <4>1. got'[d] = [i \in 1 .. Len(got[c]) |->
                         IF i <= Len(data) THEN data[i] ELSE 0]
        BY <1>5, <3>2 DEF SendCopies, TypeOK
      <4>2. Len(got[c]) \in Nat /\ data \in Seq(Nat) /\ next \in Nat
        BY DEF TypeOK
      <4>3. EndsBefore(data, next) /\ Len(data) < next
        BY DEF DataIsConsecutive
      <4> DEFINE t == got'[d]
      <4>4. t \in Seq(Nat)
        BY <1>0 DEF TypeOK
      <4>5. \A i \in 1 .. Len(t) : t[i] = IF i <= Len(data) THEN data[i] ELSE 0
        BY <4>1, <4>2
      <4> HIDE DEF t
      <4>6. \E m \in 0 .. Len(t), n \in 1 .. next :
              /\ EndsBefore(SubSeq(t, 1, m), n)
              /\ \A i \in m + 1 .. Len(t) : t[i] = 0
        BY <4>2, <4>3, <4>4, <4>5, CopyShape
      <4> QED
        BY <4>6 DEF t
    <3>3. CASE d # c
      <4>1. got'[d] = got[d] /\ stage[d] = "copied"
        BY <1>5, <3>3 DEF SendCopies, TypeOK
      <4> QED
        BY <4>1 DEF CopyIsConsecutive
    <3> QED
      BY <3>2, <3>3
  <2> QED
    BY <1>0, <1>5, <2>1 DEF SendCopies, DataIsConsecutive, collectVars
<1>6. ASSUME NEW c \in Calls, SendEmpties(c) PROVE WindowInv'
  <2>1. CopyIsConsecutive'
    BY <1>6 DEF SendEmpties, Returned, CopyIsConsecutive, collectVars, TypeOK
  <2>2. DataIsConsecutive' /\ Len(data') < next'
    BY <1>6 DEF SendEmpties, Emptied, DataIsConsecutive, EndsBefore, collectVars, TypeOK
  <2> QED
    BY <1>0, <1>6, <2>1, <2>2 DEF SendEmpties, Emptied, Returned, collectVars
<1>7. CASE UNCHANGED vars
  BY <1>0, <1>7 DEF vars, collectVars, DataIsConsecutive, CopyIsConsecutive
<1> QED
  BY <1>1, <1>2, <1>3, <1>4, <1>5, <1>6, <1>7 DEF Next

\* The window invariant holds of every interleaving of Collect and the Sends.
THEOREM WindowConsistent == Spec => []WindowInv
<1>1. Init => WindowInv
  BY TypeInit DEF Init, WindowInv, DataIsConsecutive, CopyIsConsecutive, EndsBefore
<1> QED
  BY <1>1, WindowStep, PTL DEF Spec

(***************************************************************************)
(* w.data is a run of consecutive samples up to the newest one, however    *)
(* Collect and the Sends of all predictors race.                           *)
(***************************************************************************)
THEOREM DataConsecutive == Spec => []DataIsConsecutive
<1>1. WindowInv => DataIsConsecutive
  BY DEF WindowInv
<1> QED
  BY <1>1, WindowConsistent, PTL

\* Send hands out consecutive samples, then nothing but zero values.
THEOREM CopyConsecutive == Spec => []CopyIsConsecutive
<1>1. WindowInv => CopyIsConsecutive
  BY DEF WindowInv
<1> QED
  BY <1>1, WindowConsistent, PTL

-----------------------------------------------------------------------------
(* The check and the window *)

LEMMA EnoughStep == TypeOK /\ EnoughInv /\ [Next]_vars => EnoughInv'
<1> SUFFICES ASSUME TypeOK, EnoughInv, [Next]_vars PROVE EnoughInv'
  OBVIOUS
<1> USE DEF EnoughInv
<1>1. CASE CollectReads
  BY <1>1 DEF CollectReads, TypeOK
<1>2. CASE CollectAppends
  <2>1. Len(data') = Len(seen) + 1 /\ Len(seen) \in Nat /\ Len(data) \in Nat
    BY <1>2 DEF CollectAppends, TypeOK
  <2>2. appending /\ Len(data) <= Len(seen)
    BY <1>2 DEF CollectAppends
  <2>3. ~appending'
    BY <1>2 DEF CollectAppends
  <2>4. ASSUME NEW d \in Calls \ robbed, d[2] = "predict", stage[d] = "checked"
        PROVE  Len(data') >= Check[d[1]]
    <3>1. Check[d[1]] \in Nat
      BY WindowAssumption
    <3> QED
      BY <2>1, <2>2, <2>4, <3>1
  <2> QED
    BY <1>2, <2>3, <2>4 DEF CollectAppends
<1>3. ASSUME NEW c \in Calls, Checks(c) PROVE EnoughInv'
  BY <1>3 DEF Checks, Enough, collectVars, TypeOK
<1>4. ASSUME NEW c \in Calls, SendMakes(c) PROVE EnoughInv'
  <2>1. Len(got'[c]) = Len(data)
    BY <1>4 DEF SendMakes, TypeOK
  <2> QED
    BY <1>4, <2>1 DEF SendMakes, collectVars, TypeOK
<1>5. ASSUME NEW c \in Calls, SendCopies(c) PROVE EnoughInv'
  <2>1. Len(got'[c]) = Len(got[c])
    BY <1>5 DEF SendCopies, TypeOK
  <2> QED
    BY <1>5, <2>1 DEF SendCopies, collectVars, TypeOK
<1>6. ASSUME NEW c \in Calls, SendEmpties(c) PROVE EnoughInv'
  <2>1. Len(data') = 0 /\ Len(seen) \in Nat
    BY <1>6 DEF SendEmpties, Emptied, TypeOK
  <2>2. ASSUME NEW d \in Calls \ robbed' PROVE stage'[d] = "idle"
    <3>1. CASE d = c
      BY <1>6, <3>1 DEF SendEmpties, TypeOK
    <3>2. CASE d # c
      BY <1>6, <2>2, <3>2 DEF SendEmpties, TypeOK
    <3> QED
      BY <3>1, <3>2
  <2> QED
    BY <1>6, <2>1, <2>2 DEF SendEmpties, collectVars
<1>7. CASE UNCHANGED vars
  BY <1>7 DEF vars, collectVars
<1> QED
  BY <1>1, <1>2, <1>3, <1>4, <1>5, <1>6, <1>7 DEF Next

(***************************************************************************)
(* A Predict that compared DataCap with at least its window slices inside  *)
(* what Send returned, unless the Send of another call came in between.    *)
(***************************************************************************)
THEOREM EnoughForTheWindow == Spec => []EnoughUnlessRobbed
<1>1. Init => TypeOK /\ EnoughInv
  BY TypeInit DEF Init, EnoughInv
<1>2. TypeOK /\ EnoughInv /\ [Next]_vars => (TypeOK /\ EnoughInv)'
  BY TypeStep, EnoughStep
<1>3. TypeOK /\ EnoughInv => EnoughUnlessRobbed
  <2> SUFFICES ASSUME TypeOK, EnoughInv, NEW c \in Calls \ robbed,
                      c[2] = "predict", Check[c[1]] >= Window[c[1]],
                      stage[c] \in {"made", "copied"}
               PROVE  Len(got[c]) >= Window[c[1]]
    BY DEF EnoughUnlessRobbed
  <2>1. Len(got[c]) >= Check[c[1]] /\ Len(got[c]) \in Nat
    BY DEF EnoughInv, TypeOK
  <2>2. Check[c[1]] \in Nat /\ Window[c[1]] \in Nat
    BY WindowAssumption
  <2> QED
    BY <2>1, <2>2
<1> QED
  BY <1>1, <1>2, <1>3, PTL DEF Spec

-----------------------------------------------------------------------------
(* Each call uses later samples than the one before *)

\* The slices and counters of the worker and of its callers have their types.
THEOREM TypeCorrect == Spec => []TypeOK
BY TypeInit, TypeStep, PTL DEF Spec

\* The samples of the worker are older than the next one.
LEMMA SamplesBeforeNext ==
  ASSUME WindowInv
  PROVE  /\ next \in Nat /\ next > 0 /\ Len(data) \in Nat
         /\ \A i \in 1 .. Len(data) : data[i] = next - Len(data) + i - 1 /\ data[i] < next
<1>1. next \in Nat /\ Len(data) \in Nat /\ Len(data) < next /\ DOMAIN data = 1 .. Len(data)
  BY DEF WindowInv, TypeOK
<1>2. \A i \in 1 .. Len(data) : data[i] = next - Len(data) + i - 1
  BY <1>1 DEF WindowInv, DataIsConsecutive, EndsBefore
<1> QED
  BY <1>1, <1>2

LEMMA AdvanceStep == WindowInv /\ AdvanceInv /\ [Next]_vars => AdvanceInv'
<1> SUFFICES ASSUME WindowInv, AdvanceInv, [Next]_vars PROVE AdvanceInv'
  OBVIOUS
<1>0. /\ TypeOK /\ next \in Nat /\ next > 0 /\ Len(data) \in Nat
      /\ \A i \in 1 .. Len(data) : data[i] = next - Len(data) + i - 1 /\ data[i] < next
  BY SamplesBeforeNext DEF WindowInv
<1>1. CASE CollectReads
  BY <1>1 DEF CollectReads, AdvanceInv
<1>2. CASE CollectAppends
  <2>1. /\ data' = Append(seen, next) /\ next' = next + 1 /\ ~appending'
        /\ UNCHANGED <<stage, got, used, robbed>>
    BY <1>2 DEF CollectAppends
  <2>2. /\ data' # <<>> /\ Len(data') = Len(seen) + 1 /\ Len(seen) \in Nat
        /\ data # <<>> => seen = data
    <3>1. seen \in Seq(Nat) /\ next \in Nat
      BY <1>0 DEF TypeOK
    <3>2. data' # <<>> /\ Len(data') = Len(seen) + 1 /\ Len(seen) \in Nat
      BY <2>1, <3>1
    <3>3. data # <<>> => seen = data
      BY <1>2 DEF CollectAppends, AdvanceInv
    <3> QED
      BY <3>2, <3>3
  <2>3. ASSUME NEW c \in Calls
        PROVE  /\ used'[c] < next' - 1 /\ used'[c] < next'
               /\ \A i \in DOMAIN got'[c] : got'[c][i] < next'
    <3>1. used[c] \in Nat /\ used[c] < next /\ \A i \in DOMAIN got[c] : got[c][i] < next
      BY <1>0 DEF AdvanceInv, TypeOK
    <3>2. \A i \in DOMAIN got[c] : got[c][i] \in Nat
      BY <1>0 DEF TypeOK
    <3> QED
      BY <1>0, <2>1, <3>1, <3>2
  <2>4. ASSUME NEW c \in Calls \ robbed, got[c] # <<>>, stage[c] = "made"
        PROVE  /\ Len(got[c]) <= Len(data')
               /\ used[c] < next' - Len(data') + Len(got[c]) - 1
    <3>1. /\ Len(got[c]) <= Len(data) /\ Len(got[c]) \in Nat \ {0} /\ used[c] \in Nat
          /\ used[c] < next - Len(data) + Len(got[c]) - 1
      BY <1>0, <2>4 DEF AdvanceInv, TypeOK
    <3>2. Len(seen) = Len(data)
      <4>1. data # <<>>
        BY <1>0, <3>1
      <4> QED
        BY <2>2, <4>1
    <3>3. Len(data') = Len(data) + 1 /\ next' = next + 1 /\ next \in Nat /\ Len(data) \in Nat
      <4>1. Len(data') = Len(data) + 1
        BY <2>2, <3>2
      <4> QED
        BY <1>0, <2>1, <4>1
    <3>4. Len(got[c]) <= Len(data')
      BY <3>1, <3>3
    <3>5. next' - Len(data') = next - Len(data)
      BY <3>3
    <3>6. used[c] < next' - Len(data') + Len(got[c]) - 1
      BY <3>1, <3>5
    <3> QED
      BY <3>4, <3>6
  <2>5. \A c \in Calls \ robbed : got[c] # <<>> /\ stage[c] = "copied"
                                    => used[c] < got[c][Len(got[c])]
    BY DEF AdvanceInv
  <2> QED
    BY <2>1, <2>3, <2>4, <2>5 DEF AdvanceInv
<1>3. ASSUME NEW c \in Calls, Checks(c) PROVE AdvanceInv'
  BY <1>0, <1>3 DEF Checks, AdvanceInv, collectVars, TypeOK
<1>4. ASSUME NEW c \in Calls, SendMakes(c) PROVE AdvanceInv'
  <2>1. /\ got' = [got EXCEPT ![c] = [i \in 1 .. Len(data) |-> 0]]
        /\ stage' = [stage EXCEPT ![c] = "made"]
        /\ UNCHANGED <<data, appending, seen, next, used, robbed>>
    BY <1>4 DEF SendMakes, collectVars
  <2>2. /\ got'[c] = [i \in 1 .. Len(data) |-> 0] /\ Len(got'[c]) = Len(data)
        /\ stage'[c] = "made"
    BY <1>0, <2>1 DEF TypeOK
  <2>3. \A d \in Calls \ {c} : got'[d] = got[d] /\ stage'[d] = stage[d]
    BY <1>0, <2>1 DEF TypeOK
  <2>4. got'[c] # <<>> => used[c] < next - Len(data) + Len(data) - 1
    <3>1. used[c] \in Nat /\ (got'[c] # <<>> => data # <<>>)
      BY <1>0, <2>2 DEF TypeOK
    <3>2. data # <<>> => used[c] < next - 1
      BY DEF AdvanceInv
    <3> QED
      BY <1>0, <3>1, <3>2
  <2>5. \A d \in Calls : \A i \in DOMAIN got'[d] : got'[d][i] < next
    <3> SUFFICES ASSUME NEW d \in Calls, NEW i \in DOMAIN got'[d] PROVE got'[d][i] < next
      OBVIOUS
    <3>1. CASE d = c
      BY <1>0, <2>2, <3>1
    <3>2. CASE d # c
      BY <2>3, <3>2 DEF AdvanceInv
    <3> QED
      BY <3>1, <3>2
  <2>6. \A d \in Calls \ robbed : got'[d] # <<>> =>
          /\ stage'[d] = "made" => /\ Len(got'[d]) <= Len(data)
                                   /\ used[d] < next - Len(data) + Len(got'[d]) - 1
          /\ stage'[d] = "copied" => used[d] < got'[d][Len(got'[d])]
    <3> SUFFICES ASSUME NEW d \in Calls \ robbed, got'[d] # <<>>
                 PROVE  /\ stage'[d] = "made" => /\ Len(got'[d]) <= Len(data)
                                                 /\ used[d] < next - Len(data) + Len(got'[d]) - 1
                        /\ stage'[d] = "copied" => used[d] < got'[d][Len(got'[d])]
      OBVIOUS
    <3>1. CASE d = c
      BY <1>0, <2>2, <2>4, <3>1
    <3>2. CASE d # c
      BY <2>3, <3>2 DEF AdvanceInv
    <3> QED
      BY <3>1, <3>2
  <2>7. \A d \in Calls : used[d] < next /\ (data # <<>> => used[d] < next - 1)
    BY DEF AdvanceInv
  <2>8. appending /\ data # <<>> => seen = data
    BY DEF AdvanceInv
  <2> QED
    BY <2>1, <2>5, <2>6, <2>7, <2>8 DEF AdvanceInv
<1>5. ASSUME NEW c \in Calls, SendCopies(c) PROVE AdvanceInv'
  <2>1. /\ got' = [got EXCEPT ![c] = [i \in 1 .. Len(got[c]) |->
                                        IF i <= Len(data) THEN data[i] ELSE 0]]
        /\ stage' = [stage EXCEPT ![c] = "copied"] /\ stage[c] = "made"
        /\ UNCHANGED <<data, appending, seen, next, used, robbed>>
    BY <1>5 DEF SendCopies, collectVars
  <2>2. /\ got'[c] = [i \in 1 .. Len(got[c]) |-> IF i <= Len(data) THEN data[i] ELSE 0]
        /\ Len(got'[c]) = Len(got[c]) /\ Len(got[c]) \in Nat /\ stage'[c] = "copied"
        /\ got'[c] # <<>> => got[c] # <<>> /\ Len(got[c]) > 0
    BY <1>0, <2>1 DEF TypeOK
  <2>3. \A d \in Calls \ {c} : got'[d] = got[d] /\ stage'[d] = stage[d]
    BY <1>0, <2>1 DEF TypeOK
  <2>4. ASSUME c \notin robbed, got'[c] # <<>> PROVE used[c] < got'[c][Len(got'[c])]
    <3>1. /\ Len(got[c]) <= Len(data) /\ Len(got[c]) > 0
          /\ used[c] < next - Len(data) + Len(got[c]) - 1
      BY <2>1, <2>2, <2>4 DEF AdvanceInv
    <3>2. got'[c][Len(got'[c])] = data[Len(got[c])]
      BY <1>0, <2>2, <3>1
    <3>3. Len(got[c]) \in 1 .. Len(data)
      BY <1>0, <2>2, <3>1
    <3>4. data[Len(got[c])] = next - Len(data) + Len(got[c]) - 1
      BY <1>0, <3>3
    <3> QED
      BY <3>1, <3>2, <3>4
  <2>5. \A d \in Calls : \A i \in DOMAIN got'[d] : got'[d][i] < next
    <3> SUFFICES ASSUME NEW d \in Calls, NEW i \in DOMAIN got'[d] PROVE got'[d][i] < next
      OBVIOUS
    <3>1. CASE d = c
      <4>1. i \in 1 .. Len(got[c]) /\ got'[d][i] = IF i <= Len(data) THEN data[i] ELSE 0
        BY <2>2, <3>1
      <4> QED
        BY <1>0, <2>2, <4>1
    <3>2. CASE d # c
      BY <2>3, <3>2 DEF AdvanceInv
    <3> QED
      BY <3>1, <3>2
  <2>6. \A d \in Calls \ robbed : got'[d] # <<>> =>
          /\ stage'[d] = "made" => /\ Len(got'[d]) <= Len(data)
                                   /\ used[d] < next - Len(data) + Len(got'[d]) - 1
          /\ stage'[d] = "copied" => used[d] < got'[d][Len(got'[d])]
    <3> SUFFICES ASSUME NEW d \in Calls \ robbed, got'[d] # <<>>
                 PROVE  /\ stage'[d] = "made" => /\ Len(got'[d]) <= Len(data)
                                                 /\ used[d] < next - Len(data) + Len(got'[d]) - 1
                        /\ stage'[d] = "copied" => used[d] < got'[d][Len(got'[d])]
      OBVIOUS
    <3>1. CASE d = c
      BY <2>2, <2>4, <3>1
    <3>2. CASE d # c
      BY <2>3, <3>2 DEF AdvanceInv
    <3> QED
      BY <3>1, <3>2
  <2>7. \A d \in Calls : used[d] < next /\ (data # <<>> => used[d] < next - 1)
    BY DEF AdvanceInv
  <2>8. appending /\ data # <<>> => seen = data
    BY DEF AdvanceInv
  <2> QED
    BY <2>1, <2>5, <2>6, <2>7, <2>8 DEF AdvanceInv
<1>6. ASSUME NEW c \in Calls, SendEmpties(c) PROVE AdvanceInv'
  <2>1. /\ data' = <<>> /\ got' = [got EXCEPT ![c] = <<>>]
        /\ stage' = [stage EXCEPT ![c] = "idle"] /\ next' = next
        /\ robbed' = (robbed \cup {d \in Calls : stage[d] # "idle"}) \ {c}
        /\ used' = IF Needed(c) > 0 /\ ~panicked'
                   THEN [used EXCEPT ![c] = got[c][Len(got[c])]] ELSE used
    BY <1>6 DEF SendEmpties, Emptied, Returned, collectVars
  <2>2. \A d \in Calls : \A i \in DOMAIN got'[d] : got'[d][i] < next
    BY <1>0, <2>1 DEF AdvanceInv, TypeOK
  <2>3. \A d \in Calls : used'[d] < next
    <3>1. CASE Needed(c) > 0 /\ ~panicked'
      <4>1. ~(Len(got[c]) < Needed(c))
        BY <1>6, <3>1, Zenon DEF SendEmpties
      <4>2. Len(got[c]) \in DOMAIN got[c]
        BY <1>0, <3>1, <4>1, NeededType DEF TypeOK
      <4>3. got[c][Len(got[c])] < next
        BY <4>2 DEF AdvanceInv
      <4>4. used' = [used EXCEPT ![c] = got[c][Len(got[c])]]
        BY <2>1, <3>1
      <4> QED
        BY <1>0, <4>3, <4>4 DEF AdvanceInv, TypeOK
    <3>2. CASE ~(Needed(c) > 0 /\ ~panicked')
      <4>1. used' = used
        BY <2>1, <3>2, Zenon
      <4> QED
        BY <4>1 DEF AdvanceInv
    <3> QED
      BY <3>1, <3>2
  <2>4. \A d \in Calls \ robbed' : stage'[d] = "idle"
    BY <1>0, <2>1 DEF TypeOK
  <2> QED
    BY <2>1, <2>2, <2>3, <2>4 DEF AdvanceInv
<1>7. CASE UNCHANGED vars
  BY <1>7 DEF vars, collectVars, AdvanceInv
<1> QED
  BY <1>1, <1>2, <1>3, <1>4, <1>5, <1>6, <1>7 DEF Next

(***************************************************************************)
(* A call that no Send of another call has robbed since its check ends its *)
(* window with a sample newer than the last one it used, whatever samples  *)
(* a Collect that was under way has put back.                              *)
(***************************************************************************)
THEOREM CallsUseNewSamples == Spec => UsesAdvance
<1>1. Init => AdvanceInv
  BY WindowAssumption DEF Init, AdvanceInv
<1>2. WindowInv /\ AdvanceInv /\ [Next]_vars =>
        [\A c \in Calls \ robbed :
           stage[c] = "copied" /\ stage'[c] = "idle" /\ Needed(c) > 0 /\ ~panicked'
             => used'[c] > used[c]]_vars
  <2> SUFFICES ASSUME WindowInv, AdvanceInv, Next, NEW c \in Calls \ robbed,
                      stage[c] = "copied", stage'[c] = "idle", Needed(c) > 0, ~panicked'
               PROVE  used'[c] > used[c]
    OBVIOUS
  <2>0. TypeOK
    BY DEF WindowInv
  <2>1. SendEmpties(c)
    <3>1. ASSUME NEW d \in Calls,
                 Checks(d) \/ SendMakes(d) \/ SendCopies(d) \/ (d # c /\ SendEmpties(d))
          PROVE  FALSE
      BY <2>0, <3>1 DEF Checks, SendMakes, SendCopies, SendEmpties, TypeOK
    <3>2. ~CollectReads /\ ~CollectAppends
      BY DEF CollectReads, CollectAppends
    <3> QED
      BY <3>1, <3>2 DEF Next
  <2>2. ~(Len(got[c]) < Needed(c))
    BY <2>1, Zenon DEF SendEmpties
  <2>3. got[c] # <<>> /\ Len(got[c]) \in DOMAIN got[c] /\ got[c][Len(got[c])] \in Nat
    BY <2>0, <2>2, NeededType DEF TypeOK
  <2>4. used' = [used EXCEPT ![c] = got[c][Len(got[c])]]
    BY <2>1 DEF SendEmpties
  <2>5. used'[c] = got[c][Len(got[c])] /\ used[c] \in Nat
    BY <2>0, <2>4 DEF TypeOK
  <2>6. used[c] < got[c][Len(got[c])]
    BY <2>3 DEF AdvanceInv
  <2> QED
    BY <2>3, <2>5, <2>6
<1> QED
  BY <1>1, <1>2, AdvanceStep, WindowConsistent, PTL DEF Spec, UsesAdvance

=============================================================================
