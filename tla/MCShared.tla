------------------------------ MODULE MCShared ------------------------------
(* Small instances of SharedStore. *)
EXTENDS SharedStore, TLC

CONSTANTS a, b, k1, p, q, bad

MC_Name    == {a, b}
MC_Key     == {k1}
MC_Address == {p, q, bad}
MC_Invalid == {bad}

Aom(addr, keys) == [addr |-> addr, keys |-> keys]

\* Two servers, an invalid address, and a spec that has no metric yet.
MC_Specs == {Aom(p, {k1}), Aom(q, {}), Aom(q, {k1}), Aom(bad, {k1})}

\* The objects are interchangeable.
Symmetry == Permutations(MC_Name)

=============================================================================
