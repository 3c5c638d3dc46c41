--------------------------- MODULE MCSwitchWidget ---------------------------
(* Small instances of SwitchWidget. *)
EXTENDS SwitchWidget, TLC

CONSTANTS t1, t2, alice, bob, k1, k2, c1, c2, c3, v1, v2

Symmetry == Permutations(Tab) \union Permutations(Key)
              \union Permutations(Secret) \union Permutations(Claims)
=============================================================================
