-------------------------- MODULE MCLogoutUpstream --------------------------
(* Small instances of LogoutUpstream. *)
EXTENDS LogoutUpstream, TLC

CONSTANTS k1, k2, u1, u2, w1, w2

Symmetry == Permutations(Kid) \union Permutations(Uri)
              \union Permutations(Worker)
=============================================================================
