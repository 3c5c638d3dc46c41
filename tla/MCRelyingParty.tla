--------------------------- MODULE MCRelyingParty ---------------------------
(* Small instances of RelyingParty. *)
EXTENDS RelyingParty, TLC

CONSTANTS k1, k2, u1, w1, w2, x1, x2, alice, p1, s1

MCFirstAccounts == p1 :> alice
MCSidSub == s1 :> p1

Symmetry == Permutations(Worker) \union Permutations(Key)
=============================================================================
