-------------------------- MODULE MCPortalIdentity --------------------------
(* Small instances of PortalIdentity. *)
EXTENDS PortalIdentity, TLC

CONSTANTS a, b, n1, n2, u1, u2, w1, w2

Symmetry == Permutations(Sub) \union Permutations(Name)
              \union Permutations(User) \union Permutations(Worker)
=============================================================================
