-------------------------- MODULE MCPortalSessions --------------------------
(* Small instances of PortalSessions. *)
EXTENDS PortalSessions, TLC

CONSTANTS k1, k2, w1, w2, alice, bob, p1, p2, s1, s2

\* alice has a portal account; whoever of alice and bob connects p2 first has it.
MCFirstAccounts == (p1 :> alice) @@ (p2 :> None)
MCSidSub == (s1 :> p1) @@ (s2 :> p2)

MCOneAccount == p1 :> alice
MCOneSidSub == s1 :> p1

Symmetry == Permutations(Key) \union Permutations(Worker)
=============================================================================
