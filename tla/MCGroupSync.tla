---------------------------- MODULE MCGroupSync ----------------------------
(* Small instances of GroupSync. *)
EXTENDS GroupSync, TLC

CONSTANTS admins, local, w1, w2

\* admins carries the prefix and makes a user staff; superusers are not synced.
MCFlagGroups == [f \in Flag |-> IF f = "is_staff" THEN {admins} ELSE {}]

Symmetry == Permutations(Worker)
=============================================================================
