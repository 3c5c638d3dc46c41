-------------------------- MODULE MCDaylightCutoff --------------------------
(* Small instances of DaylightCutoff. *)
EXTENDS DaylightCutoff
=============================================================================
