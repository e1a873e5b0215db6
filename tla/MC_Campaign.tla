---------------------------- MODULE MC_Campaign ----------------------------
(* Small instances of Campaign. *)
EXTENDS Campaign

=============================================================================
