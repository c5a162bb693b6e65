---------------------------- MODULE MCSideEffects ----------------------------
(***************************************************************************)
(* Three executions of one effect: two side by side and a third after them. *)
(***************************************************************************)
EXTENDS SideEffects, TLC

CONSTANTS e1, e2, e3
Perms == Permutations(Executions)
=============================================================================
