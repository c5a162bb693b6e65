---------------------------- MODULE MCApplications ----------------------------
(* Applications for TLC: one application and two browser runs of it. *)
EXTENDS Applications, TLC

CONSTANTS a1, r1, r2
=============================================================================
