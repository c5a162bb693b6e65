---------------------------- MODULE MCRunRuntime ----------------------------
(***************************************************************************)
(* Small instances of RunRuntime: one run, two workers.                     *)
(***************************************************************************)
EXTENDS RunRuntime, TLC

CONSTANTS r1, w1, w2
Perms == Permutations({w1, w2})
=============================================================================
