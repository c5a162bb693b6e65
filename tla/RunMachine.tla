----------------------------- MODULE RunMachine -----------------------------
(***************************************************************************)
(* The status of a workflow run and the moves it may make: RunStatus and    *)
(* RUN_MACHINE of domain/state_machines.py.  "absent" is a run that no      *)
(* user has started yet, so that has no row.                                *)
(***************************************************************************)

RunStatus == { "pending", "running", "waiting_approval", "pausing", "paused",
               "cancelling", "cancelled", "failed", "succeeded" }

RunMoves ==
  ({"pending"} \X {"running", "paused", "cancelled"})
    \cup ({"running"} \X {"waiting_approval", "pausing", "cancelling",
                          "failed", "succeeded", "pending"})
    \cup ({"waiting_approval"} \X {"running", "paused", "cancelling"})
    \cup ({"pausing"} \X {"paused", "cancelling", "failed", "succeeded",
                          "pending", "waiting_approval"})
    \cup ({"paused"} \X {"running", "pending", "cancelling", "cancelled"})
    \cup ({"cancelling"} \X {"cancelled"})
    \cup ({"failed"} \X {"pending", "cancelled"})
    \cup ({"succeeded"} \X {"pending"})

\* StateMachine.can
CanMove(from, to) == <<from, to>> \in RunMoves
=============================================================================
