------------------------- MODULE ApplicationMachine -------------------------
(***************************************************************************)
(* The status of an application and the moves it may make:                  *)
(* ApplicationStatus and APPLICATION_MACHINE of domain/state_machines.py.   *)
(***************************************************************************)

ApplicationStatus ==
  { "discovered", "shortlisted", "researching", "preparing",
    "awaiting_review", "approved", "submitting", "submitted",
    "submission_uncertain", "tracking", "completed", "paused",
    "needs_user_action", "failed", "cancelled", "rejected", "withdrawn" }

ActivePreSubmit == { "shortlisted", "researching", "preparing",
                     "awaiting_review", "approved" }

ApplicationMoves ==
  ({"discovered"} \X {"shortlisted", "cancelled"})
    \cup ({"shortlisted"} \X {"researching", "preparing", "paused",
                              "cancelled"})
    \cup ({"researching"} \X {"preparing", "paused", "needs_user_action",
                              "failed", "cancelled"})
    \cup ({"preparing"} \X {"awaiting_review", "researching", "paused",
                            "needs_user_action", "failed", "cancelled"})
    \cup ({"awaiting_review"} \X {"approved", "preparing", "paused",
                                  "cancelled"})
    \cup ({"approved"} \X {"submitting", "awaiting_review", "paused",
                           "cancelled"})
    \cup ({"submitting"} \X {"submitted", "submission_uncertain",
                             "needs_user_action", "failed"})
    \cup ({"submission_uncertain"} \X {"submitted", "approved", "failed"})
    \cup ({"submitted"} \X {"tracking", "withdrawn", "rejected", "completed"})
    \cup ({"tracking"} \X {"completed", "rejected", "withdrawn"})
    \cup ({"paused"} \X (ActivePreSubmit \cup {"cancelled"}))
    \cup ({"needs_user_action"} \X {"researching", "preparing",
                                    "awaiting_review", "approved",
                                    "submitted", "cancelled"})
    \cup ({"failed"} \X {"researching", "preparing", "approved", "cancelled"})

\* StateMachine.can, for applications
CanMove(from, to) == <<from, to>> \in ApplicationMoves
=============================================================================
