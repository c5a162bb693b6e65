---------------------------- MODULE RunLifecycle ----------------------------
(***************************************************************************)
(* What the runtime promises about the status of every run, whoever moves  *)
(* it (a request of the user, a worker's job, a reaper): it only ever makes *)
(* the moves RUN_MACHINE declares.  One request makes two of them in one    *)
(* transaction: cancelling a run that waits for an approval goes through    *)
(* "cancelling" to "cancelled", and no one sees the state between.          *)
(***************************************************************************)
EXTENDS RunMachine

CONSTANT Runs

VARIABLE status

Init == status = [r \in Runs |-> "absent"]

Create(r) ==
  /\ status[r] = "absent"
  /\ status' = [status EXCEPT ![r] = "pending"]

Move(r) ==
  \E to \in RunStatus :
    /\ CanMove(status[r], to)
    /\ status' = [status EXCEPT ![r] = to]

CancelWaiting(r) ==
  /\ status[r] = "waiting_approval"
  /\ status' = [status EXCEPT ![r] = "cancelled"]

Next == \E r \in Runs : Create(r) \/ Move(r) \/ CancelWaiting(r)

Spec == Init /\ [][Next]_status
=============================================================================
