---------------------------- MODULE SideEffects ----------------------------
(***************************************************************************)
(* The ledger of side effects (RunContext.side_effect and the table         *)
(* tool_executions): one idempotency key, and the executions of the step    *)
(* that performs the effect.  They come one after the other when a task is  *)
(* retried, and side by side when a worker lost its lease without noticing. *)
(*                                                                          *)
(* An execution reads the key's row without a lock, and decides on what it  *)
(* read; the unique key and the row's identity are all that orders two of   *)
(* them.  The row is deleted and inserted again when a recorded failure is  *)
(* retried: "id" tells the old row from the new one.                        *)
(***************************************************************************)
EXTENDS Naturals

CONSTANTS Executions, MaxCalls     \* MaxCalls bounds how often the call is made

ASSUME LedgerAssumption == MaxCalls \in Nat

Status == {"absent", "started", "succeeded", "failed", "uncertain"}
Row    == [id : Nat, status : Status]

VARIABLES
  row,      \* the committed row of the key
  pc,       \* where each execution is
  seen,     \* the row as each execution read it
  calls,    \* how often call() was made
  effects,  \* how often the effect happened
  late      \* how often call() raised although its effect had happened

vars == <<row, pc, seen, calls, effects, late>>

TypeOK ==
  /\ row \in Row
  /\ pc \in [Executions -> {"idle", "decide", "call", "acted"}]
  /\ seen \in [Executions -> Row]
  /\ calls \in Nat /\ effects \in Nat /\ late \in Nat

Init ==
  /\ row = [id |-> 0, status |-> "absent"]
  /\ pc = [e \in Executions |-> "idle"]
  /\ seen = [e \in Executions |-> row]
  /\ calls = 0 /\ effects = 0 /\ late = 0

Goto(e, from, to) ==
  /\ pc[e] = from
  /\ pc' = [pc EXCEPT ![e] = to]

\* The SELECT at the start of the first transaction.
Look(e) ==
  /\ Goto(e, "idle", "decide")
  /\ seen' = [seen EXCEPT ![e] = row]
  /\ UNCHANGED <<row, calls, effects, late>>

\* It succeeded before: the recorded response is returned.
Reuse(e) ==
  /\ Goto(e, "decide", "idle")
  /\ seen[e].status = "succeeded"
  /\ UNCHANGED <<row, seen, calls, effects, late>>

\* Started before and never finished: the row becomes uncertain, and the step
\* raises.  The UPDATE names the row that was read, whatever became of it; if
\* that row is gone, the step raises all the same.
Doubt(e) ==
  /\ Goto(e, "decide", "idle")
  /\ seen[e].status \in {"started", "uncertain"}
  /\ row' = IF row.id = seen[e].id THEN [row EXCEPT !.status = "uncertain"] ELSE row
  /\ UNCHANGED <<seen, calls, effects, late>>

\* Mutant of MayOpen: an execution left "started" is simply done again.
MayOpenStarted(status) == status \in {"absent", "failed", "started"}

MayOpen(status) == status \in {"absent", "failed"}

\* Mutant of Inserted: the key is not unique, so a second row is no error.
InsertedAnyway(e) == TRUE

\* The row that was read is deleted, and the INSERT meets no other.
Inserted(e) == row.id = seen[e].id

\* Not done, or failed: a fresh "started" row is committed before the call.
Open(e) ==
  /\ MayOpen(seen[e].status)
  /\ calls < MaxCalls
  /\ IF Inserted(e)
       THEN /\ Goto(e, "decide", "call")
            /\ row' = [id |-> row.id + 1, status |-> "started"]
            /\ seen' = [seen EXCEPT ![e] = row']
            /\ calls' = calls + 1
       ELSE \* IntegrityError: nothing is committed and nothing called.
            /\ Goto(e, "decide", "idle")
            /\ UNCHANGED <<row, seen, calls>>
  /\ UNCHANGED <<effects, late>>

\* The effect on the world, somewhere inside call().
Perform(e) ==
  /\ Goto(e, "call", "acted")
  /\ effects' = effects + 1
  /\ UNCHANGED <<row, seen, calls, late>>

\* Mutant of Recorded: a "finally" that writes "failed" over every outcome.
RecordedFailed(status) == [row EXCEPT !.status = "failed"]

\* Mutant of Recorded: a status the table's check constraint does not know.
RecordedError(status) ==
  [row EXCEPT !.status = IF status = "failed" THEN "error" ELSE status]

\* The outcome is written to the row the key has by then.
Recorded(status) == [row EXCEPT !.status = status]

Succeed(e) ==
  /\ Goto(e, "acted", "idle")
  /\ row' = Recorded("succeeded")
  /\ UNCHANGED <<seen, calls, effects, late>>

\* call() raises: before its effect, or after it.
Raise(e) ==
  /\ \/ Goto(e, "call", "idle") /\ UNCHANGED late
     \/ Goto(e, "acted", "idle") /\ late' = late + 1
  /\ row' = Recorded("failed")
  /\ UNCHANGED <<seen, calls, effects>>

\* The process dies, or the job is cancelled: CancelledError is no Exception,
\* so nothing is recorded.
Abandon(e) ==
  /\ pc[e] # "idle"
  /\ pc' = [pc EXCEPT ![e] = "idle"]
  /\ UNCHANGED <<row, seen, calls, effects, late>>

Next ==
  \E e \in Executions :
    \/ Look(e) \/ Reuse(e) \/ Doubt(e) \/ Open(e)
    \/ Perform(e) \/ Succeed(e) \/ Raise(e) \/ Abandon(e)

Spec == Init /\ [][Next]_vars

-----------------------------------------------------------------------------
Calling(e) == pc[e] \in {"call", "acted"}

\* Two executions are never inside call() at once, although each decided on a
\* row it read without a lock.
OneCaller == \A e, f \in Executions : Calling(e) /\ Calling(f) => e = f

\* The effect happens once, and once more only for each time call() raised
\* after its effect: a crash, a cancellation or a second executor never
\* repeats it.
RepeatsAreReported == effects <= late + 1

\* An effect that happened and was not reported failed is remembered: the row
\* never shows a state from which the call may be made again, not even after
\* a crash left it "started" or a late reader of the row overwrote it.
EffectIsRemembered == effects > late => ~MayOpen(row.status)

=============================================================================
