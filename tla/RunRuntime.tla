----------------------------- MODULE RunRuntime -----------------------------
(***************************************************************************)
(* Durable workflow runs: the rows in Postgres, the requests of the user    *)
(* that change them, and the workers that claim a run's task, advance its   *)
(* graph from checkpoint to checkpoint, and survive (or do not survive)     *)
(* each other's crashes.                                                    *)
(*                                                                          *)
(* One action is one database transaction, or one step of a job that no     *)
(* transaction separates: a worker commits the status of a run and the end  *)
(* of its task in two transactions, so they are two actions here, and       *)
(* anyone may act between them.                                             *)
(*                                                                          *)
(* The graph is a line of steps 1..LastNode, as in the system_check         *)
(* workflow: GateNode asks for an approval (0: the run has no gate) and     *)
(* EffectNode acts on the world unless the gate was refused.                *)
(***************************************************************************)
EXTENDS Naturals, FiniteSets, RunMachine

CONSTANTS
  Runs, Workers, NoWorker,
  Slots,           \* how many jobs a worker can hold at once (a bound)
  Concurrency,     \* settings.worker_concurrency
  MaxAttempts,     \* tasks.max_attempts
  LastNode, GateNode, EffectNode, OptionalNodes,
  Requests,        \* the requests users make
  Failures,        \* what goes wrong
  MaxRequests,     \* bound: pause, retry, rerun and skip requests per run
  MaxMishaps,      \* bound: crashes, faults, shutdowns and lost leases
  NoJob

ASSUME RuntimeAssumption ==
  /\ NoWorker \notin Workers
  /\ MaxAttempts \in Nat \ {0}
  /\ LastNode \in Nat \ {0}
  /\ GateNode \in 0..LastNode
  /\ EffectNode \in 0..LastNode
  /\ OptionalNodes \subseteq 1..LastNode
  /\ MaxRequests \in Nat
  /\ MaxMishaps \in Nat

Nodes    == 1..LastNode
Done     == LastNode + 1            \* no next step: the graph is finished
Jobs     == Workers \X (1..Slots)
Host(j)  == j[1]

VARIABLES
  run,         \* workflow_runs: status and control_request
  task,        \* the newest task row of each run; older ones are never active
  approval,    \* the approval request of the run's gate
  saved,       \* the run's checkpoints
  pc,          \* where each job of each worker is
  job,         \* what it holds in memory
  registered,  \* the jobs in their worker's _inflight
  up,          \* worker processes: "up", "stopping", "down"
  reaped,      \* what a reaper took from _REAP and still has to write
  asked,       \* how often users changed their mind (bounded)
  mishaps      \* how often something went wrong (bounded)

rows    == <<run, task, approval, saved>>
jobs    == <<pc, job, registered>>
procs   == <<up, reaped>>
vars    == <<run, task, approval, saved, pc, job, registered, up, reaped,
             asked, mishaps>>

-----------------------------------------------------------------------------
(* Types *)

Control    == {"none", "pause", "cancel"}
Actions    == {"start", "resume", "retry", "rerun", "skip"}
TaskStatus == {"none", "queued", "running", "succeeded", "failed", "cancelled"}
Decisions  == {"approved", "rejected"}
Approval   == {"none", "pending", "cancelled"} \cup Decisions
Endings    == {"succeeded", "failed", "cancelled", "refund", "retry"}
Drain      == {"none", "pause", "cancel", "shutdown"}
Reasons    == {"none", "cancel", "shutdown", "lease_lost"}

\* The region of _advance a job is in decides what a cancellation of its
\* asyncio task does: before the "try", inside it, in one of its handlers
\* (or in an early return, which no handler covers either), or in the
\* last-resort handler of _execute.
Before  == {"load", "start", "setup"}
Try     == {"boundary", "node", "acted", "judge", "set", "end"}
Handler == {"hset", "hend"}
Rescue  == {"fend", "fset"}
Busy    == Before \cup Try \cup Handler \cup Rescue
Executing == {"boundary", "node", "acted"}

RunRow  == [status: RunStatus \cup {"absent"}, control: Control]
TaskRow == [id: Nat, action: Actions, node: 0..LastNode, status: TaskStatus,
            owner: Workers \cup {NoWorker}, attempt: Nat, expired: BOOLEAN]
\* next: the step the newest checkpoint leads to (0: no checkpoint yet);
\* ok: for each step, what "approved" is in the newest checkpoint that leads
\* to it; interrupted: the step before was left at interrupt().
Flag    == {"unsaved", "yes", "no"}
Saved   == [next: 0..Done, ok: [1..Done -> Flag],
            interrupted: BOOLEAN]
Job     == [run: Runs, tid: Nat, action: Actions, node: 0..LastNode,
            attempt: Nat, at: 0..Done, ok: Flag, drain: Drain,
            reason: Reasons, target: RunStatus, ending: Endings]

RowsOK ==
  /\ run \in [Runs -> RunRow]
  /\ task \in [Runs -> TaskRow]
  /\ approval \in [Runs -> Approval]
  /\ saved \in [Runs -> Saved]

JobsOK ==
  /\ pc \in [Jobs -> Busy \cup {"idle"}]
  /\ job \in [Jobs -> Job \cup {NoJob}]
  /\ \A j \in Jobs : pc[j] # "idle" => job[j] \in Job
  /\ registered \subseteq {j \in Jobs : pc[j] # "idle"}

ProcsOK ==
  /\ up \in [Workers -> {"up", "stopping", "down"}]
  /\ reaped \in [Workers -> SUBSET (Runs \X {"pending", "failed"})]
  /\ asked \in [Runs -> Nat]
  /\ mishaps \in Nat

TypeOK == RowsOK /\ JobsOK /\ ProcsOK

Init ==
  /\ run = [r \in Runs |-> [status |-> "absent", control |-> "none"]]
  /\ task = [r \in Runs |->
               [id |-> 0, action |-> "start", node |-> 0, status |-> "none",
                owner |-> NoWorker, attempt |-> 0, expired |-> FALSE]]
  /\ approval = [r \in Runs |-> "none"]
  /\ saved = [r \in Runs |->
                [next |-> 0, ok |-> [n \in 1..Done |-> "unsaved"],
                 interrupted |-> FALSE]]
  /\ pc = [j \in Jobs |-> "idle"]
  /\ job = [j \in Jobs |-> NoJob]
  /\ registered = {}
  /\ up = [w \in Workers |-> "up"]
  /\ reaped = [w \in Workers |-> {}]
  /\ asked = [r \in Runs |-> 0]
  /\ mishaps = 0

-----------------------------------------------------------------------------
(* The two tables *)

\* The partial unique index on tasks: at most one of these per run.
HasActiveTask(r) == task[r].status \in {"queued", "running"}

\* _transition of the requests and _set_run of the workers write the same row.
Moved(row, to) ==
  [status  |-> to,
   control |-> IF to \in {"paused", "cancelled"} THEN "none" ELSE row.control]

\* Mutant of MaySet: the worker checks only that the run is not over.
MaySetUnlessCancelled(r, to) == run[r].status # "cancelled"

\* Worker._set_run: a move that is not declared is skipped, not an error.
MaySet(r, to) == run[r].status = to \/ CanMove(run[r].status, to)
SetRun(r, to) ==
  run' = [run EXCEPT ![r] = IF MaySet(r, to) THEN Moved(@, to) ELSE @]

\* A request moves the run only where the machine allows it.
Transition(r, to) ==
  /\ CanMove(run[r].status, to)
  /\ run' = [run EXCEPT ![r] = Moved(@, to)]

\* Mutant of Enqueue: the conflict is swallowed and the request goes through.
EnqueueQuietly(r, action, node) ==
  IF HasActiveTask(r) THEN UNCHANGED task
  ELSE task' = [task EXCEPT ![r] =
                  [id |-> @.id + 1, action |-> action, node |-> node,
                   status |-> "queued", owner |-> NoWorker, attempt |-> 0,
                   expired |-> FALSE]]

\* runs._enqueue: a second active task is a ConcurrencyConflict, and the whole
\* request is rolled back.
Enqueue(r, action, node) ==
  /\ ~HasActiveTask(r)
  /\ task' = [task EXCEPT ![r] =
                [id |-> @.id + 1, action |-> action, node |-> node,
                 status |-> "queued", owner |-> NoWorker, attempt |-> 0,
                 expired |-> FALSE]]

\* runs._cancel_queued: a task some worker has claimed is left alone.
CancelQueued(r) ==
  task' = [task EXCEPT ![r].status = IF @ = "queued" THEN "cancelled" ELSE @]

-----------------------------------------------------------------------------
(* What users ask for: each request is one transaction *)

Asks(r, request) ==
  /\ request \in Requests
  /\ asked[r] < MaxRequests
  /\ asked' = [asked EXCEPT ![r] = @ + 1]

StartRun(r) ==
  /\ run[r].status = "absent"
  /\ run' = [run EXCEPT ![r] = Moved(@, "pending")]
  /\ Enqueue(r, "start", 0)
  /\ UNCHANGED <<approval, saved, jobs, procs, asked, mishaps>>

Pause(r) ==
  /\ Asks(r, "pause")
  /\ \/ /\ run[r].status \in {"pending", "waiting_approval"}
        /\ CancelQueued(r)
        /\ Transition(r, "paused")
     \/ /\ run[r].status = "running"
        /\ run' = [run EXCEPT ![r] = [status |-> "pausing", control |-> "pause"]]
        /\ UNCHANGED task
  /\ UNCHANGED <<approval, saved, jobs, procs, mishaps>>

Resume(r) ==
  /\ run[r].status = "paused"
  /\ Transition(r, "pending")
  /\ Enqueue(r, "resume", 0)
  /\ UNCHANGED <<approval, saved, jobs, procs, asked, mishaps>>

\* Mutant of CancelApproval: the UPDATE lacks its "status = pending".
CancelAnyApproval(r) ==
  approval' = [approval EXCEPT ![r] = IF @ = "none" THEN @ ELSE "cancelled"]

\* Pending approvals of a cancelled run become cancelled.
CancelApproval(r) ==
  approval' = [approval EXCEPT ![r] = IF @ = "pending" THEN "cancelled" ELSE @]

\* Mutant of CancelNow: a running run is cancelled without its worker.
CancelRunningNow(r) ==
  /\ run[r].status \in {"pending", "running", "paused", "waiting_approval"}
  /\ CancelQueued(r)
  /\ run' = [run EXCEPT ![r] = Moved(@, "cancelled")]
  /\ CancelApproval(r)

\* A run no worker is advancing goes to "cancelled" in one transaction.
CancelNow(r) ==
  /\ run[r].status \in {"pending", "paused", "waiting_approval"}
  /\ CancelQueued(r)
  /\ run' = [run EXCEPT ![r] = Moved(@, "cancelled")]
  /\ CancelApproval(r)

\* A run at work is asked to stop.
CancelLater(r) ==
  /\ run[r].status \in {"running", "pausing"}
  /\ run' = [run EXCEPT ![r] = [status |-> "cancelling", control |-> "cancel"]]
  /\ UNCHANGED <<task, approval>>

Cancel(r) ==
  /\ "cancel" \in Requests
  /\ CancelNow(r) \/ CancelLater(r)
  /\ UNCHANGED <<saved, jobs, procs, asked, mishaps>>

Retry(r) ==
  /\ Asks(r, "retry")
  /\ run[r].status = "failed"
  /\ Transition(r, "pending")
  /\ Enqueue(r, "retry", 0)
  /\ UNCHANGED <<approval, saved, jobs, procs, mishaps>>

ChangeSteps(r, action, node) ==
  /\ Asks(r, action)
  /\ run[r].status \in {"failed", "paused", "succeeded"}
  /\ Transition(r, "pending")
  /\ Enqueue(r, action, node)
  /\ UNCHANGED <<approval, saved, jobs, procs, mishaps>>

Rerun(r) == \E n \in Nodes : ChangeSteps(r, "rerun", n)
Skip(r)  == \E n \in OptionalNodes : ChangeSteps(r, "skip", n)

\* runs.decide: the run is woken only if it already shows waiting_approval.
Decide(r) ==
  /\ approval[r] = "pending"
  /\ \E d \in Decisions : approval' = [approval EXCEPT ![r] = d]
  /\ IF run[r].status = "waiting_approval" THEN Enqueue(r, "resume", 0)
                                           ELSE UNCHANGED task
  /\ UNCHANGED <<run, saved, jobs, procs, asked, mishaps>>

\* channels.handle_action catches the conflict inside its transaction: the
\* decision is committed although nothing was queued.
DecideFromChat(r) ==
  /\ "chat" \in Requests
  /\ approval[r] = "pending"
  /\ run[r].status = "waiting_approval"
  /\ HasActiveTask(r)
  /\ \E d \in Decisions : approval' = [approval EXCEPT ![r] = d]
  /\ UNCHANGED <<run, task, saved, jobs, procs, asked, mishaps>>

UserStep(r) ==
  \/ StartRun(r) \/ Pause(r) \/ Resume(r) \/ Cancel(r) \/ Retry(r)
  \/ Rerun(r) \/ Skip(r) \/ Decide(r) \/ DecideFromChat(r)

-----------------------------------------------------------------------------
(* Claiming *)

InFlight(w) == {j \in registered : Host(j) = w}

\* The entries of _inflight with the task id of j.
SameEntry(w, r, tid) ==
  {j \in registered : Host(j) = w /\ job[j].run = r /\ job[j].tid = tid}

\* Mutant of Claimable: a claim also takes a task some worker is running.
ClaimableTwice(r) == task[r].status \in {"queued", "running"}

\* The task a claim may take: available_at is abstracted, so the delay of a
\* retry is over at any time.
Claimable(r) == task[r].status = "queued"

\* queue.claim, _CLAIM and _claim_and_start.
Claim(j, r) ==
  /\ up[Host(j)] = "up"
  /\ pc[j] = "idle"
  /\ Cardinality(InFlight(Host(j))) < Concurrency
  /\ Claimable(r)
  /\ LET t == [task[r] EXCEPT !.status = "running", !.owner = Host(j),
                              !.attempt = @ + 1, !.expired = FALSE]
     IN /\ task' = [task EXCEPT ![r] = t]
        /\ job' = [job EXCEPT ![j] =
             [run |-> r, tid |-> t.id, action |-> t.action, node |-> t.node,
              attempt |-> t.attempt, at |-> 0, ok |-> "yes", drain |-> "none",
              reason |-> "none", target |-> "running", ending |-> "succeeded"]]
        /\ registered' = (registered \ SameEntry(Host(j), r, t.id)) \cup {j}
  /\ pc' = [pc EXCEPT ![j] = "load"]
  /\ UNCHANGED <<run, approval, saved, procs, asked, mishaps>>

-----------------------------------------------------------------------------
(* Jobs: _advance, one await at a time *)

R(j) == job[j].run

\* The WHERE clause of extend_leases, finish and requeue.
Owns(j) ==
  /\ task[R(j)].id = job[j].tid
  /\ task[R(j)].status = "running"
  /\ task[R(j)].owner = Host(j)

Goto(j, from, to) ==
  /\ pc[j] = from
  /\ pc' = [pc EXCEPT ![j] = to]

\* Decide what the run becomes and how the task ends; the two transactions
\* are the actions Set and End.
Plan(j, target, ending) ==
  job' = [job EXCEPT ![j].target = target, ![j].ending = ending]

\* Mutant of Leave: the entry of _inflight is never popped.
LeaveListed(j) ==
  /\ pc' = [pc EXCEPT ![j] = "idle"]
  /\ job' = [job EXCEPT ![j] = NoJob]
  /\ UNCHANGED registered

\* The "finally" of _execute pops the task's id, whoever put it there.
Leave(j) ==
  /\ pc' = [pc EXCEPT ![j] = "idle"]
  /\ job' = [job EXCEPT ![j] = NoJob]
  /\ registered' = (registered \ SameEntry(Host(j), R(j), job[j].tid)) \ {j}

\* The first read: whatever the job does next rests on this copy of the row.
Load(j) ==
  /\ \/ /\ run[R(j)].control = "cancel" \/ run[R(j)].status = "cancelling"
        /\ Goto(j, "load", "hset")
        /\ Plan(j, "cancelled", "cancelled")
     \/ /\ ~(run[R(j)].control = "cancel" \/ run[R(j)].status = "cancelling")
        /\ run[R(j)].control = "pause" \/ run[R(j)].status = "pausing"
        /\ Goto(j, "load", "hset")
        /\ Plan(j, "paused", "succeeded")
     \/ /\ run[R(j)].control = "none"
        /\ run[R(j)].status \notin {"cancelling", "pausing"}
        /\ Goto(j, "load", "start")
        /\ UNCHANGED job
  /\ UNCHANGED <<rows, registered, procs, asked, mishaps>>

Start(j) ==
  /\ SetRun(R(j), "running")
  /\ \/ /\ MaySet(R(j), "running")
        /\ Goto(j, "start", "setup")
        /\ UNCHANGED job
     \/ /\ ~MaySet(R(j), "running")
        /\ Goto(j, "start", "hend")
        /\ Plan(j, "cancelled", "cancelled")
  /\ UNCHANGED <<task, approval, saved, registered, procs, asked, mishaps>>

\* The graph enters at step n of the run's checkpoints s.
Enter(j, s, n) ==
  /\ Goto(j, "setup", "boundary")
  /\ saved' = [saved EXCEPT ![R(j)] = s]
  /\ job' = [job EXCEPT ![j].at = n, ![j].ok = s.ok[n]]

Refuse(j, region) ==
  /\ Goto(j, "setup", region)
  /\ Plan(j, "failed", "failed")
  /\ UNCHANGED saved

\* Mutant of EnterStart: a recovered start task begins a fresh pass.
EnterFresh(j, s) == Enter(j, [s EXCEPT !.next = 1, !.ok[1] = "yes"], 1)

\* A start task enters with the initial state only if nothing is saved.
EnterStart(j, s) ==
  IF s.next = 0 THEN Enter(j, [s EXCEPT !.next = 1, !.ok[1] = "yes"], 1)
                ELSE Enter(j, s, s.next)

Setup(j) ==
  /\ LET s == saved[R(j)]
         n == job[j].node
     IN CASE job[j].action = "start" -> EnterStart(j, s)
          [] job[j].action \in {"resume", "retry"} ->
               \* None as input needs a checkpoint: LangGraph raises without one.
               IF s.next = 0 THEN Refuse(j, "hset") ELSE Enter(j, s, s.next)
          [] job[j].action = "rerun" ->
               IF s.ok[n] = "unsaved" THEN Refuse(j, "hset") ELSE Enter(j, s, n)
          [] job[j].action = "skip" ->
               IF s.next # n THEN Refuse(j, "hset")
               ELSE Enter(j, [s EXCEPT !.next = n + 1, !.ok[n + 1] = s.ok[n],
                                       !.interrupted = FALSE], n + 1)
  /\ UNCHANGED <<run, task, approval, registered, procs, asked, mishaps>>

\* RunControl.request_drain: which of two reasons LangGraph keeps is its own
\* business, so the model allows both.
DrainRequested(old, new) == IF old = "none" THEN {new} ELSE {old, new}

\* Between two steps of the graph.
Proceed(j) ==
  /\ Goto(j, "boundary", "node")
  /\ job[j].drain = "none"
  /\ job[j].at # Done
  /\ UNCHANGED <<rows, job, registered, procs, asked, mishaps>>

StreamEnds(j) ==
  /\ Goto(j, "boundary", "judge")
  /\ job[j].at = Done
  /\ UNCHANGED <<rows, job, registered, procs, asked, mishaps>>

Drained(j) ==
  /\ Goto(j, "boundary", "hset")
  /\ job[j].at # Done
  /\ \/ job[j].drain = "pause" /\ Plan(j, "paused", "succeeded")
     \/ job[j].drain = "cancel" /\ Plan(j, "cancelled", "cancelled")
     \/ job[j].drain = "shutdown" /\ Plan(j, "pending", "refund")
  /\ UNCHANGED <<rows, registered, procs, asked, mishaps>>

\* A step ends: its step counter reads control_request and may ask for a
\* drain, then the checkpoint is written.
StepEnds(j, ok) ==
  LET r == R(j)
      n == job[j].at + 1
  IN /\ saved' = [saved EXCEPT ![r] =
                    [next |-> n, ok |-> [@.ok EXCEPT ![n] = ok], interrupted |-> FALSE]]
     /\ \E d \in IF run[r].control = "none" THEN {job[j].drain}
                 ELSE DrainRequested(job[j].drain, run[r].control) :
          job' = [job EXCEPT ![j].at = n, ![j].ok = ok, ![j].drain = d]

AtGate(j) == job[j].at = GateNode

\* Mutant of AtEffect: the step acts without looking at the answer.
AtEffectAnyway(j) == job[j].at = EffectNode

AtEffect(j) == job[j].at = EffectNode /\ job[j].ok = "yes"

\* A step that neither asks nor acts.
Work(j) ==
  /\ ~AtGate(j) /\ ~AtEffect(j)
  /\ Goto(j, "node", "boundary")
  /\ StepEnds(j, job[j].ok)
  /\ UNCHANGED <<run, task, approval, registered, procs, asked, mishaps>>

\* require_approval: the request is written once per run and step; while no
\* one has decided, interrupt() ends the stream.
Ask(j) ==
  /\ AtGate(j)
  /\ approval[R(j)] \in {"none", "pending"}
  /\ Goto(j, "node", "judge")
  /\ approval' = [approval EXCEPT ![R(j)] = "pending"]
  /\ saved' = [saved EXCEPT ![R(j)].interrupted = TRUE]
  /\ UNCHANGED <<run, task, job, registered, procs, asked, mishaps>>

\* require_approval once there is a decision: it is read from the row.
Answered(j) ==
  /\ AtGate(j)
  /\ approval[R(j)] \notin {"none", "pending"}
  /\ Goto(j, "node", "boundary")
  /\ StepEnds(j, IF approval[R(j)] = "approved" THEN "yes" ELSE "no")
  /\ UNCHANGED <<run, task, approval, registered, procs, asked, mishaps>>

\* The effect on the world, then the end of the step that performed it.
Act(j) ==
  /\ AtEffect(j)
  /\ Goto(j, "node", "acted")
  /\ UNCHANGED <<rows, job, registered, procs, asked, mishaps>>

Acted(j) ==
  /\ Goto(j, "acted", "boundary")
  /\ StepEnds(j, job[j].ok)
  /\ UNCHANGED <<run, task, approval, registered, procs, asked, mishaps>>

\* After the stream the job reads the newest checkpoint of the run, which is
\* its own if no other job wrote one.
Judge(j) ==
  /\ Goto(j, "judge", "set")
  /\ LET s == saved[R(j)] IN
       \/ s.interrupted /\ Plan(j, "waiting_approval", "succeeded")
       \/ ~s.interrupted /\ s.next # Done /\ Plan(j, "pending", "refund")
       \/ ~s.interrupted /\ s.next = Done /\ Plan(j, "succeeded", "succeeded")
  /\ UNCHANGED <<rows, registered, procs, asked, mishaps>>

\* The first transaction: the status of the run.
Set(j) ==
  /\ Goto(j, "set", "end") \/ Goto(j, "hset", "hend")
  /\ SetRun(R(j), job[j].target)
  /\ UNCHANGED <<task, approval, saved, job, registered, procs, asked, mishaps>>

\* Mutant of Settled: a task that is to run again is marked done.
SettledForGood(t, how) ==
  [t EXCEPT !.status = IF how \in {"refund", "retry"} THEN "succeeded" ELSE how,
            !.owner = NoWorker, !.expired = FALSE]

\* finish and requeue touch the task only while the worker still owns it.
Settled(t, how) ==
  CASE how = "refund" -> [t EXCEPT !.status = "queued", !.owner = NoWorker,
                                   !.attempt = @ - 1, !.expired = FALSE]
    [] how = "retry"  -> [t EXCEPT !.status = "queued", !.owner = NoWorker,
                                   !.expired = FALSE]
    [] OTHER          -> [t EXCEPT !.status = how, !.owner = NoWorker,
                                   !.expired = FALSE]

Settle(j, how) ==
  IF Owns(j) THEN task' = [task EXCEPT ![R(j)] = Settled(@, how)]
             ELSE UNCHANGED task

\* The second transaction: the task; then the job is over.
End(j) ==
  /\ pc[j] \in {"end", "hend"}
  /\ Settle(j, job[j].ending)
  /\ Leave(j)
  /\ UNCHANGED <<run, approval, saved, procs, asked, mishaps>>

-----------------------------------------------------------------------------
(* Errors *)

\* Mutant of RetryOrFail: off by one, an attempt too many.
RetryOnceMore(j) ==
  IF job[j].attempt <= MaxAttempts THEN Plan(j, "pending", "retry")
                                   ELSE Plan(j, "failed", "failed")

\* A temporary error: another attempt, unless this was the last one.
RetryOrFail(j) ==
  IF job[j].attempt < MaxAttempts THEN Plan(j, "pending", "retry")
                                  ELSE Plan(j, "failed", "failed")

NodeFails(j) ==
  /\ pc[j] \in {"node", "acted"}
  /\ pc' = [pc EXCEPT ![j] = "hset"]
  /\ \/ "transient" \in Failures /\ RetryOrFail(j)
     \/ "permanent" \in Failures /\ Plan(j, "failed", "failed")
  /\ UNCHANGED <<rows, registered, procs, asked, mishaps>>

Mishap(kind) ==
  /\ kind \in Failures
  /\ mishaps < MaxMishaps
  /\ mishaps' = mishaps + 1

\* A database error outside a step.  The checkpointer's, psycopg's own, is a
\* temporary error; what the rows' transactions raise, SQLAlchemy's, is none of
\* TRANSIENT_ERRORS and fails the run at any attempt.  Outside the "try" only the
\* last-resort handler of _execute is left.
Fault(j) ==
  /\ Mishap("fault")
  /\ \/ /\ pc[j] \in {"judge", "set", "end"}
        /\ pc' = [pc EXCEPT ![j] = "hset"]
        /\ IF pc[j] = "judge" THEN RetryOrFail(j) ELSE Plan(j, "failed", "failed")
        /\ UNCHANGED registered
     \/ /\ pc[j] \in Before \cup Handler
        /\ pc' = [pc EXCEPT ![j] = "fend"]
        /\ UNCHANGED <<job, registered>>
     \/ /\ pc[j] \in Rescue
        /\ Leave(j)
  /\ UNCHANGED <<rows, procs, asked>>

\* The last-resort handler ends the task first and sets the run second.
RescueEnd(j) ==
  /\ Goto(j, "fend", "fset")
  /\ Settle(j, "failed")
  /\ UNCHANGED <<run, approval, saved, job, registered, procs, asked, mishaps>>

RescueSet(j) ==
  /\ pc[j] = "fset"
  /\ SetRun(R(j), "failed")
  /\ Leave(j)
  /\ UNCHANGED <<task, approval, saved, procs, asked, mishaps>>

JobStep(j) ==
  /\ pc[j] # "idle"
  /\ \/ Load(j) \/ Start(j) \/ Setup(j)
     \/ Proceed(j) \/ StreamEnds(j) \/ Drained(j)
     \/ Work(j) \/ Ask(j) \/ Answered(j) \/ Act(j) \/ Acted(j)
     \/ Judge(j) \/ Set(j) \/ End(j) \/ RescueEnd(j) \/ RescueSet(j)

-----------------------------------------------------------------------------
(* The worker's other loops *)

\* job.cancel(): what becomes of the job depends on where it is.
CancelJob(j, reason) ==
  IF pc[j] \in Try /\ reason # "lease_lost"
    THEN /\ pc' = [pc EXCEPT ![j] = "hset"]
         /\ job' = [job EXCEPT ![j].reason = reason,
                      ![j].target = IF reason = "cancel" THEN "cancelled" ELSE "pending",
                      ![j].ending = IF reason = "cancel" THEN "cancelled" ELSE "refund"]
         /\ UNCHANGED registered
    ELSE Leave(j)

\* _heartbeat_once for one job: extend the lease, find out that it is lost,
\* and see what the user asked.
Heartbeat(j) ==
  /\ j \in registered
  /\ LET asks == run[R(j)].control IN
     \/ /\ Owns(j)
        /\ task' = [task EXCEPT ![R(j)].expired = FALSE]
        /\ \/ asks = "none" /\ UNCHANGED jobs
           \/ /\ asks = "pause"
              /\ \E d \in DrainRequested(job[j].drain, "pause") :
                   job' = [job EXCEPT ![j].drain = d]
              /\ UNCHANGED <<pc, registered>>
           \/ /\ asks = "cancel"
              /\ IF job[j].reason = "none" THEN CancelJob(j, "cancel")
                                           ELSE UNCHANGED jobs
     \/ /\ ~Owns(j)
        /\ CancelJob(j, "lease_lost")
        /\ UNCHANGED task
  /\ UNCHANGED <<run, approval, saved, procs, asked, mishaps>>

\* The lease runs out: no one extends it any more, or its worker is alive but
\* late.
LeaseExpires(r) ==
  /\ task[r].status = "running"
  /\ ~task[r].expired
  /\ \/ /\ SameEntry(task[r].owner, r, task[r].id) = {}
        /\ UNCHANGED mishaps
     \/ Mishap("lease")
  /\ task' = [task EXCEPT ![r].expired = TRUE]
  /\ UNCHANGED <<run, approval, saved, jobs, procs, asked>>

\* Mutant of Reapable: the reaper does not compare the lease with the clock.
ReapableEarly(r) == task[r].status = "running"

\* Mutant of Reapable: a task on its last attempt is left alone.
ReapableWhileAttempts(r) ==
  task[r].status = "running" /\ task[r].expired /\ task[r].attempt < MaxAttempts

Reapable(r) == task[r].status = "running" /\ task[r].expired

\* queue.reap_expired; the reaper then writes the run in a second transaction.
Reap(w, r) ==
  /\ up[w] # "down"
  /\ \A e \in reaped[w] : e[1] # r
  /\ Reapable(r)
  /\ LET again == task[r].attempt < MaxAttempts IN
       /\ task' = [task EXCEPT ![r] =
                     Settled(@, IF again THEN "retry" ELSE "failed")]
       /\ reaped' = [reaped EXCEPT ![w] =
                       @ \cup {<<r, IF again THEN "pending" ELSE "failed">>}]
  /\ UNCHANGED <<run, approval, saved, jobs, up, asked, mishaps>>

ReapSet(w) ==
  \E e \in reaped[w] :
    /\ SetRun(e[1], e[2])
    /\ reaped' = [reaped EXCEPT ![w] = @ \ {e}]
    /\ UNCHANGED <<task, approval, saved, jobs, up, asked, mishaps>>

\* An exception ends the reaper's pass: what it still had to write is dropped.
ReaperFault(w) ==
  /\ reaped[w] # {}
  /\ Mishap("fault")
  /\ reaped' = [reaped EXCEPT ![w] = {}]
  /\ UNCHANGED <<rows, jobs, up, asked>>

\* _drain_inflight: every job is asked to stop at a step; after the grace
\* period its asyncio task is cancelled.
Shutdown(w) ==
  /\ up[w] = "up"
  /\ Mishap("shutdown")
  /\ up' = [up EXCEPT ![w] = "stopping"]
  /\ \E keep \in BOOLEAN :
       job' = [j \in Jobs |->
                 IF j \in InFlight(w) /\ ~(keep /\ job[j].drain # "none")
                   THEN [job[j] EXCEPT !.drain = "shutdown"] ELSE job[j]]
  /\ UNCHANGED <<rows, pc, registered, reaped, asked>>

GraceEnds(j) ==
  /\ up[Host(j)] = "stopping"
  /\ j \in registered
  /\ job[j].reason # "shutdown"
  /\ CancelJob(j, "shutdown")
  /\ UNCHANGED <<rows, procs, asked, mishaps>>

\* The process is gone, and with it its jobs and its reaper.
Gone(w) ==
  /\ up' = [up EXCEPT ![w] = "down"]
  /\ reaped' = [reaped EXCEPT ![w] = {}]
  /\ pc' = [j \in Jobs |-> IF Host(j) = w THEN "idle" ELSE pc[j]]
  /\ job' = [j \in Jobs |-> IF Host(j) = w THEN NoJob ELSE job[j]]
  /\ registered' = {j \in registered : Host(j) # w}

Stopped(w) ==
  /\ up[w] = "stopping"
  /\ InFlight(w) = {}
  /\ Gone(w)
  /\ UNCHANGED <<rows, asked, mishaps>>

\* A crash leaves the leases as they are.
Crash(w) ==
  /\ up[w] # "down"
  /\ Mishap("crash")
  /\ Gone(w)
  /\ UNCHANGED <<rows, asked>>

WorkerStep(w) ==
  \/ \E r \in Runs : Reap(w, r)
  \/ ReapSet(w) \/ ReaperFault(w) \/ Shutdown(w) \/ Stopped(w) \/ Crash(w)

Next ==
  \/ \E r \in Runs : UserStep(r) \/ LeaseExpires(r)
  \/ \E j \in Jobs : \/ \E r \in Runs : Claim(j, r)
                     \/ JobStep(j) \/ NodeFails(j) \/ Fault(j)
                     \/ Heartbeat(j) \/ GraceEnds(j)
  \/ \E w \in Workers : WorkerStep(w)

Spec == Init /\ [][Next]_vars

\* What the workers' loops and an event loop that is not blocked justify: a
\* job that can take its next step takes it (a step of the graph ends: model
\* and fetch calls have timeouts), the claim loop polls, heartbeats and the
\* reaper run on timers, a lease nobody extends runs out.  Users, crashes and
\* errors are never fair.
Fairness ==
  /\ \A j \in Jobs : /\ WF_vars(JobStep(j))
                     /\ WF_vars(Heartbeat(j))
                     /\ WF_vars(GraceEnds(j))
  /\ \A r \in Runs : /\ WF_vars(\E j \in Jobs : Claim(j, r))
                     /\ WF_vars(LeaseExpires(r))
                     /\ WF_vars(\E w \in Workers : Reap(w, r))
  /\ \A w \in Workers : WF_vars(ReapSet(w)) /\ WF_vars(Stopped(w))

FairSpec == Spec /\ Fairness

-----------------------------------------------------------------------------
(* Properties *)

\* A job between its claim and its last transaction, as long as nothing forced
\* it into the last-resort handler.
Advancing(j) == pc[j] \in Busy \ Rescue

\* No two jobs are ever at work on one run: its one active task is claimed by
\* one worker (queue.claim, the unique index on tasks), and a job that is at
\* work keeps others out until its last transaction, whoever crashes.
OneJobPerRun ==
  \A j, k \in Jobs : Advancing(j) /\ Advancing(k) /\ R(j) = R(k) => j = k

\* A job at work holds its lease: nobody's finish, requeue or reaping takes the
\* task away under it (the WHERE clauses of queue.py and the heartbeat).
AdvancesWithLease == \A j \in Jobs : Advancing(j) => Owns(j)

\* While a step of the graph runs, users see a run that is running or on its
\* way to a pause or a cancellation, never one that claims to be at rest.
ExecutingShows ==
  \A j \in Jobs :
    pc[j] \in Executing => run[R(j)].status \in {"running", "pausing", "cancelling"}

\* A pending run has a task that some worker will claim: the two transactions
\* that requeue, and each request that makes a run pending, leave one.
PendingHasTask == \A r \in Runs : run[r].status = "pending" => HasActiveTask(r)

\* Attempts stay within max_attempts, although refunds give some back.
AttemptsBounded == \A r \in Runs : task[r].attempt \in 0..MaxAttempts

\* Every move of every run is one RUN_MACHINE declares, whatever workers that
\* lost their lease still write: the run implements its lifecycle.
Lifecycle == INSTANCE RunLifecycle WITH status <- [r \in Runs |-> run[r].status]
MovesAreDeclared == Lifecycle!Spec

\* The gated step acts only for a user who approved, even when two jobs are at
\* work on the run or it is resumed by something else than the approval.
EffectNeedsApproval ==
  [][\A j \in Jobs : pc[j] = "node" /\ pc'[j] = "acted"
                       => approval[R(j)] = "approved"]_vars

\* Nothing but a rerun takes a run back to a step it completed: a recovered
\* start task resumes (worker.py:498), a retry enters at the failed step.
OnlyRerunGoesBack ==
  [][\A r \in Runs : saved'[r].next < saved[r].next
       => \E j \in Jobs : pc[j] # "idle" /\ R(j) = r /\ job[j].action = "rerun"]_vars

\* A decision is final: neither a later decision, nor the cancellation of the
\* run, nor a step that asks again overwrites it.
DecisionsAreFinal ==
  [][\A r \in Runs : approval[r] \in Decisions \cup {"cancelled"}
       => approval'[r] = approval[r]]_vars

\* A run that waits to be advanced, or that is being advanced, comes to rest
\* unless something goes wrong: it ends, pauses, or waits for its user.
Active == {"pending", "running", "pausing"}
ActiveComesToRest ==
  \A r \in Runs :
    run[r].status \in Active ~> run[r].status \notin Active \/ mishaps > 0

\* Whoever crashes, an active task ends while one worker is left: its lease
\* runs out, a reaper requeues it, and its attempts are limited.
TasksEnd == \A r \in Runs : HasActiveTask(r) ~> ~HasActiveTask(r)

\* A paused run stays paused until its user resumes, changes or cancels it:
\* "A queued run, or one waiting for approval, pauses immediately."
PausedStays ==
  [][\A r \in Runs : run[r].status = "paused" /\ run'[r].status # "paused"
       => UserStep(r)]_vars

\* A run whose user cancels it ends up cancelled: "Cancel semantics: terminal."
CancelIsHonoured ==
  \A r \in Runs : run[r].status = "cancelling" ~> run[r].status = "cancelled"

\* A run waits for its user only until the user has decided: "Pause the graph
\* until the user decides."
DecisionWakesRun ==
  \A r \in Runs : approval[r] \in Decisions /\ run[r].status = "waiting_approval"
                    ~> run[r].status # "waiting_approval"
=============================================================================
