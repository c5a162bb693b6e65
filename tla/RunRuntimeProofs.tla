-------------------------- MODULE RunRuntimeProofs --------------------------
(***************************************************************************)
(* Theorems about RunRuntime, for every set of runs and workers, every      *)
(* graph length and every bound.                                            *)
(***************************************************************************)
EXTENDS RunRuntime, TLAPS

-----------------------------------------------------------------------------
(* Type correctness *)

\* A claimed task has used an attempt, so a refund leaves a natural number.
ClaimsCounted == \A r \in Runs : task[r].status = "running" => task[r].attempt > 0

\* A task that changes the steps names one.
TasksNameNodes ==
  \A r \in Runs : task[r].action \in {"rerun", "skip"} => task[r].node \in Nodes

\* So does the job that claimed it, and a job inside a step is at a step.
JobsPlaced ==
  \A j \in Jobs :
    /\ pc[j] # "idle" /\ job[j].action \in {"rerun", "skip"} => job[j].node \in Nodes
    /\ pc[j] \in {"node", "acted"} => job[j].at # Done

TInv == TypeOK /\ ClaimsCounted /\ TasksNameNodes /\ JobsPlaced

USE RuntimeAssumption DEF Nodes, Done

LEMMA MovedIsRow ==
  ASSUME NEW row \in RunRow, NEW to \in RunStatus
  PROVE  Moved(row, to) \in RunRow
BY DEF Moved, RunRow, Control, RunStatus

LEMMA SetRunTyped ==
  ASSUME run \in [Runs -> RunRow], NEW r \in Runs, NEW to \in RunStatus,
         SetRun(r, to)
  PROVE  run' \in [Runs -> RunRow]
BY MovedIsRow DEF SetRun

LEMMA TransitionTyped ==
  ASSUME run \in [Runs -> RunRow], NEW r \in Runs, NEW to \in RunStatus,
         Transition(r, to)
  PROVE  run' \in [Runs -> RunRow]
BY MovedIsRow DEF Transition

\* The rows of tasks keep their type and the two counting facts.
TasksOK == task \in [Runs -> TaskRow] /\ ClaimsCounted /\ TasksNameNodes

LEMMA EnqueueTyped ==
  ASSUME TasksOK, NEW r \in Runs, NEW action \in Actions, NEW node \in 0..LastNode,
         action \in {"rerun", "skip"} => node \in Nodes,
         Enqueue(r, action, node)
  PROVE  TasksOK'
BY DEF TasksOK, Enqueue, TaskRow, TaskStatus, Actions, ClaimsCounted, TasksNameNodes

LEMMA CancelQueuedTyped ==
  ASSUME TasksOK, NEW r \in Runs, CancelQueued(r)
  PROVE  TasksOK'
BY DEF TasksOK, CancelQueued, TaskRow, TaskStatus, ClaimsCounted, TasksNameNodes

LEMMA SettledRow ==
  ASSUME NEW t \in TaskRow, NEW how \in Endings, t.attempt > 0
  PROVE  /\ Settled(t, how) \in TaskRow
         /\ Settled(t, how).status # "running"
         /\ Settled(t, how).action = t.action
         /\ Settled(t, how).node = t.node
         /\ Settled(t, how).id = t.id
         /\ how = "failed" => Settled(t, how).status = "failed"
<1>1. CASE how = "refund"
  <2>1. t.attempt - 1 \in Nat
    BY DEF TaskRow
  <2> QED
    BY <1>1, <2>1 DEF Settled, TaskRow, TaskStatus
<1>2. CASE how = "retry"
  BY <1>2 DEF Settled, TaskRow, TaskStatus
<1>3. CASE how \in {"succeeded", "failed", "cancelled"}
  BY <1>3 DEF Settled, TaskRow, TaskStatus
<1> QED
  BY <1>1, <1>2, <1>3 DEF Endings

LEMMA SettledTyped ==
  ASSUME TasksOK, NEW r \in Runs, NEW how \in Endings,
         task[r].status = "running",
         task' = [task EXCEPT ![r] = Settled(@, how)]
  PROVE  TasksOK'
<1>1. task[r] \in TaskRow /\ task[r].attempt > 0
  BY DEF TasksOK, ClaimsCounted
<1>2. task' = [task EXCEPT ![r] = Settled(task[r], how)]
  OBVIOUS
<1> QED
  BY <1>1, <1>2, SettledRow DEF TasksOK, ClaimsCounted, TasksNameNodes

\* What the steps below leave alone keeps its part of the invariant.
JobsInv == JobsOK /\ JobsPlaced

LEMMA JobsUnchanged ==
  ASSUME JobsInv, UNCHANGED jobs
  PROVE  JobsInv'
BY DEF JobsInv, JobsOK, JobsPlaced, jobs

LEMMA TasksUnchanged ==
  ASSUME TasksOK, UNCHANGED task
  PROVE  TasksOK'
BY DEF TasksOK, ClaimsCounted, TasksNameNodes

LEMMA TInvParts ==
  /\ TInv <=> /\ run \in [Runs -> RunRow]
              /\ TasksOK
              /\ approval \in [Runs -> Approval]
              /\ saved \in [Runs -> Saved]
              /\ JobsInv
              /\ ProcsOK
  /\ TInv' <=> /\ run' \in [Runs -> RunRow]
               /\ TasksOK'
               /\ approval' \in [Runs -> Approval]
               /\ saved' \in [Runs -> Saved]
               /\ JobsInv'
               /\ ProcsOK'
BY DEF TInv, TypeOK, RowsOK, TasksOK, JobsInv

\* A request that counts changes nothing else of the processes.
LEMMA AskedTyped ==
  ASSUME ProcsOK, NEW r \in Runs, NEW request, Asks(r, request),
         UNCHANGED procs, UNCHANGED mishaps
  PROVE  ProcsOK'
BY DEF ProcsOK, Asks, procs

LEMMA UserStepTyped ==
  ASSUME TInv, NEW r \in Runs, UserStep(r)
  PROVE  TInv'
<1> USE TInvParts
<1>1. CASE StartRun(r)
  <2>1. run' \in [Runs -> RunRow]
    BY <1>1, MovedIsRow DEF StartRun, RunStatus
  <2>2. TasksOK'
    BY <1>1, EnqueueTyped DEF StartRun, Actions
  <2> QED
    BY <1>1, <2>1, <2>2, JobsUnchanged DEF StartRun, ProcsOK, procs
<1>2. CASE Pause(r)
  <2>1. run' \in [Runs -> RunRow]
    BY <1>2, TransitionTyped DEF Pause, RunStatus, RunRow, Control
  <2>2. TasksOK'
    BY <1>2, CancelQueuedTyped, TasksUnchanged DEF Pause
  <2>3. ProcsOK'
    BY <1>2, AskedTyped DEF Pause
  <2> QED
    BY <1>2, <2>1, <2>2, <2>3, JobsUnchanged DEF Pause
<1>3. CASE Resume(r)
  <2>1. run' \in [Runs -> RunRow]
    BY <1>3, TransitionTyped DEF Resume, RunStatus
  <2>2. TasksOK'
    BY <1>3, EnqueueTyped DEF Resume, Actions
  <2> QED
    BY <1>3, <2>1, <2>2, JobsUnchanged DEF Resume, ProcsOK, procs
<1>4. CASE Cancel(r)
  <2>1. CASE CancelNow(r)
    BY <1>4, <2>1, MovedIsRow, CancelQueuedTyped, JobsUnchanged
       DEF Cancel, CancelNow, CancelApproval, RunStatus, Approval, Decisions, ProcsOK, procs
  <2>2. CASE CancelLater(r)
    BY <1>4, <2>2, TasksUnchanged, JobsUnchanged
       DEF Cancel, CancelLater, RunRow, RunStatus, Control, ProcsOK, procs
  <2> QED
    BY <1>4, <2>1, <2>2 DEF Cancel
<1>5. CASE Retry(r)
  <2>1. run' \in [Runs -> RunRow]
    BY <1>5, TransitionTyped DEF Retry, RunStatus
  <2>2. TasksOK'
    BY <1>5, EnqueueTyped DEF Retry, Actions
  <2>3. ProcsOK'
    BY <1>5, AskedTyped DEF Retry
  <2> QED
    BY <1>5, <2>1, <2>2, <2>3, JobsUnchanged DEF Retry
<1>6. ASSUME NEW n \in Nodes, NEW action \in {"rerun", "skip"}, ChangeSteps(r, action, n)
      PROVE  TInv'
  <2>1. run' \in [Runs -> RunRow]
    BY <1>6, TransitionTyped DEF ChangeSteps, RunStatus
  <2>2. TasksOK'
    BY <1>6, EnqueueTyped DEF ChangeSteps, Actions
  <2>3. ProcsOK'
    BY <1>6, AskedTyped DEF ChangeSteps
  <2> QED
    BY <1>6, <2>1, <2>2, <2>3, JobsUnchanged DEF ChangeSteps
<1>7. CASE Rerun(r)
  BY <1>6, <1>7 DEF Rerun
<1>8. CASE Skip(r)
  BY <1>6, <1>8 DEF Skip, RuntimeAssumption
<1>9. CASE Decide(r)
  <2>1. TasksOK'
    BY <1>9, EnqueueTyped, TasksUnchanged DEF Decide, Actions
  <2>2. approval' \in [Runs -> Approval]
    BY <1>9 DEF Decide, Approval
  <2> QED
    BY <1>9, <2>1, <2>2, JobsUnchanged DEF Decide, ProcsOK, procs
<1>10. CASE DecideFromChat(r)
  BY <1>10, TasksUnchanged, JobsUnchanged DEF DecideFromChat, Approval, ProcsOK, procs
<1> QED
  BY <1>1, <1>2, <1>3, <1>4, <1>5, <1>7, <1>8, <1>9, <1>10 DEF UserStep

\* A job gets the contents y and goes to a region of the code.
LEMMA JobPut ==
  ASSUME JobsInv, NEW j \in Jobs, NEW y \in Job, NEW to \in Busy,
         y.action \in {"rerun", "skip"} => y.node \in Nodes,
         to \in {"node", "acted"} => y.at # Done,
         job' = [job EXCEPT ![j] = y], pc' = [pc EXCEPT ![j] = to],
         registered' \subseteq registered \cup {j}
  PROVE  JobsInv'
<1>1. "idle" \notin Busy
  BY DEF Busy, Before, Try, Handler, Rescue
<1>2. JobsOK'
  BY <1>1 DEF JobsInv, JobsOK
<1>3. JobsPlaced'
  <2> SUFFICES ASSUME NEW k \in Jobs
               PROVE  /\ pc'[k] # "idle" /\ job'[k].action \in {"rerun", "skip"}
                            => job'[k].node \in Nodes
                      /\ pc'[k] \in {"node", "acted"} => job'[k].at # Done
    BY DEF JobsPlaced
  <2>1. CASE k = j
    BY <2>1 DEF JobsInv, JobsOK
  <2>2. CASE k # j
    BY <2>2 DEF JobsInv, JobsOK, JobsPlaced
  <2> QED
    BY <2>1, <2>2
<1> QED
  BY <1>2, <1>3 DEF JobsInv

\* What a job at work holds.
LEMMA JobTyped ==
  ASSUME JobsInv, NEW j \in Jobs, pc[j] # "idle"
  PROVE  /\ job[j] \in Job
         /\ job[j].action \in {"rerun", "skip"} => job[j].node \in Nodes
         /\ pc[j] \in {"node", "acted"} => job[j].at # Done
         /\ R(j) \in Runs
         /\ job = [job EXCEPT ![j] = job[j]]
BY DEF JobsInv, JobsOK, JobsPlaced, R, Job

\* A job that moves on and keeps what it holds.
LEMMA GotoTyped ==
  ASSUME JobsInv, NEW j \in Jobs, NEW to \in Busy, pc[j] # "idle",
         to \in {"node", "acted"} => job[j].at # Done,
         pc' = [pc EXCEPT ![j] = to], UNCHANGED <<job, registered>>
  PROVE  JobsInv'
BY JobTyped, JobPut

\* A job that decides how it ends is outside the steps of the graph.
LEMMA PlanTyped ==
  ASSUME JobsInv, NEW j \in Jobs, NEW to \in Busy \ {"node", "acted"}, pc[j] # "idle",
         NEW target \in RunStatus, NEW ending \in Endings, Plan(j, target, ending),
         pc' = [pc EXCEPT ![j] = to], UNCHANGED registered
  PROVE  JobsInv'
<1> DEFINE y == [job[j] EXCEPT !.target = target, !.ending = ending]
<1>1. job' = [job EXCEPT ![j] = y]
  BY DEF Plan
<1>2. y \in Job /\ y.action = job[j].action /\ y.node = job[j].node
  BY JobTyped DEF Job
<1> HIDE DEF y
<1> QED
  BY <1>1, <1>2, JobTyped, JobPut

LEMMA LeaveTyped ==
  ASSUME JobsInv, NEW j \in Jobs, Leave(j)
  PROVE  JobsInv'
<1>1. JobsOK'
  BY DEF JobsInv, JobsOK, Leave, SameEntry
<1>2. JobsPlaced'
  BY DEF JobsInv, JobsOK, JobsPlaced, Leave
<1> QED
  BY <1>1, <1>2 DEF JobsInv

LEMMA ClaimTyped ==
  ASSUME TInv, NEW j \in Jobs, NEW r \in Runs, Claim(j, r)
  PROVE  TInv'
<1> DEFINE t == [task[r] EXCEPT !.status = "running", !.owner = Host(j),
                                !.attempt = @ + 1, !.expired = FALSE]
           x == [run |-> r, tid |-> t.id, action |-> t.action, node |-> t.node,
                 attempt |-> t.attempt, at |-> 0, ok |-> "yes", drain |-> "none",
                 reason |-> "none", target |-> "running", ending |-> "succeeded"]
<1>1. TasksOK /\ task[r] \in TaskRow /\ Host(j) \in Workers
  BY TInvParts DEF TasksOK, Jobs, Host
<1>2. /\ task' = [task EXCEPT ![r] = t]
      /\ job' = [job EXCEPT ![j] = x]
      /\ pc' = [pc EXCEPT ![j] = "load"]
      /\ registered' \subseteq registered \cup {j}
  BY DEF Claim, SameEntry
<1>3. task[r].attempt + 1 \in Nat /\ task[r].attempt + 1 > 0
  BY <1>1 DEF TaskRow
<1>4. t \in TaskRow
  BY <1>1, <1>3 DEF TaskRow, TaskStatus
<1>5. t.attempt > 0 /\ t.action = task[r].action /\ t.node = task[r].node
  BY <1>1, <1>3 DEF TaskRow
<1> HIDE DEF t
<1>6. TasksOK'
  BY <1>1, <1>2, <1>4, <1>5 DEF TasksOK, ClaimsCounted, TasksNameNodes
<1>7. x \in Job
  BY <1>4 DEF Job, TaskRow, Flag, Drain, Reasons, RunStatus, Endings
<1>8. /\ x.action \in {"rerun", "skip"} => x.node \in Nodes
      /\ "load" \in Busy \ {"node", "acted"}
  BY <1>1, <1>5 DEF TasksOK, TasksNameNodes, Busy, Before
<1> HIDE DEF x
<1>9. JobsInv'
  BY <1>2, <1>7, <1>8, JobPut, TInvParts
<1> QED
  BY <1>6, <1>9, TInvParts DEF Claim, ProcsOK, procs

\* The checkpoints a job may write.
LEMMA SavedRow ==
  ASSUME NEW s \in Saved, NEW n \in 0..Done, NEW m \in 1..Done, NEW f \in Flag,
         NEW b \in BOOLEAN
  PROVE  /\ [s EXCEPT !.next = n, !.ok[m] = f, !.interrupted = b] \in Saved
         /\ [s EXCEPT !.next = n, !.ok[m] = f] \in Saved
         /\ [next |-> n, ok |-> [s.ok EXCEPT ![m] = f], interrupted |-> b] \in Saved
         /\ [s EXCEPT !.interrupted = b] \in Saved
         /\ s.ok[m] \in Flag
         /\ s.next \in 0..Done
BY DEF Saved

LEMMA EnterTyped ==
  ASSUME TInv, NEW j \in Jobs, NEW s \in Saved, NEW n \in 1..Done, Enter(j, s, n),
         UNCHANGED registered
  PROVE  saved' \in [Runs -> Saved] /\ JobsInv'
<1> DEFINE y == [job[j] EXCEPT !.at = n, !.ok = s.ok[n]]
<1>1. JobsInv /\ pc[j] # "idle" /\ saved \in [Runs -> Saved]
  BY TInvParts DEF Enter, Goto
<1>2. R(j) \in Runs /\ job[j] \in Job
  BY <1>1, JobTyped
<1>3. s.ok[n] \in Flag
  BY DEF Saved
<1>4. y \in Job /\ y.action = job[j].action /\ y.node = job[j].node
  <2>1. n \in 0..Done
    BY RuntimeAssumption
  <2> HIDE DEF Done
  <2> QED
    BY <1>2, <1>3, <2>1 DEF Job
<1>5. job' = [job EXCEPT ![j] = y] /\ pc' = [pc EXCEPT ![j] = "boundary"]
  BY DEF Enter, Goto
<1>6. "boundary" \in Busy
  BY DEF Busy, Try
<1> HIDE DEF y
<1>7. JobsInv'
  BY <1>1, <1>4, <1>5, <1>6, JobTyped, JobPut
<1> QED
  BY <1>1, <1>2, <1>7 DEF Enter

LEMMA RefuseTyped ==
  ASSUME TInv, NEW j \in Jobs, Refuse(j, "hset"), UNCHANGED registered
  PROVE  saved' \in [Runs -> Saved] /\ JobsInv'
<1>1. JobsInv /\ pc[j] # "idle" /\ saved \in [Runs -> Saved]
  BY TInvParts DEF Refuse, Goto
<1>2. "hset" \in Busy \ {"node", "acted"} /\ "failed" \in RunStatus /\ "failed" \in Endings
  BY DEF Busy, Handler, RunStatus, Endings
<1>3. Plan(j, "failed", "failed") /\ pc' = [pc EXCEPT ![j] = "hset"]
  BY DEF Refuse, Goto
<1> QED
  BY <1>1, <1>2, <1>3, PlanTyped DEF Refuse

LEMMA SetupTyped ==
  ASSUME TInv, NEW j \in Jobs, pc[j] # "idle", Setup(j)
  PROVE  TInv'
<1> DEFINE s == saved[R(j)]
           n == job[j].node
<1>1. JobsInv /\ saved \in [Runs -> Saved] /\ 1 \in 1..Done
  BY TInvParts, RuntimeAssumption
<1>2. pc[j] # "idle" /\ UNCHANGED registered
  BY DEF Setup
<1>3. job[j] \in Job /\ s \in Saved /\ s.next \in 0..Done
      /\ \A m \in 1..Done : s.ok[m] \in Flag
  BY <1>1, <1>2, JobTyped DEF Saved
<1> HIDE DEF s
<1>4. ASSUME NEW m \in 1..Done, NEW f \in Flag
      PROVE  /\ [s EXCEPT !.next = m, !.ok[m] = f] \in Saved
             /\ [s EXCEPT !.next = m, !.ok[m] = f, !.interrupted = FALSE] \in Saved
  <2>1. m \in 0..Done
    BY RuntimeAssumption
  <2> QED
    BY <1>3, <2>1, SavedRow
<1>5. ASSUME NEW t \in Saved, NEW m \in 1..Done, Enter(j, t, m)
      PROVE  saved' \in [Runs -> Saved] /\ JobsInv'
  BY <1>2, <1>5, EnterTyped
<1>6. ASSUME Refuse(j, "hset")
      PROVE  saved' \in [Runs -> Saved] /\ JobsInv'
  BY <1>2, <1>6, RefuseTyped
<1>7. CASE job[j].action = "start"
  <2>1. EnterStart(j, s)
    BY <1>7 DEF Setup, s
  <2>2. saved' \in [Runs -> Saved] /\ JobsInv'
    <3>1. CASE s.next = 0
      <4>1. [s EXCEPT !.next = 1, !.ok[1] = "yes"] \in Saved
        BY <1>1, <1>4 DEF Flag
      <4> QED
        BY <1>1, <1>5, <2>1, <3>1, <4>1 DEF EnterStart
    <3>2. CASE s.next # 0
      BY <1>3, <1>5, <2>1, <3>2 DEF EnterStart
    <3> QED
      BY <3>1, <3>2
  <2> QED
    BY <2>2, TInvParts, TasksUnchanged DEF Setup, ProcsOK, procs
<1>8. CASE job[j].action \in {"resume", "retry"}
  <2>1. IF s.next = 0 THEN Refuse(j, "hset") ELSE Enter(j, s, s.next)
    BY <1>8 DEF Setup, s
  <2>2. saved' \in [Runs -> Saved] /\ JobsInv'
    BY <1>3, <1>5, <1>6, <2>1
  <2> QED
    BY <2>2, TInvParts, TasksUnchanged DEF Setup, ProcsOK, procs
<1>9. CASE job[j].action = "rerun"
  <2>1. IF s.ok[n] = "unsaved" THEN Refuse(j, "hset") ELSE Enter(j, s, n)
    BY <1>9 DEF Setup, s
  <2>2. n \in 1..Done
    BY <1>1, <1>2, <1>9, JobTyped, RuntimeAssumption
  <2>3. saved' \in [Runs -> Saved] /\ JobsInv'
    BY <1>3, <1>5, <1>6, <2>1, <2>2
  <2> QED
    BY <2>3, TInvParts, TasksUnchanged DEF Setup, ProcsOK, procs
<1>10. CASE job[j].action = "skip"
  <2>1. n \in 1..Done /\ n + 1 \in 1..Done
    BY <1>1, <1>2, <1>10, JobTyped, RuntimeAssumption
  <2>2. IF s.next # n THEN Refuse(j, "hset")
        ELSE Enter(j, [s EXCEPT !.next = n + 1, !.ok[n + 1] = s.ok[n],
                                !.interrupted = FALSE], n + 1)
    BY <1>10 DEF Setup, s
  <2>3. [s EXCEPT !.next = n + 1, !.ok[n + 1] = s.ok[n], !.interrupted = FALSE] \in Saved
    BY <1>3, <1>4, <2>1
  <2>4. saved' \in [Runs -> Saved] /\ JobsInv'
    BY <1>5, <1>6, <2>1, <2>2, <2>3
  <2> QED
    BY <2>4, TInvParts, TasksUnchanged DEF Setup, ProcsOK, procs
<1> QED
  BY <1>3, <1>7, <1>8, <1>9, <1>10 DEF Job, Actions

\* The end of a step leads to the next one.
LEMMA StepEndsTyped ==
  ASSUME TInv, NEW j \in Jobs, NEW f \in Flag, pc[j] \in {"node", "acted"},
         pc' = [pc EXCEPT ![j] = "boundary"], StepEnds(j, f), UNCHANGED registered
  PROVE  saved' \in [Runs -> Saved] /\ JobsInv'
<1> DEFINE n == job[j].at + 1
<1>1. JobsInv /\ saved \in [Runs -> Saved] /\ run \in [Runs -> RunRow]
  BY TInvParts
<1>2. job[j] \in Job /\ R(j) \in Runs /\ job[j].at # Done
  BY <1>1, JobTyped
<1>3. n \in 1..Done /\ n \in 0..Done
  BY <1>2, RuntimeAssumption DEF Job
<1>4. PICK d \in IF run[R(j)].control = "none" THEN {job[j].drain}
                 ELSE DrainRequested(job[j].drain, run[R(j)].control) :
        job' = [job EXCEPT ![j].at = n, ![j].ok = f, ![j].drain = d]
  BY DEF StepEnds
<1>5. d \in Drain
  BY <1>1, <1>2, <1>4 DEF DrainRequested, RunRow, Control, Drain, Job
<1> DEFINE y == [job[j] EXCEPT !.at = n, !.ok = f, !.drain = d]
           s == saved[R(j)]
           u == [next |-> n, ok |-> [s.ok EXCEPT ![n] = f], interrupted |-> FALSE]
<1>6. saved' = [saved EXCEPT ![R(j)] = u]
  BY DEF StepEnds
<1> HIDE DEF n
<1>7. y \in Job /\ y.action = job[j].action /\ y.node = job[j].node
  BY <1>2, <1>3, <1>5 DEF Job
<1>8. u \in Saved
  BY <1>1, <1>2, <1>3, SavedRow
<1>9. "boundary" \in Busy \ {"node", "acted"}
  BY DEF Busy, Try
<1>10. job' = [job EXCEPT ![j] = y]
  BY <1>4
<1> HIDE DEF y, u
<1>11. JobsInv'
  BY <1>1, <1>7, <1>9, <1>10, JobTyped, JobPut
<1> QED
  BY <1>1, <1>2, <1>6, <1>8, <1>11

\* Every transaction and every step of a job.
LEMMA JobStepTyped ==
  ASSUME TInv, NEW j \in Jobs, JobStep(j)
  PROVE  TInv'
<1>1. /\ pc[j] # "idle" /\ JobsInv /\ R(j) \in Runs
      /\ job[j].target \in RunStatus /\ job[j].ending \in Endings
      /\ job[j].ok \in Flag
  BY TInvParts, JobTyped DEF JobStep, Job
<1>2. {"hset", "hend", "fset", "start", "setup", "boundary", "judge", "set", "end"}
        \subseteq Busy \ {"node", "acted"}
      /\ {"node", "acted"} \subseteq Busy
  BY DEF Busy, Before, Try, Handler, Rescue
<1>3. /\ {"paused", "cancelled", "pending", "succeeded", "failed", "running",
          "waiting_approval"} \subseteq RunStatus
      /\ {"succeeded", "cancelled", "refund", "retry", "failed"} \subseteq Endings
  BY DEF RunStatus, Endings
<1>4. CASE Load(j)
  <2>1. JobsInv'
    BY <1>1, <1>2, <1>3, <1>4, PlanTyped, GotoTyped DEF Load, Goto
  <2> QED
    BY <1>4, <2>1, TInvParts, TasksUnchanged DEF Load, ProcsOK, procs, rows
<1>5. CASE Start(j)
  <2>1. JobsInv'
    BY <1>1, <1>2, <1>3, <1>5, PlanTyped, GotoTyped DEF Start, Goto
  <2>2. run' \in [Runs -> RunRow]
    BY <1>1, <1>3, <1>5, SetRunTyped, TInvParts DEF Start
  <2> QED
    BY <1>5, <2>1, <2>2, TInvParts, TasksUnchanged DEF Start, ProcsOK, procs
<1>6. CASE Setup(j)
  BY <1>1, <1>6, SetupTyped
<1>7. CASE Proceed(j)
  <2>1. JobsInv'
    BY <1>1, <1>2, <1>7, GotoTyped DEF Proceed, Goto
  <2> QED
    BY <1>7, <2>1, TInvParts, TasksUnchanged DEF Proceed, ProcsOK, procs, rows
<1>8. CASE StreamEnds(j)
  <2>1. JobsInv'
    BY <1>1, <1>2, <1>8, GotoTyped DEF StreamEnds, Goto
  <2> QED
    BY <1>8, <2>1, TInvParts, TasksUnchanged DEF StreamEnds, ProcsOK, procs, rows
<1>9. CASE Drained(j)
  <2>1. JobsInv'
    BY <1>1, <1>2, <1>3, <1>9, PlanTyped DEF Drained, Goto
  <2> QED
    BY <1>9, <2>1, TInvParts, TasksUnchanged DEF Drained, ProcsOK, procs, rows
<1>10. CASE Work(j)
  <2>1. saved' \in [Runs -> Saved] /\ JobsInv'
    BY <1>1, <1>10, StepEndsTyped DEF Work, Goto
  <2> QED
    BY <1>10, <2>1, TInvParts, TasksUnchanged DEF Work, ProcsOK, procs
<1>11. CASE Ask(j)
  <2>1. JobsInv'
    BY <1>1, <1>2, <1>11, GotoTyped DEF Ask, Goto
  <2>2. saved' \in [Runs -> Saved]
    BY <1>1, <1>11, TInvParts DEF Ask, Saved
  <2>3. approval' \in [Runs -> Approval]
    BY <1>1, <1>11, TInvParts DEF Ask, Approval
  <2> QED
    BY <1>11, <2>1, <2>2, <2>3, TInvParts, TasksUnchanged DEF Ask, ProcsOK, procs
<1>12. CASE Answered(j)
  <2>1. (IF approval[R(j)] = "approved" THEN "yes" ELSE "no") \in Flag
    BY DEF Flag
  <2>2. saved' \in [Runs -> Saved] /\ JobsInv'
    BY <1>1, <1>12, <2>1, StepEndsTyped DEF Answered, Goto
  <2> QED
    BY <1>12, <2>2, TInvParts, TasksUnchanged DEF Answered, ProcsOK, procs
<1>13. CASE Act(j)
  <2>1. job[j].at # Done
    BY <1>1, <1>13, JobTyped DEF Act, Goto
  <2>2. JobsInv'
    BY <1>1, <1>2, <1>13, <2>1, GotoTyped DEF Act, Goto
  <2> QED
    BY <1>13, <2>2, TInvParts, TasksUnchanged DEF Act, ProcsOK, procs, rows
<1>14. CASE Acted(j)
  <2>1. saved' \in [Runs -> Saved] /\ JobsInv'
    BY <1>1, <1>14, StepEndsTyped DEF Acted, Goto
  <2> QED
    BY <1>14, <2>1, TInvParts, TasksUnchanged DEF Acted, ProcsOK, procs
<1>15. CASE Judge(j)
  <2>1. JobsInv'
    BY <1>1, <1>2, <1>3, <1>15, PlanTyped DEF Judge, Goto
  <2> QED
    BY <1>15, <2>1, TInvParts, TasksUnchanged DEF Judge, ProcsOK, procs, rows
<1>16. CASE Set(j)
  <2>1. JobsInv'
    BY <1>1, <1>2, <1>16, GotoTyped DEF Set, Goto
  <2>2. run' \in [Runs -> RunRow]
    BY <1>1, <1>16, SetRunTyped, TInvParts DEF Set
  <2> QED
    BY <1>16, <2>1, <2>2, TInvParts, TasksUnchanged DEF Set, ProcsOK, procs
<1>17. ASSUME NEW how \in Endings, Settle(j, how)
       PROVE  TasksOK'
  BY <1>1, <1>17, SettledTyped, TasksUnchanged, TInvParts DEF Settle, Owns
<1>18. CASE End(j)
  BY <1>1, <1>17, <1>18, LeaveTyped, TInvParts DEF End, ProcsOK, procs
<1>19. CASE RescueEnd(j)
  <2>1. JobsInv'
    BY <1>1, <1>2, <1>19, GotoTyped DEF RescueEnd, Goto
  <2> QED
    BY <1>3, <1>17, <1>19, <2>1, TInvParts DEF RescueEnd, ProcsOK, procs
<1>20. CASE RescueSet(j)
  <2>1. run' \in [Runs -> RunRow]
    BY <1>1, <1>3, <1>20, SetRunTyped, TInvParts DEF RescueSet
  <2> QED
    BY <1>1, <1>20, <2>1, LeaveTyped, TasksUnchanged, TInvParts DEF RescueSet, ProcsOK, procs
<1> QED
  BY <1>4, <1>5, <1>6, <1>7, <1>8, <1>9, <1>10, <1>11, <1>12, <1>13, <1>14, <1>15,
     <1>16, <1>18, <1>19, <1>20 DEF JobStep

LEMMA RetryOrFailTyped ==
  ASSUME JobsInv, NEW j \in Jobs, pc[j] # "idle", RetryOrFail(j),
         pc' = [pc EXCEPT ![j] = "hset"], UNCHANGED registered
  PROVE  JobsInv'
<1>1. "hset" \in Busy \ {"node", "acted"}
  BY DEF Busy, Handler
<1>2. {"pending", "failed"} \subseteq RunStatus /\ {"retry", "failed"} \subseteq Endings
  BY DEF RunStatus, Endings
<1> QED
  BY <1>1, <1>2, PlanTyped DEF RetryOrFail

LEMMA ErrorTyped ==
  ASSUME TInv, NEW j \in Jobs, NodeFails(j) \/ Fault(j)
  PROVE  TInv'
<1>1. JobsInv /\ ProcsOK
  BY TInvParts
<1>2. {"hset", "fend"} \subseteq Busy \ {"node", "acted"} /\ "failed" \in RunStatus
      /\ "failed" \in Endings /\ "idle" \notin Busy
  BY DEF Busy, Handler, Rescue, RunStatus, Endings, Before, Try
<1>3. CASE NodeFails(j)
  <2>1. JobsInv'
    BY <1>1, <1>2, <1>3, RetryOrFailTyped, PlanTyped DEF NodeFails
  <2> QED
    BY <1>3, <2>1, TInvParts, TasksUnchanged DEF NodeFails, ProcsOK, procs, rows
<1>4. CASE Fault(j)
  <2>1. JobsInv'
    BY <1>1, <1>2, <1>4, RetryOrFailTyped, PlanTyped, GotoTyped, LeaveTyped DEF Fault, Busy
  <2>2. ProcsOK'
    BY <1>1, <1>4 DEF Fault, Mishap, ProcsOK, procs
  <2> QED
    BY <1>4, <2>1, <2>2, TInvParts, TasksUnchanged DEF Fault, rows
<1> QED
  BY <1>3, <1>4

LEMMA CancelJobTyped ==
  ASSUME JobsInv, NEW j \in Jobs, NEW reason \in Reasons, CancelJob(j, reason)
  PROVE  JobsInv'
<1>1. CASE pc[j] \in Try /\ reason # "lease_lost"
  <2> DEFINE target == IF reason = "cancel" THEN "cancelled" ELSE "pending"
             ending == IF reason = "cancel" THEN "cancelled" ELSE "refund"
             y == [job[j] EXCEPT !.reason = reason, !.target = target, !.ending = ending]
  <2>1. pc[j] # "idle" /\ "hset" \in Busy \ {"node", "acted"}
    BY <1>1 DEF Try, Busy, Handler
  <2>2. job[j] \in Job
    BY <2>1, JobTyped
  <2>3. target \in RunStatus /\ ending \in Endings
    BY DEF RunStatus, Endings
  <2>4. job' = [job EXCEPT ![j] = y] /\ pc' = [pc EXCEPT ![j] = "hset"]
        /\ UNCHANGED registered
    BY <1>1 DEF CancelJob
  <2> HIDE DEF target, ending
  <2>5. y \in Job /\ y.action = job[j].action /\ y.node = job[j].node
    BY <2>2, <2>3 DEF Job
  <2> HIDE DEF y
  <2> QED
    BY <2>1, <2>4, <2>5, JobTyped, JobPut
<1>2. CASE ~(pc[j] \in Try /\ reason # "lease_lost")
  BY <1>2, LeaveTyped DEF CancelJob
<1> QED
  BY <1>1, <1>2

LEMMA HeartbeatTyped ==
  ASSUME TInv, NEW j \in Jobs, Heartbeat(j)
  PROVE  TInv'
<1>1. JobsInv /\ pc[j] # "idle" /\ pc[j] \in Busy
  BY TInvParts DEF Heartbeat, JobsInv, JobsOK
<1>2. R(j) \in Runs /\ job[j] \in Job
  BY <1>1, JobTyped
<1>3. TasksOK'
  <2>1. CASE task' = [task EXCEPT ![R(j)].expired = FALSE]
    BY ZenonT(40), <1>2, <2>1, TInvParts DEF TasksOK, TaskRow, ClaimsCounted, TasksNameNodes
  <2>2. CASE UNCHANGED task
    BY <2>2, TasksUnchanged, TInvParts
  <2> QED
    BY <2>1, <2>2 DEF Heartbeat
<1>4. JobsInv'
  <2>1. CASE UNCHANGED jobs
    BY <1>1, <2>1, JobsUnchanged
  <2>2. CASE \E reason \in Reasons : CancelJob(j, reason)
    BY <1>1, <2>2, CancelJobTyped
  <2>3. ASSUME NEW d \in DrainRequested(job[j].drain, "pause"),
               job' = [job EXCEPT ![j].drain = d], UNCHANGED <<pc, registered>>
        PROVE  JobsInv'
    <3> DEFINE y == [job[j] EXCEPT !.drain = d]
    <3>1. d \in Drain
      BY <1>2 DEF DrainRequested, Drain, Job
    <3>2. y \in Job /\ y.action = job[j].action /\ y.node = job[j].node /\ y.at = job[j].at
      BY <1>2, <3>1 DEF Job
    <3>3. job' = [job EXCEPT ![j] = y]
      BY <2>3
    <3>4. pc' = [pc EXCEPT ![j] = pc[j]]
      BY <2>3, <1>1 DEF JobsInv, JobsOK
    <3> HIDE DEF y
    <3>5. /\ y.action \in {"rerun", "skip"} => y.node \in Nodes
          /\ pc[j] \in {"node", "acted"} => y.at # Done
      BY <1>1, <3>2, JobTyped
    <3>6. registered' \subseteq registered \cup {j}
      BY <2>3
    <3> QED
      BY <1>1, <3>2, <3>3, <3>4, <3>5, <3>6, JobPut
  <2> QED
    BY <2>1, <2>2, <2>3 DEF Heartbeat, Reasons
<1> QED
  BY <1>3, <1>4, TInvParts DEF Heartbeat, ProcsOK, procs

LEMMA LeaseExpiresTyped ==
  ASSUME TInv, NEW r \in Runs, LeaseExpires(r)
  PROVE  TInv'
<1>1. TasksOK'
  BY ZenonT(40), TInvParts DEF LeaseExpires, TasksOK, TaskRow, ClaimsCounted, TasksNameNodes
<1>2. ProcsOK'
  BY TInvParts DEF LeaseExpires, Mishap, ProcsOK, procs
<1> QED
  BY <1>1, <1>2, JobsUnchanged, TInvParts DEF LeaseExpires

LEMMA WorkerStepTyped ==
  ASSUME TInv, NEW w \in Workers, WorkerStep(w)
  PROVE  TInv'
<1>1. JobsInv /\ ProcsOK /\ TasksOK
  BY TInvParts
<1>2. ASSUME NEW r \in Runs, Reap(w, r)
      PROVE  TInv'
  <2>1. TasksOK'
    BY <1>1, <1>2, SettledTyped DEF Reap, Reapable, Endings
  <2>2. ProcsOK'
    BY <1>1, <1>2 DEF Reap, ProcsOK
  <2> QED
    BY <1>2, <2>1, <2>2, JobsUnchanged, TInvParts DEF Reap
<1>3. CASE ReapSet(w)
  <2>1. PICK e \in reaped[w] :
          /\ SetRun(e[1], e[2])
          /\ reaped' = [reaped EXCEPT ![w] = @ \ {e}]
          /\ UNCHANGED <<task, approval, saved, jobs, up, asked, mishaps>>
    BY <1>3 DEF ReapSet
  <2>2. e[1] \in Runs /\ e[2] \in RunStatus
    BY <1>1, <2>1 DEF ProcsOK, RunStatus
  <2>3. run' \in [Runs -> RunRow]
    BY <2>1, <2>2, SetRunTyped, TInvParts
  <2>4. ProcsOK'
    BY <1>1, <2>1 DEF ProcsOK
  <2> QED
    BY <2>1, <2>3, <2>4, JobsUnchanged, TasksUnchanged, TInvParts
<1>4. CASE ReaperFault(w)
  <2>1. ProcsOK'
    BY <1>1, <1>4 DEF ReaperFault, Mishap, ProcsOK
  <2> QED
    BY <1>4, <2>1, JobsUnchanged, TasksUnchanged, TInvParts DEF ReaperFault, rows
<1>5. CASE Shutdown(w)
  <2>1. ProcsOK'
    BY <1>1, <1>5 DEF Shutdown, Mishap, ProcsOK
  <2>2. PICK keep \in BOOLEAN :
          job' = [j \in Jobs |->
                   IF j \in InFlight(w) /\ ~(keep /\ job[j].drain # "none")
                     THEN [job[j] EXCEPT !.drain = "shutdown"] ELSE job[j]]
    BY <1>5 DEF Shutdown
  <2>3. ASSUME NEW j \in Jobs
        PROVE  /\ job'[j] \in Job \cup {NoJob}
               /\ pc[j] # "idle" => /\ job'[j] \in Job
                                    /\ job'[j].action = job[j].action
                                    /\ job'[j].node = job[j].node
                                    /\ job'[j].at = job[j].at
    <3>1. job[j] \in Job => [job[j] EXCEPT !.drain = "shutdown"] \in Job
      BY DEF Job, Drain
    <3>2. j \in InFlight(w) => job[j] \in Job
      BY <1>1 DEF InFlight, JobsInv, JobsOK
    <3> QED
      BY <1>1, <2>2, <3>1, <3>2 DEF JobsInv, JobsOK, Job
  <2>4. UNCHANGED <<pc, registered>> /\ job' = [j \in Jobs |-> job'[j]]
    BY <1>5, <2>2 DEF Shutdown
  <2>5. JobsInv'
    BY <1>1, <2>3, <2>4 DEF JobsInv, JobsOK, JobsPlaced
  <2> QED
    BY <1>5, <2>1, <2>5, TasksUnchanged, TInvParts DEF Shutdown, rows
<1>6. ASSUME Gone(w)
      PROVE  JobsInv' /\ up' \in [Workers -> {"up", "stopping", "down"}]
             /\ reaped' \in [Workers -> SUBSET (Runs \X {"pending", "failed"})]
  <2>1. JobsOK'
    BY <1>1, <1>6 DEF Gone, JobsInv, JobsOK
  <2>2. JobsPlaced'
    BY <1>1, <1>6 DEF Gone, JobsInv, JobsOK, JobsPlaced
  <2> QED
    BY <1>1, <1>6, <2>1, <2>2 DEF Gone, JobsInv, ProcsOK
<1>7. CASE Stopped(w)
  BY <1>1, <1>6, <1>7, TasksUnchanged, TInvParts DEF Stopped, rows, ProcsOK
<1>8. CASE Crash(w)
  BY <1>1, <1>6, <1>8, TasksUnchanged, TInvParts DEF Crash, Mishap, rows, ProcsOK
<1> QED
  BY <1>2, <1>3, <1>4, <1>5, <1>7, <1>8 DEF WorkerStep

LEMMA InitTyped == Init => TInv
<1> SUFFICES ASSUME Init PROVE TInv
  OBVIOUS
<1>1. run \in [Runs -> RunRow] /\ approval \in [Runs -> Approval]
  BY DEF Init, RunRow, Control, Approval
<1>2. TasksOK
  BY DEF Init, TasksOK, TaskRow, TaskStatus, Actions, ClaimsCounted, TasksNameNodes
<1>3. saved \in [Runs -> Saved]
  BY DEF Init, Saved, Flag
<1>4. JobsInv
  BY DEF Init, JobsInv, JobsOK, JobsPlaced
<1>5. ProcsOK
  BY DEF Init, ProcsOK
<1> QED
  BY <1>1, <1>2, <1>3, <1>4, <1>5, TInvParts

LEMMA StepTyped == TInv /\ [Next]_vars => TInv'
<1> SUFFICES ASSUME TInv, [Next]_vars PROVE TInv'
  OBVIOUS
<1>1. ASSUME NEW r \in Runs, UserStep(r) \/ LeaseExpires(r)
      PROVE  TInv'
  BY <1>1, UserStepTyped, LeaseExpiresTyped
<1>2. ASSUME NEW j \in Jobs, NEW r \in Runs, Claim(j, r)
      PROVE  TInv'
  BY <1>2, ClaimTyped
<1>3. ASSUME NEW j \in Jobs, JobStep(j) \/ NodeFails(j) \/ Fault(j) \/ Heartbeat(j)
      PROVE  TInv'
  BY <1>3, JobStepTyped, ErrorTyped, HeartbeatTyped
<1>4. ASSUME NEW j \in Jobs, GraceEnds(j)
      PROVE  TInv'
  <2>1. JobsInv'
    BY <1>4, CancelJobTyped, TInvParts DEF GraceEnds, Reasons
  <2> QED
    BY <1>4, <2>1, TasksUnchanged, TInvParts DEF GraceEnds, ProcsOK, procs, rows
<1>5. ASSUME NEW w \in Workers, WorkerStep(w)
      PROVE  TInv'
  BY <1>5, WorkerStepTyped
<1>6. CASE UNCHANGED vars
  BY <1>6, TasksUnchanged, JobsUnchanged, TInvParts DEF vars, jobs, ProcsOK
<1> QED
  BY <1>1, <1>2, <1>3, <1>4, <1>5, <1>6 DEF Next

\* Every reachable state is well typed: rows hold what the columns and their
\* check constraints allow, and a job at work holds a claimed task.
THEOREM TypeCorrect == Spec => []TypeOK
<1>1. TInv => TypeOK
  BY DEF TInv
<1> QED
  BY <1>1, InitTyped, StepTyped, PTL DEF Spec

-----------------------------------------------------------------------------
(* The status of a run moves as declared *)

statusOf == [r \in Runs |-> run[r].status]
LifecycleStep == [Lifecycle!Next]_statusOf

\* Whoever writes a new row: its status is the old one, or one declared move on.
LEMMA RowMoves ==
  ASSUME run \in [Runs -> RunRow], NEW r \in Runs, NEW row \in RunRow,
         run' = [run EXCEPT ![r] = row],
         \/ row.status = run[r].status
         \/ row.status \in RunStatus /\ CanMove(run[r].status, row.status)
         \/ run[r].status = "absent" /\ row.status = "pending"
         \/ run[r].status = "waiting_approval" /\ row.status = "cancelled"
  PROVE  LifecycleStep
<1>1. statusOf' = [statusOf EXCEPT ![r] = row.status] /\ statusOf[r] = run[r].status
  BY DEF statusOf
<1>2. CASE row.status = run[r].status
  <2>1. statusOf' = statusOf
    BY <1>1, <1>2 DEF statusOf
  <2> QED
    BY <2>1 DEF LifecycleStep
<1>3. CASE row.status \in RunStatus /\ CanMove(run[r].status, row.status)
  <2>1. Lifecycle!Move(r)
    BY <1>1, <1>3 DEF Lifecycle!Move, Lifecycle!CanMove, Lifecycle!RunStatus, CanMove,
                      RunStatus, Lifecycle!RunMoves, RunMoves, statusOf
  <2> QED
    BY <2>1 DEF LifecycleStep, Lifecycle!Next
<1>4. CASE run[r].status = "absent" /\ row.status = "pending"
  <2>1. Lifecycle!Create(r)
    BY <1>1, <1>4 DEF Lifecycle!Create, statusOf
  <2> QED
    BY <2>1 DEF LifecycleStep, Lifecycle!Next
<1>5. CASE run[r].status = "waiting_approval" /\ row.status = "cancelled"
  <2>1. Lifecycle!CancelWaiting(r)
    BY <1>1, <1>5 DEF Lifecycle!CancelWaiting, statusOf
  <2> QED
    BY <2>1 DEF LifecycleStep, Lifecycle!Next
<1> QED
  BY <1>2, <1>3, <1>4, <1>5

LEMMA SameRunMoves == UNCHANGED run => LifecycleStep
<1> SUFFICES ASSUME UNCHANGED run PROVE statusOf' = statusOf
  BY DEF LifecycleStep
<1> QED
  BY DEF statusOf

LEMMA SetRunMoves ==
  ASSUME run \in [Runs -> RunRow], NEW r \in Runs, NEW to \in RunStatus, SetRun(r, to)
  PROVE  LifecycleStep
<1>1. run[r] \in RunRow /\ Moved(run[r], to) \in RunRow /\ Moved(run[r], to).status = to
  BY MovedIsRow DEF Moved
<1>2. CASE MaySet(r, to)
  <2>1. run' = [run EXCEPT ![r] = Moved(run[r], to)]
    BY <1>2 DEF SetRun
  <2> QED
    BY <1>1, <1>2, <2>1, RowMoves DEF MaySet
<1>3. CASE ~MaySet(r, to)
  <2>1. UNCHANGED run
    BY <1>3 DEF SetRun
  <2> QED
    BY <2>1, SameRunMoves
<1> QED
  BY <1>2, <1>3

LEMMA TransitionMoves ==
  ASSUME run \in [Runs -> RunRow], NEW r \in Runs, NEW to \in RunStatus, Transition(r, to)
  PROVE  LifecycleStep
<1>1. Moved(run[r], to) \in RunRow /\ Moved(run[r], to).status = to
  BY MovedIsRow DEF Moved
<1>2. run' = [run EXCEPT ![r] = Moved(run[r], to)] /\ CanMove(run[r].status, to)
  BY DEF Transition
<1> QED
  BY <1>1, <1>2, RowMoves

\* Requests: the two that set control_request themselves, and the two moves in one.
LEMMA UserMoves ==
  ASSUME TInv, NEW r \in Runs, UserStep(r)
  PROVE  LifecycleStep
<1>1. run \in [Runs -> RunRow] /\ run[r] \in RunRow
  BY TInvParts
<1>2. {"pending", "paused"} \subseteq RunStatus
  BY DEF RunStatus
<1>3. CASE StartRun(r)
  <2>1. Moved(run[r], "pending") \in RunRow /\ Moved(run[r], "pending").status = "pending"
    BY <1>1, <1>2, MovedIsRow DEF Moved
  <2>2. run' = [run EXCEPT ![r] = Moved(run[r], "pending")] /\ run[r].status = "absent"
    BY <1>3 DEF StartRun
  <2> QED
    BY <1>1, <2>1, <2>2, RowMoves
<1>4. CASE Pause(r)
  <2> DEFINE row == [status |-> "pausing", control |-> "pause"]
  <2>1. row \in RunRow /\ row.status \in RunStatus /\ CanMove("running", row.status)
    BY DEF RunRow, RunStatus, Control, CanMove, RunMoves
  <2>2. CASE run[r].status = "running" /\ run' = [run EXCEPT ![r] = row]
    BY <1>1, <2>1, <2>2, RowMoves
  <2>3. CASE Transition(r, "paused")
    BY <1>1, <1>2, <2>3, TransitionMoves
  <2> QED
    BY <1>4, <2>2, <2>3 DEF Pause
<1>5. CASE Resume(r)
  BY <1>1, <1>2, <1>5, TransitionMoves DEF Resume
<1>6. CASE Cancel(r)
  <2>1. CASE CancelNow(r)
    <3>1. Moved(run[r], "cancelled") \in RunRow
          /\ Moved(run[r], "cancelled").status = "cancelled" /\ "cancelled" \in RunStatus
      BY <1>1, MovedIsRow DEF Moved, RunStatus
    <3>2. run' = [run EXCEPT ![r] = Moved(run[r], "cancelled")]
          /\ run[r].status \in {"pending", "paused", "waiting_approval"}
      BY <2>1 DEF CancelNow
    <3>3. run[r].status = "waiting_approval" \/ CanMove(run[r].status, "cancelled")
      BY <3>2 DEF CanMove, RunMoves
    <3> QED
      BY <1>1, <3>1, <3>2, <3>3, RowMoves
  <2>2. CASE CancelLater(r)
    <3> DEFINE row == [status |-> "cancelling", control |-> "cancel"]
    <3>1. row \in RunRow /\ row.status \in RunStatus
          /\ CanMove("running", row.status) /\ CanMove("pausing", row.status)
      BY DEF RunRow, RunStatus, Control, CanMove, RunMoves
    <3>2. run' = [run EXCEPT ![r] = row] /\ run[r].status \in {"running", "pausing"}
      BY <2>2 DEF CancelLater
    <3> QED
      BY <1>1, <3>1, <3>2, RowMoves
  <2> QED
    BY <1>6, <2>1, <2>2 DEF Cancel
<1>7. CASE Retry(r)
  BY <1>1, <1>2, <1>7, TransitionMoves DEF Retry
<1>8. CASE Rerun(r) \/ Skip(r)
  BY <1>1, <1>2, <1>8, TransitionMoves DEF Rerun, Skip, ChangeSteps
<1>9. CASE Decide(r) \/ DecideFromChat(r)
  BY <1>9, SameRunMoves DEF Decide, DecideFromChat
<1> QED
  BY <1>3, <1>4, <1>5, <1>6, <1>7, <1>8, <1>9 DEF UserStep

LEMMA JobMoves ==
  ASSUME TInv, NEW j \in Jobs, JobStep(j)
  PROVE  LifecycleStep
<1>1. /\ run \in [Runs -> RunRow] /\ R(j) \in Runs /\ job[j].target \in RunStatus
      /\ {"running", "failed"} \subseteq RunStatus
  BY TInvParts, JobTyped DEF JobStep, Job, RunStatus
<1>2. CASE Start(j)
  BY <1>1, <1>2, SetRunMoves DEF Start
<1>3. CASE Set(j)
  BY <1>1, <1>3, SetRunMoves DEF Set
<1>4. CASE RescueSet(j)
  BY <1>1, <1>4, SetRunMoves DEF RescueSet
<1>5. CASE UNCHANGED run
  BY <1>5, SameRunMoves
<1> QED
  BY <1>2, <1>3, <1>4, <1>5
     DEF JobStep, Load, Setup, Proceed, StreamEnds, Drained, Work, Ask, Answered, Act, Acted,
         Judge, End, RescueEnd, rows

LEMMA StepMoves == TInv /\ [Next]_vars => LifecycleStep
<1> SUFFICES ASSUME TInv, [Next]_vars PROVE LifecycleStep
  OBVIOUS
<1>1. ASSUME NEW r \in Runs, UserStep(r) \/ LeaseExpires(r)
      PROVE  LifecycleStep
  BY <1>1, UserMoves, SameRunMoves DEF LeaseExpires
<1>2. ASSUME NEW j \in Jobs,
             \/ \E r \in Runs : Claim(j, r)
             \/ JobStep(j) \/ NodeFails(j) \/ Fault(j) \/ Heartbeat(j) \/ GraceEnds(j)
      PROVE  LifecycleStep
  BY <1>2, JobMoves, SameRunMoves DEF Claim, NodeFails, Fault, Heartbeat, GraceEnds, rows
<1>3. ASSUME NEW w \in Workers, ReapSet(w)
      PROVE  LifecycleStep
  <2>1. PICK e \in reaped[w] : SetRun(e[1], e[2])
    BY <1>3 DEF ReapSet
  <2>2. e[1] \in Runs /\ e[2] \in RunStatus /\ run \in [Runs -> RunRow]
    BY <2>1, TInvParts DEF ProcsOK, RunStatus
  <2> QED
    BY <2>1, <2>2, SetRunMoves
<1>4. ASSUME NEW w \in Workers, WorkerStep(w), ~ReapSet(w)
      PROVE  LifecycleStep
  BY <1>4, SameRunMoves
     DEF WorkerStep, Reap, ReaperFault, Shutdown, Stopped, Crash, rows
<1>5. CASE UNCHANGED vars
  BY <1>5, SameRunMoves DEF vars
<1> QED
  BY <1>1, <1>2, <1>3, <1>4, <1>5 DEF Next

LEMMA InitMoves == Init => Lifecycle!Init
BY DEF Init, Lifecycle!Init

\* The runtime implements the lifecycle, whatever crashes, faults and lost
\* leases do: also a worker whose lease is gone makes only declared moves.
THEOREM ImplementsLifecycle == Spec => MovesAreDeclared
<1>1. TInv /\ [Next]_vars => [Lifecycle!Next]_[r \in Runs |-> run[r].status]
  BY StepMoves DEF LifecycleStep, statusOf
<1> QED
  BY <1>1, InitTyped, StepTyped, InitMoves, PTL
     DEF Spec, MovesAreDeclared, Lifecycle!Spec
=============================================================================
