--------------------------- MODULE RunSafetyProofs --------------------------
(***************************************************************************)
(* What the runtime promises beyond its types: a user's decision is never   *)
(* overwritten and the gated step acts only after an approval; a run is     *)
(* advanced by one job at a time, the one that holds the lease of its task; *)
(* and what a run's status and attempts say is true.                        *)
(***************************************************************************)
EXTENDS RunRuntimeProofs

-----------------------------------------------------------------------------
(* What a decision is worth, however often the run is paused, retried,       *)
(* rerun, recovered or advanced by two workers at once                       *)

\* No action overwrites a decision.
LEMMA DecisionKept ==
  ASSUME approval \in [Runs -> Approval], [Next]_vars, NEW r \in Runs,
         approval[r] \in Decisions \cup {"cancelled"}
  PROVE  approval'[r] = approval[r]
<1>1. ASSUME NEW q \in Runs, UserStep(q)
      PROVE  approval'[r] = approval[r]
  <2>1. CASE Cancel(q)
    BY <2>1 DEF Cancel, CancelNow, CancelLater, CancelApproval, Decisions
  <2>2. CASE Decide(q) \/ DecideFromChat(q)
    BY <2>2 DEF Decide, DecideFromChat, Decisions
  <2> QED
    BY <1>1, <2>1, <2>2
       DEF UserStep, StartRun, Pause, Resume, Retry, Rerun, Skip, ChangeSteps
<1>2. ASSUME NEW j \in Jobs, JobStep(j)
      PROVE  approval'[r] = approval[r]
  <2>1. CASE Ask(j)
    BY <2>1 DEF Ask, Decisions
  <2> QED
    BY <1>2, <2>1
       DEF JobStep, Load, Start, Setup, Proceed, StreamEnds, Drained, Work, Answered, Act,
           Acted, Judge, Set, End, RescueEnd, RescueSet, rows
<1>3. CASE UNCHANGED approval
  BY <1>3
<1> QED
  BY ZenonT(40), <1>1, <1>2, <1>3
     DEF Next, vars, rows, LeaseExpires, Claim, NodeFails, Fault, Heartbeat, GraceEnds,
         WorkerStep, Reap, ReapSet, ReaperFault, Shutdown, Stopped, Crash

\* A decision is final, whoever cancels, asks again or decides later.
THEOREM DecisionsStand == Spec => DecisionsAreFinal
<1>1. TInv /\ [Next]_vars =>
        [\A r \in Runs : approval[r] \in Decisions \cup {"cancelled"}
           => approval'[r] = approval[r]]_vars
  BY DecisionKept, TInvParts
<1> QED
  BY <1>1, InitTyped, StepTyped, PTL DEF Spec, DecisionsAreFinal

-----------------------------------------------------------------------------
(* The gate *)

\* The graph asks before it acts, and no one may skip the question.
Gated == GateNode > 0 /\ GateNode < EffectNode /\ GateNode \notin OptionalNodes

\* Whatever a checkpoint or a job knows of a "yes" behind the gate, a user said.
ConsentSaved ==
  \A r \in Runs : \A n \in 1..Done :
    n > GateNode /\ saved[r].ok[n] = "yes" => approval[r] = "approved"

ConsentHeld ==
  \A j \in Jobs :
    pc[j] # "idle" /\ job[j].at > GateNode /\ job[j].ok = "yes"
      => approval[R(j)] = "approved"

\* Only steps that may be skipped are, and only the effect acts.
SkipsOptional ==
  /\ \A r \in Runs : task[r].action = "skip" => task[r].node \in OptionalNodes
  /\ \A j \in Jobs :
       pc[j] # "idle" /\ job[j].action = "skip" => job[j].node \in OptionalNodes

EffectActs == \A j \in Jobs : pc[j] = "acted" => job[j].at = EffectNode

Consent == ConsentSaved /\ ConsentHeld /\ SkipsOptional /\ EffectActs

\* What a job knows is unchanged in every step but Claim, Setup and the steps
\* of the graph.
SameJobs ==
  \A j \in Jobs :
    pc'[j] # "idle" =>
      /\ pc[j] # "idle"
      /\ job'[j].run = job[j].run /\ job'[j].at = job[j].at /\ job'[j].ok = job[j].ok
      /\ job'[j].action = job[j].action /\ job'[j].node = job[j].node
      /\ pc'[j] = "acted" => pc[j] = "acted" \/ job[j].at = EffectNode

SameTasks ==
  \A r \in Runs : task'[r].action = "skip" =>
    \/ task'[r].node \in OptionalNodes
    \/ task[r].action = "skip" /\ task'[r].node = task[r].node

LEMMA ConsentSame ==
  ASSUME TInv, [Next]_vars, Consent, SameJobs, SameTasks,
         \A r \in Runs : saved'[r].ok = saved[r].ok
  PROVE  Consent'
<1>1. \A r \in Runs : approval[r] = "approved" => approval'[r] = "approved"
  BY DecisionKept, TInvParts DEF Decisions
<1>2. \A j \in Jobs : pc[j] # "idle" => R(j) \in Runs
  BY TInvParts, JobTyped
<1>3. ConsentSaved'
  BY <1>1 DEF Consent, ConsentSaved
<1>4. ConsentHeld'
  BY <1>1, <1>2 DEF Consent, ConsentHeld, SameJobs, R
<1>5. SkipsOptional' /\ EffectActs'
  BY DEF Consent, SkipsOptional, EffectActs, SameJobs, SameTasks
<1> QED
  BY <1>3, <1>4, <1>5 DEF Consent

LEMMA UserConsent ==
  ASSUME TInv, [Next]_vars, Consent, NEW r \in Runs, UserStep(r)
  PROVE  Consent'
<1>1. SameJobs
  BY DEF SameJobs, UserStep, StartRun, Pause, Resume, Cancel, Retry, Rerun, Skip,
         ChangeSteps, Decide, DecideFromChat, jobs
<1>2. \A q \in Runs : saved'[q].ok = saved[q].ok
  BY DEF UserStep, StartRun, Pause, Resume, Cancel, Retry, Rerun, Skip,
         ChangeSteps, Decide, DecideFromChat
<1>3. TasksOK
  BY TInvParts
<1>4. ASSUME NEW action \in Actions, NEW node \in 0..LastNode,
             action = "skip" => node \in OptionalNodes, Enqueue(r, action, node)
      PROVE  SameTasks
  BY <1>3, <1>4 DEF SameTasks, Enqueue, TasksOK
<1>5. 0 \in 0..LastNode /\ Nodes \subseteq 0..LastNode
  BY RuntimeAssumption DEF Nodes
<1>6. SameTasks
  <2>1. CASE CancelQueued(r)
    BY <1>3, <2>1 DEF SameTasks, CancelQueued, TasksOK, TaskRow
  <2>2. CASE UNCHANGED task
    BY <2>2 DEF SameTasks
  <2>3. CASE StartRun(r)
    BY <1>4, <1>5, <2>3 DEF StartRun, Actions
  <2>4. CASE Resume(r) \/ Retry(r) \/ Decide(r)
    BY <1>4, <1>5, <2>2, <2>4 DEF Resume, Retry, Decide, Actions
  <2>5. CASE Rerun(r)
    <3>1. PICK n \in Nodes : Enqueue(r, "rerun", n)
      BY <2>5 DEF Rerun, ChangeSteps
    <3> QED
      BY <1>4, <1>5, <3>1 DEF Actions
  <2>6. CASE Skip(r)
    <3>1. PICK n \in OptionalNodes : Enqueue(r, "skip", n)
      BY <2>6 DEF Skip, ChangeSteps
    <3> QED
      BY <1>4, <3>1, RuntimeAssumption DEF Actions
  <2> QED
    BY <2>1, <2>2, <2>3, <2>4, <2>5, <2>6
       DEF UserStep, Pause, Cancel, CancelNow, CancelLater, DecideFromChat
<1> QED
  BY <1>1, <1>2, <1>6, ConsentSame

LEMMA ClaimConsent ==
  ASSUME TInv, [Next]_vars, Consent, Gated, NEW j \in Jobs, NEW r \in Runs, Claim(j, r)
  PROVE  Consent'
<1>1. /\ UNCHANGED <<saved, approval>>
      /\ pc' = [pc EXCEPT ![j] = "load"]
      /\ job'[j].at = 0 /\ job'[j].action = task[r].action /\ job'[j].node = task[r].node
      /\ \A k \in Jobs \ {j} : job'[k] = job[k]
      /\ \A q \in Runs : task'[q].action = task[q].action /\ task'[q].node = task[q].node
  BY TInvParts DEF Claim, TasksOK, TaskRow, JobsInv, JobsOK
<1>2. ConsentSaved'
  BY <1>1 DEF Consent, ConsentSaved
<1>3. pc \in [Jobs -> Busy \cup {"idle"}]
  BY TInvParts DEF JobsInv, JobsOK
<1>4. ConsentHeld'
  <2> SUFFICES ASSUME NEW k \in Jobs, pc'[k] # "idle", job'[k].at > GateNode,
                      job'[k].ok = "yes"
               PROVE  approval'[R(k)'] = "approved"
    BY DEF ConsentHeld
  <2>1. k # j
    BY <1>1, RuntimeAssumption DEF Gated
  <2> QED
    BY <1>1, <1>3, <2>1 DEF Consent, ConsentHeld, R
<1>5. SkipsOptional' /\ EffectActs'
  BY <1>1, <1>3 DEF Consent, SkipsOptional, EffectActs
<1> QED
  BY <1>2, <1>4, <1>5 DEF Consent

\* The job j, and the checkpoints of its run, learn an answer for the step n.
LEMMA Learns ==
  ASSUME TInv, [Next]_vars, Consent, NEW j \in Jobs, pc[j] # "idle",
         NEW s \in Saved, saved' = [saved EXCEPT ![R(j)] = s],
         \A m \in 1..Done :
           m > GateNode /\ s.ok[m] = "yes" => approval[R(j)] = "approved",
         NEW y \in Job, job' = [job EXCEPT ![j] = y], y.run = job[j].run,
         y.action = job[j].action, y.node = job[j].node,
         y.at > GateNode /\ y.ok = "yes" => approval[R(j)] = "approved",
         pc' = [pc EXCEPT ![j] = "boundary"], UNCHANGED task
  PROVE  Consent'
<1>1. \A r \in Runs : approval[r] = "approved" => approval'[r] = "approved"
  BY DecisionKept, TInvParts DEF Decisions
<1>2. /\ \A k \in Jobs : pc[k] # "idle" => R(k) \in Runs
      /\ pc \in [Jobs -> Busy \cup {"idle"}] /\ job \in [Jobs -> Job \cup {NoJob}]
      /\ saved \in [Runs -> Saved]
  BY TInvParts, JobTyped DEF JobsInv, JobsOK
<1>3. ConsentSaved'
  BY <1>1, <1>2 DEF Consent, ConsentSaved
<1>4. ConsentHeld'
  <2> SUFFICES ASSUME NEW k \in Jobs, pc'[k] # "idle", job'[k].at > GateNode,
                      job'[k].ok = "yes"
               PROVE  approval'[job'[k].run] = "approved"
    BY DEF ConsentHeld, R
  <2>1. CASE k = j
    BY <1>1, <1>2, <2>1 DEF R
  <2>2. CASE k # j
    BY <1>1, <1>2, <2>2 DEF Consent, ConsentHeld, R
  <2> QED
    BY <2>1, <2>2
<1>5. SkipsOptional' /\ EffectActs'
  BY <1>2 DEF Consent, SkipsOptional, EffectActs
<1> QED
  BY <1>3, <1>4, <1>5 DEF Consent

LEMMA EnterLearns ==
  ASSUME TInv, [Next]_vars, Consent, NEW j \in Jobs, pc[j] # "idle",
         NEW s \in Saved, NEW n \in 1..Done, Enter(j, s, n), UNCHANGED task,
         \A m \in 1..Done :
           m > GateNode /\ s.ok[m] = "yes" => approval[R(j)] = "approved"
  PROVE  Consent'
<1> DEFINE y == [job[j] EXCEPT !.at = n, !.ok = s.ok[n]]
<1>1. job[j] \in Job /\ s.ok[n] \in Flag /\ n \in 0..Done
  BY TInvParts, JobTyped, RuntimeAssumption DEF Saved, Done
<1>2. /\ y \in Job /\ y.run = job[j].run /\ y.action = job[j].action
      /\ y.node = job[j].node /\ y.at = n /\ y.ok = s.ok[n]
  BY <1>1 DEF Job
<1>3. /\ job' = [job EXCEPT ![j] = y]
      /\ saved' = [saved EXCEPT ![R(j)] = s]
      /\ pc' = [pc EXCEPT ![j] = "boundary"]
  BY DEF Enter, Goto
<1> HIDE DEF y
<1>4. y.at > GateNode /\ y.ok = "yes" => approval[R(j)] = "approved"
  BY <1>2
<1> QED
  BY <1>2, <1>3, <1>4, Learns

LEMMA RefuseConsent ==
  ASSUME TInv, [Next]_vars, Consent, NEW j \in Jobs, pc[j] # "idle",
         Refuse(j, "hset"), UNCHANGED task
  PROVE  Consent'
<1>1. SameJobs
  BY TInvParts DEF SameJobs, Refuse, Goto, Plan, JobsInv, JobsOK, Job
<1>2. SameTasks /\ \A r \in Runs : saved'[r].ok = saved[r].ok
  BY DEF SameTasks, Refuse
<1> QED
  BY <1>1, <1>2, ConsentSame

LEMMA SetupConsent ==
  ASSUME TInv, [Next]_vars, Consent, Gated, NEW j \in Jobs, pc[j] # "idle", Setup(j)
  PROVE  Consent'
<1> DEFINE s == saved[R(j)]
           n == job[j].node
<1>1. /\ UNCHANGED task /\ 1 \in 1..Done /\ 1 \in 0..Done /\ GateNode \in Nat
      /\ OptionalNodes \subseteq Nodes
  BY RuntimeAssumption DEF Setup, Done, Nodes
<1>2. /\ job[j] \in Job /\ R(j) \in Runs /\ s \in Saved /\ s.next \in 0..Done
      /\ n \in 0..LastNode
      /\ job[j].action \in {"rerun", "skip"} => n \in Nodes
      /\ job[j].action = "skip" => n \in OptionalNodes
  BY TInvParts, JobTyped DEF Saved, Job, Consent, SkipsOptional
<1>3. \A m \in 1..Done : m > GateNode /\ s.ok[m] = "yes" => approval[R(j)] = "approved"
  BY <1>2 DEF Consent, ConsentSaved
<1> HIDE DEF s
<1>4. CASE job[j].action = "start"
  <2>1. EnterStart(j, s)
    BY <1>4 DEF Setup, s
  <2>2. CASE s.next = 0
    <3> DEFINE t == [s EXCEPT !.next = 1, !.ok[1] = "yes"]
    <3>1. t \in Saved
      BY <1>1, <1>2, SavedRow DEF Flag
    <3>2. \A m \in 1..Done : m # 1 => t.ok[m] = s.ok[m]
      BY <1>2 DEF Saved
    <3>3. Enter(j, t, 1)
      BY <2>1, <2>2 DEF EnterStart
    <3> HIDE DEF t
    <3>4. \A m \in 1..Done :
            m > GateNode /\ t.ok[m] = "yes" => approval[R(j)] = "approved"
      BY <1>1, <1>3, <3>2 DEF Gated
    <3> QED
      BY <1>1, <3>1, <3>3, <3>4, EnterLearns
  <2>3. CASE s.next # 0
    BY <1>1, <1>2, <1>3, <2>1, <2>3, EnterLearns DEF EnterStart
  <2> QED
    BY <2>2, <2>3
<1>5. CASE job[j].action \in {"resume", "retry"}
  <2>1. IF s.next = 0 THEN Refuse(j, "hset") ELSE Enter(j, s, s.next)
    BY <1>5 DEF Setup, s
  <2> QED
    BY <1>1, <1>2, <1>3, <2>1, EnterLearns, RefuseConsent
<1>6. CASE job[j].action = "rerun"
  <2>1. IF s.ok[n] = "unsaved" THEN Refuse(j, "hset") ELSE Enter(j, s, n)
    BY <1>6 DEF Setup, s
  <2>2. n \in 1..Done
    BY <1>2, <1>6, RuntimeAssumption DEF Nodes, Done
  <2> QED
    BY <1>1, <1>2, <1>3, <2>1, <2>2, EnterLearns, RefuseConsent
<1>7. CASE job[j].action = "skip"
  <2> DEFINE t == [s EXCEPT !.next = n + 1, !.ok[n + 1] = s.ok[n], !.interrupted = FALSE]
  <2>1. n \in 1..Done /\ n + 1 \in 1..Done /\ n + 1 \in 0..Done /\ n # GateNode /\ n \in Nat
    BY <1>1, <1>2, <1>7, RuntimeAssumption DEF Nodes, Done, Gated
  <2>2. IF s.next # n THEN Refuse(j, "hset") ELSE Enter(j, t, n + 1)
    BY <1>7 DEF Setup, s
  <2>3. s.ok[n] \in Flag
    BY <1>2, <2>1 DEF Saved
  <2>4. t \in Saved
    BY <1>2, <2>1, <2>3, SavedRow
  <2>5. t.ok[n + 1] = s.ok[n] /\ \A m \in 1..Done : m # n + 1 => t.ok[m] = s.ok[m]
    BY <1>2, <2>1 DEF Saved
  <2> HIDE DEF t
  <2>6. \A m \in 1..Done :
          m > GateNode /\ t.ok[m] = "yes" => approval[R(j)] = "approved"
    <3> SUFFICES ASSUME NEW m \in 1..Done, m > GateNode, t.ok[m] = "yes"
                 PROVE  approval[R(j)] = "approved"
      OBVIOUS
    <3>1. CASE m = n + 1
      <4>1. n > GateNode /\ s.ok[n] = "yes"
        BY <1>1, <2>1, <2>5, <3>1
      <4> QED
        BY <1>3, <2>1, <4>1
    <3>2. CASE m # n + 1
      BY <1>3, <2>5, <3>2
    <3> QED
      BY <3>1, <3>2
  <2> QED
    BY <1>1, <2>1, <2>2, <2>4, <2>6, EnterLearns, RefuseConsent
<1> QED
  BY <1>2, <1>4, <1>5, <1>6, <1>7 DEF Job, Actions

\* A step of the graph passes its answer on, and only the gate has one of its own.
LEMMA StepEndsConsent ==
  ASSUME TInv, [Next]_vars, Consent, NEW j \in Jobs, NEW f \in Flag,
         pc[j] \in {"node", "acted"}, StepEnds(j, f), UNCHANGED task,
         pc' = [pc EXCEPT ![j] = "boundary"],
         \/ f = job[j].ok /\ job[j].at # GateNode
         \/ f = "yes" => approval[R(j)] = "approved"
  PROVE  Consent'
<1> DEFINE n == job[j].at + 1
           s == [next |-> n, ok |-> [saved[R(j)].ok EXCEPT ![n] = f], interrupted |-> FALSE]
<1>1. /\ pc[j] # "idle" /\ job[j] \in Job /\ R(j) \in Runs /\ saved[R(j)] \in Saved
      /\ job[j].at \in 0..Done /\ job[j].at # Done /\ GateNode \in Nat
      /\ run[R(j)] \in RunRow
  BY TInvParts, JobTyped, RuntimeAssumption DEF Job
<1>2. n \in 1..Done /\ n \in 0..Done /\ job[j].at \in Nat
  BY <1>1, RuntimeAssumption DEF Done
<1>3. PICK d : /\ d \in IF run[R(j)].control = "none" THEN {job[j].drain}
                        ELSE DrainRequested(job[j].drain, run[R(j)].control)
               /\ job' = [job EXCEPT ![j].at = n, ![j].ok = f, ![j].drain = d]
  BY DEF StepEnds
<1>4. d \in Drain
  BY <1>1, <1>3 DEF DrainRequested, RunRow, Control, Drain, Job
<1>5. f = "yes" /\ n > GateNode => approval[R(j)] = "approved"
  <2>1. CASE f = job[j].ok /\ job[j].at # GateNode
    <3>1. n > GateNode => job[j].at > GateNode
      BY <1>1, <1>2, <2>1
    <3> QED
      BY <1>1, <2>1, <3>1 DEF Consent, ConsentHeld
  <2> QED
    BY <2>1
<1>6. saved' = [saved EXCEPT ![R(j)] = s]
  BY DEF StepEnds
<1> DEFINE y == [job[j] EXCEPT !.at = n, !.ok = f, !.drain = d]
<1>7. job' = [job EXCEPT ![j] = y]
  BY <1>3
<1> HIDE DEF n
<1>8. /\ y \in Job /\ y.run = job[j].run /\ y.action = job[j].action
      /\ y.node = job[j].node /\ y.at = n /\ y.ok = f
  BY <1>1, <1>2, <1>4 DEF Job
<1>9. s \in Saved /\ s.ok[n] = f /\ \A m \in 1..Done : m # n => s.ok[m] = saved[R(j)].ok[m]
  <2>1. s \in Saved
    BY <1>1, <1>2, SavedRow
  <2>2. saved[R(j)].ok \in [1..Done -> Flag]
    BY <1>1 DEF Saved
  <2> QED
    BY <1>2, <2>1, <2>2
<1> HIDE DEF s, y
<1>10. \A m \in 1..Done :
         m > GateNode /\ s.ok[m] = "yes" => approval[R(j)] = "approved"
  BY <1>1, <1>5, <1>9 DEF Consent, ConsentSaved
<1> QED
  BY <1>1, <1>5, <1>6, <1>7, <1>8, <1>9, <1>10, Learns

LEMMA JobConsent ==
  ASSUME TInv, [Next]_vars, Consent, Gated, NEW j \in Jobs, JobStep(j)
  PROVE  Consent'
<1>1. /\ pc[j] # "idle" /\ R(j) \in Runs /\ job[j] \in Job /\ job[j].ok \in Flag
      /\ pc \in [Jobs -> Busy \cup {"idle"}] /\ job \in [Jobs -> Job \cup {NoJob}]
      /\ saved \in [Runs -> Saved] /\ task \in [Runs -> TaskRow]
  BY TInvParts, JobTyped DEF JobStep, Job, JobsInv, JobsOK, TasksOK
<1>2. ASSUME UNCHANGED <<job, saved>>, NEW to \in Busy \ {"acted"},
             pc' = [pc EXCEPT ![j] = to], UNCHANGED task \/ SameTasks
      PROVE  Consent'
  BY <1>1, <1>2, ConsentSame DEF SameJobs, SameTasks
<1>3. ASSUME UNCHANGED saved, NEW to \in Busy \ {"acted"}, pc' = [pc EXCEPT ![j] = to],
             NEW target, NEW ending, Plan(j, target, ending), UNCHANGED task
      PROVE  Consent'
  <2>1. SameJobs
    BY <1>1, <1>3 DEF SameJobs, Plan, Job
  <2> QED
    BY <1>3, <2>1, ConsentSame DEF SameTasks
<1>4. ASSUME NEW how, Settle(j, how), how \in Endings
      PROVE  SameTasks
  <2>1. task[R(j)] \in TaskRow
    BY <1>1
  <2>2. Owns(j) => task[R(j)].attempt > 0
    BY <1>1, TInvParts DEF Owns, TasksOK, ClaimsCounted
  <2> QED
    BY <1>1, <1>4, <2>1, <2>2, SettledRow DEF SameTasks, Settle
<1>5. ASSUME Leave(j), UNCHANGED saved, SameTasks
      PROVE  Consent'
  <2>1. SameJobs
    BY <1>1, <1>5 DEF SameJobs, Leave
  <2> QED
    BY <1>5, <2>1, ConsentSame
<1>6. {"hset", "hend", "fset", "start", "setup", "boundary", "node", "judge", "set", "end"}
        \subseteq Busy \ {"acted"}
  BY DEF Busy, Before, Try, Handler, Rescue
<1>7. CASE Load(j)
  BY <1>2, <1>3, <1>6, <1>7 DEF Load, Goto, rows
<1>8. CASE Start(j)
  BY <1>2, <1>3, <1>6, <1>8 DEF Start, Goto
<1>9. CASE Setup(j)
  BY <1>1, <1>9, SetupConsent
<1>10. CASE Proceed(j) \/ StreamEnds(j)
  BY <1>2, <1>6, <1>10 DEF Proceed, StreamEnds, Goto, rows
<1>11. CASE Drained(j)
  BY <1>3, <1>6, <1>11 DEF Drained, Goto, rows
<1>12. CASE Work(j)
  BY <1>1, <1>12, StepEndsConsent DEF Work, Goto, AtGate
<1>13. CASE Ask(j)
  <2>1. SameJobs
    BY <1>1, <1>6, <1>13 DEF SameJobs, Ask, Goto
  <2>2. \A r \in Runs : saved'[r].ok = saved[r].ok
    BY <1>1, <1>13 DEF Ask, Saved
  <2> QED
    BY <1>13, <2>1, <2>2, ConsentSame DEF Ask, SameTasks
<1>14. CASE Answered(j)
  <2>1. (IF approval[R(j)] = "approved" THEN "yes" ELSE "no") \in Flag
    BY DEF Flag
  <2> QED
    BY <1>1, <1>14, <2>1, StepEndsConsent DEF Answered, Goto
<1>15. CASE Act(j)
  <2>1. SameJobs
    BY <1>1, <1>15 DEF SameJobs, Act, AtEffect, Goto, jobs
  <2> QED
    BY <1>15, <2>1, ConsentSame DEF Act, SameTasks, rows
<1>16. CASE Acted(j)
  <2>1. job[j].at # GateNode
    BY <1>16, RuntimeAssumption DEF Acted, Goto, Consent, EffectActs, Gated
  <2> QED
    BY <1>1, <1>16, <2>1, StepEndsConsent DEF Acted, Goto
<1>17. CASE Judge(j)
  BY <1>3, <1>6, <1>17 DEF Judge, Goto, rows
<1>18. CASE Set(j)
  BY <1>2, <1>6, <1>18 DEF Set, Goto
<1>19. CASE End(j)
  <2>1. job[j].ending \in Endings
    BY <1>1 DEF Job
  <2> QED
    BY <1>4, <1>5, <1>19, <2>1 DEF End
<1>20. CASE RescueEnd(j)
  BY <1>2, <1>4, <1>6, <1>20 DEF RescueEnd, Goto, Endings
<1>21. CASE RescueSet(j)
  BY <1>5, <1>21 DEF RescueSet, SameTasks
<1> QED
  BY <1>7, <1>8, <1>9, <1>10, <1>11, <1>12, <1>13, <1>14, <1>15, <1>16, <1>17, <1>18,
     <1>19, <1>20, <1>21 DEF JobStep

\* The other loops of the workers teach a job nothing.
LEMMA OtherConsent ==
  ASSUME TInv, [Next]_vars, Consent, UNCHANGED saved, SameTasks, SameJobs
  PROVE  Consent'
BY ConsentSame

LEMMA CancelJobSame ==
  ASSUME TInv, NEW j \in Jobs, NEW reason, CancelJob(j, reason)
  PROVE  SameJobs
<1>1. JobsInv
  BY TInvParts
<1>2. CASE Leave(j)
  BY <1>1, <1>2 DEF SameJobs, Leave, JobsInv, JobsOK
<1>3. CASE pc[j] \in Try /\ pc' = [pc EXCEPT ![j] = "hset"]
           /\ job' = [job EXCEPT ![j].reason = reason,
                        ![j].target = IF reason = "cancel" THEN "cancelled" ELSE "pending",
                        ![j].ending = IF reason = "cancel" THEN "cancelled" ELSE "refund"]
  <2>1. pc[j] # "idle" /\ job[j] \in Job
    BY <1>1, <1>3, JobTyped DEF Try
  <2> QED
    BY <1>1, <1>3, <2>1 DEF SameJobs, JobsInv, JobsOK, Job
<1> QED
  BY <1>2, <1>3 DEF CancelJob

LEMMA ErrorConsent ==
  ASSUME TInv, [Next]_vars, Consent, NEW j \in Jobs,
         NodeFails(j) \/ Fault(j) \/ Heartbeat(j) \/ GraceEnds(j)
  PROVE  Consent'
<1>1. JobsInv /\ task \in [Runs -> TaskRow]
  BY TInvParts DEF TasksOK
<1>2. ASSUME pc[j] # "idle", pc' = [pc EXCEPT ![j] = "hset"], NEW target, NEW ending,
             Plan(j, target, ending)
      PROVE  SameJobs
  <2>1. job[j] \in Job
    BY <1>1, <1>2, JobTyped
  <2> QED
    BY <1>1, <1>2, <2>1 DEF SameJobs, Plan, JobsInv, JobsOK, Job
<1>3. CASE NodeFails(j)
  <2>1. SameJobs
    BY <1>2, <1>3 DEF NodeFails, RetryOrFail
  <2> QED
    BY <1>3, <2>1, OtherConsent DEF NodeFails, SameTasks, rows
<1>4. CASE Fault(j)
  <2>1. CASE pc[j] \in {"judge", "set", "end"}
    <3>1. SameJobs
      BY <1>2, <1>4, <2>1 DEF Fault, RetryOrFail, Before, Handler, Rescue
    <3> QED
      BY <1>4, <3>1, OtherConsent DEF Fault, SameTasks, rows
  <2>2. CASE pc[j] \in Before \cup Handler
    <3>1. pc[j] # "idle" /\ pc' = [pc EXCEPT ![j] = "fend"] /\ UNCHANGED job
      BY <1>4, <2>2 DEF Fault, Before, Handler, Rescue
    <3>2. SameJobs
      BY <1>1, <3>1 DEF SameJobs, JobsInv, JobsOK
    <3> QED
      BY <1>4, <3>2, OtherConsent DEF Fault, SameTasks, rows
  <2>3. CASE pc[j] \in Rescue
    <3>1. Leave(j)
      BY <1>4, <2>3 DEF Fault, Before, Handler, Rescue
    <3>2. SameJobs
      BY <1>1, <3>1 DEF SameJobs, Leave, JobsInv, JobsOK
    <3> QED
      BY <1>4, <3>2, OtherConsent DEF Fault, SameTasks, rows
  <2> QED
    BY <1>4, <2>1, <2>2, <2>3 DEF Fault
<1>5. CASE Heartbeat(j)
  <2>1. SameTasks /\ UNCHANGED saved
    BY <1>1, <1>5 DEF Heartbeat, SameTasks, TaskRow
  <2>2. pc[j] # "idle" /\ job[j] \in Job
    BY <1>1, <1>5, JobTyped DEF Heartbeat, JobsInv, JobsOK
  <2>3. CASE \E reason \in Reasons : CancelJob(j, reason)
    BY <2>1, <2>3, CancelJobSame, OtherConsent
  <2>4. CASE UNCHANGED pc /\ (UNCHANGED job \/ \E d \in Drain : job' = [job EXCEPT ![j].drain = d])
    <3>1. SameJobs
      BY <1>1, <2>2, <2>4 DEF SameJobs, JobsInv, JobsOK, Job
    <3> QED
      BY <2>1, <3>1, OtherConsent
  <2>5. DrainRequested(job[j].drain, "pause") \subseteq Drain
    BY <2>2 DEF DrainRequested, Drain, Job
  <2> QED
    BY <1>5, <2>3, <2>4, <2>5 DEF Heartbeat, Reasons, jobs
<1>6. CASE GraceEnds(j)
  BY <1>6, CancelJobSame, OtherConsent DEF GraceEnds, SameTasks, rows
<1> QED
  BY <1>3, <1>4, <1>5, <1>6

LEMMA WorkerConsent ==
  ASSUME TInv, [Next]_vars, Consent, NEW w \in Workers, WorkerStep(w)
  PROVE  Consent'
<1>1. JobsInv /\ TasksOK
  BY TInvParts
<1>2. ASSUME NEW r \in Runs, Reap(w, r)
      PROVE  Consent'
  <2>1. SameTasks
    BY <1>1, <1>2, SettledRow
       DEF SameTasks, Reap, Reapable, Endings, TasksOK, ClaimsCounted
  <2> QED
    BY <1>2, <2>1, OtherConsent DEF Reap, SameJobs, jobs
<1>3. CASE ReapSet(w) \/ ReaperFault(w)
  BY <1>3, OtherConsent DEF ReapSet, ReaperFault, SameJobs, SameTasks, jobs, rows
<1>4. CASE Shutdown(w)
  <2>1. \A j \in Jobs : pc[j] # "idle" => job[j] \in Job
    BY <1>1 DEF JobsInv, JobsOK
  <2>2. SameJobs
    BY <1>4, <2>1 DEF Shutdown, SameJobs, Job
  <2> QED
    BY <1>4, <2>2, OtherConsent DEF Shutdown, SameTasks, rows
<1>5. CASE Stopped(w) \/ Crash(w)
  <2>1. SameJobs
    BY <1>5 DEF Stopped, Crash, Gone, SameJobs
  <2> QED
    BY <1>5, <2>1, OtherConsent DEF Stopped, Crash, SameTasks, rows
<1> QED
  BY <1>2, <1>3, <1>4, <1>5 DEF WorkerStep

LEMMA ConsentStep == Gated /\ TInv /\ Consent /\ [Next]_vars => Consent'
<1> SUFFICES ASSUME Gated, TInv, Consent, [Next]_vars PROVE Consent'
  OBVIOUS
<1>1. ASSUME NEW r \in Runs, UserStep(r)
      PROVE  Consent'
  BY <1>1, UserConsent
<1>2. ASSUME NEW r \in Runs, LeaseExpires(r)
      PROVE  Consent'
  BY <1>2, OtherConsent, TInvParts
     DEF LeaseExpires, SameTasks, SameJobs, jobs, TasksOK, TaskRow
<1>3. ASSUME NEW j \in Jobs, NEW r \in Runs, Claim(j, r)
      PROVE  Consent'
  BY <1>3, ClaimConsent
<1>4. ASSUME NEW j \in Jobs, JobStep(j)
      PROVE  Consent'
  BY <1>4, JobConsent
<1>5. ASSUME NEW j \in Jobs, NodeFails(j) \/ Fault(j) \/ Heartbeat(j) \/ GraceEnds(j)
      PROVE  Consent'
  BY <1>5, ErrorConsent
<1>6. ASSUME NEW w \in Workers, WorkerStep(w)
      PROVE  Consent'
  BY <1>6, WorkerConsent
<1>7. CASE UNCHANGED vars
  BY <1>7, OtherConsent DEF vars, SameTasks, SameJobs
<1> QED
  BY <1>1, <1>2, <1>3, <1>4, <1>5, <1>6, <1>7 DEF Next

LEMMA ConsentInit == Init => Consent
<1> SUFFICES ASSUME Init PROVE Consent
  OBVIOUS
<1>1. ConsentSaved
  <2>1. \A r \in Runs : \A n \in 1..Done : saved[r].ok[n] = "unsaved"
    BY DEF Init
  <2> QED
    BY <2>1 DEF ConsentSaved
<1>2. ConsentHeld /\ EffectActs
  BY DEF Init, ConsentHeld, EffectActs
<1>3. SkipsOptional
  BY DEF Init, SkipsOptional
<1> QED
  BY <1>1, <1>2, <1>3 DEF Consent

\* Only the step of the effect acts.
LEMMA OnlyActActs ==
  ASSUME TInv, [Next]_vars, NEW j \in Jobs, pc[j] = "node", pc'[j] = "acted"
  PROVE  AtEffect(j)
<1>1. pc \in [Jobs -> Busy \cup {"idle"}] /\ pc' # pc
  BY TInvParts DEF JobsInv, JobsOK
<1>2. ASSUME NEW k \in Jobs, NEW to, to # "acted", pc' = [pc EXCEPT ![k] = to]
      PROVE  FALSE
  BY <1>1, <1>2
<1>3. ASSUME NEW k \in Jobs, NEW reason, CancelJob(k, reason)
      PROVE  FALSE
  BY <1>2, <1>3 DEF CancelJob, Leave
<1>4. ASSUME NEW k \in Jobs, JobStep(k)
      PROVE  AtEffect(j)
  <2>1. CASE Act(k)
    <3>1. k = j
      BY <1>1, <2>1 DEF Act, Goto
    <3> QED
      BY <2>1, <3>1 DEF Act
  <2>2. CASE Setup(k)
    <3>1. job[k].action \in Actions
      BY <1>4, TInvParts, JobTyped DEF JobStep, Job
    <3> QED
      BY <1>2, <2>2, <3>1 DEF Setup, EnterStart, Enter, Refuse, Goto, Actions
  <2> QED
    BY <1>2, <1>4, <2>1, <2>2
       DEF JobStep, Load, Start, Proceed, StreamEnds, Drained, Work, Ask, Answered, Acted,
           Judge, Set, End, RescueEnd, RescueSet, Goto, Leave
<1>5. ASSUME NEW k \in Jobs, NEW r \in Runs, Claim(k, r)
      PROVE  FALSE
  BY <1>2, <1>5 DEF Claim
<1>6. ASSUME NEW k \in Jobs, NodeFails(k) \/ Fault(k)
      PROVE  FALSE
  BY <1>2, <1>6 DEF NodeFails, Fault, Leave
<1>7. ASSUME NEW k \in Jobs, Heartbeat(k) \/ GraceEnds(k)
      PROVE  FALSE
  BY <1>1, <1>3, <1>7 DEF Heartbeat, GraceEnds, jobs
<1>8. ASSUME NEW r \in Runs, UserStep(r) \/ LeaseExpires(r)
      PROVE  FALSE
  BY <1>1, <1>8
     DEF UserStep, StartRun, Pause, Resume, Cancel, Retry, Rerun, Skip, ChangeSteps, Decide,
         DecideFromChat, LeaseExpires, jobs
<1>9. ASSUME NEW w \in Workers, WorkerStep(w)
      PROVE  FALSE
  <2>1. ~(pc' = [k \in Jobs |-> IF Host(k) = w THEN "idle" ELSE pc[k]])
    <3> SUFFICES ASSUME pc' = [k \in Jobs |-> IF Host(k) = w THEN "idle" ELSE pc[k]]
                 PROVE  FALSE
      OBVIOUS
    <3>1. pc'[j] = IF Host(j) = w THEN "idle" ELSE pc[j]
      OBVIOUS
    <3> QED
      BY <3>1
  <2> QED
    BY <1>1, <1>9, <2>1
       DEF WorkerStep, Reap, ReapSet, ReaperFault, Shutdown, Stopped, Crash, Gone, jobs
<1> QED
  BY <1>1, <1>4, <1>5, <1>6, <1>7, <1>8, <1>9 DEF Next, vars

\* The gated step acts only for a user who approved: in every interleaving of
\* pauses, retries, reruns, crashes and workers that lost their lease.
THEOREM EffectsApproved == ASSUME Gated PROVE Spec => EffectNeedsApproval
<1>1. TInv /\ Consent /\ [Next]_vars =>
        [\A j \in Jobs : pc[j] = "node" /\ pc'[j] = "acted"
           => approval[R(j)] = "approved"]_vars
  <2> SUFFICES ASSUME TInv, Consent, [Next]_vars, NEW j \in Jobs,
                      pc[j] = "node", pc'[j] = "acted"
               PROVE  approval[R(j)] = "approved"
    OBVIOUS
  <2>1. AtEffect(j)
    BY OnlyActActs
  <2> QED
    BY <2>1, RuntimeAssumption DEF AtEffect, Gated, Consent, ConsentHeld
<1> QED
  BY <1>1, InitTyped, StepTyped, ConsentInit, ConsentStep, PTL DEF Spec, EffectNeedsApproval

-----------------------------------------------------------------------------
(* Mutual exclusion: as long as every worker that is alive keeps up with its *)
(* heartbeats, whatever crashes, faults, shutdowns and requests come between *)
(* two transactions                                                          *)

\* A lease runs out only when nobody is left to extend it.
LeasesAreKept == "lease" \notin Failures

\* A job that has not ended its task yet.
Holding(j) == pc[j] \in Busy \ {"fset"}

\* Such a job owns the task, and its worker knows it and extends the lease.
HoldersOwn ==
  \A j \in Jobs :
    Holding(j) => Owns(j) /\ j \in registered /\ ~task[R(j)].expired

HoldersAlone == \A j, k \in Jobs : Holding(j) /\ Holding(k) /\ R(j) = R(k) => j = k

\* Ids grow, and the task that the last-resort handler ended stays ended.
JobsOlder == \A j \in Jobs : pc[j] # "idle" => job[j].tid <= task[R(j)].id

RescuedEnded ==
  \A j \in Jobs :
    pc[j] = "fset" /\ job[j].tid = task[R(j)].id => ~HasActiveTask(R(j))

Leases == HoldersOwn /\ HoldersAlone /\ JobsOlder /\ RescuedEnded

\* Every job is at rest, holds its task, or is about to leave.
LEMMA JobIsPlaced ==
  ASSUME TInv, NEW j \in Jobs
  PROVE  /\ pc[j] = "idle" \/ Holding(j) \/ pc[j] = "fset"
         /\ pc[j] # "idle" => R(j) \in Runs /\ job[j] \in Job
         /\ task \in [Runs -> TaskRow]
         /\ pc \in [Jobs -> Busy \cup {"idle"}] /\ job \in [Jobs -> Job \cup {NoJob}]
BY TInvParts, JobTyped DEF JobsInv, JobsOK, Holding, TasksOK

\* A run no one holds may have its task moved on.
LEMMA LeasesTaskMoves ==
  ASSUME TInv, Leases, UNCHANGED jobs, NEW r \in Runs, NEW t \in TaskRow,
         task' = [task EXCEPT ![r] = t],
         \A j \in Jobs : Holding(j) => R(j) # r,
         \/ t.id > task[r].id
         \/ t.id = task[r].id /\ (HasActiveTask(r) \/ t.status \notin {"queued", "running"})
  PROVE  Leases'
<1>1. task \in [Runs -> TaskRow] /\ task'[r] = t /\ \A q \in Runs \ {r} : task'[q] = task[q]
  BY TInvParts DEF TasksOK
<1>2. \A j \in Jobs : R(j)' = R(j) /\ (Holding(j)' <=> Holding(j))
                      /\ pc'[j] = pc[j] /\ job'[j] = job[j]
  BY DEF jobs, R, Holding
<1>3. HoldersOwn'
  <2> SUFFICES ASSUME NEW j \in Jobs, Holding(j)
               PROVE  Owns(j)' /\ j \in registered' /\ ~task'[R(j)].expired
    BY <1>2 DEF HoldersOwn
  <2>1. R(j) \in Runs /\ R(j) # r
    BY JobIsPlaced DEF Holding, Busy, Before, Try, Handler, Rescue
  <2> QED
    BY <1>1, <1>2, <2>1 DEF Leases, HoldersOwn, Owns, jobs
<1>4. HoldersAlone'
  BY <1>2 DEF Leases, HoldersAlone
<1>5. ASSUME NEW j \in Jobs, pc[j] # "idle"
      PROVE  R(j) \in Runs /\ job[j].tid \in Nat /\ t.id \in Nat /\ task[R(j)].id \in Nat
  BY <1>1, <1>5, JobIsPlaced DEF Job, TaskRow
<1>6. JobsOlder'
  <2> SUFFICES ASSUME NEW j \in Jobs, pc[j] # "idle"
               PROVE  job[j].tid <= task'[R(j)].id
    BY <1>2 DEF JobsOlder
  <2>1. job[j].tid <= task[R(j)].id
    BY DEF Leases, JobsOlder
  <2>2. CASE R(j) = r
    BY <1>1, <1>5, <2>1, <2>2
  <2>3. CASE R(j) # r
    BY <1>1, <1>5, <2>1, <2>3
  <2> QED
    BY <2>2, <2>3
<1>7. RescuedEnded'
  <2> SUFFICES ASSUME NEW j \in Jobs, pc[j] = "fset", job[j].tid = task'[R(j)].id
               PROVE  task'[R(j)].status \notin {"queued", "running"}
    BY <1>2 DEF RescuedEnded, HasActiveTask
  <2>1. job[j].tid <= task[R(j)].id
    BY DEF Leases, JobsOlder
  <2>2. CASE R(j) = r
    <3>1. t.id = task[r].id
      BY <1>1, <1>5, <2>1, <2>2
    <3> QED
      BY <1>1, <1>5, <2>2, <3>1 DEF Leases, RescuedEnded, HasActiveTask
  <2>3. CASE R(j) # r
    BY <1>1, <1>5, <2>3 DEF Leases, RescuedEnded, HasActiveTask
  <2> QED
    BY <2>2, <2>3
<1> QED
  BY <1>3, <1>4, <1>6, <1>7 DEF Leases

\* A task nobody runs has no holder.
LEMMA NobodyHolds ==
  ASSUME Leases, NEW r \in Runs, task[r].status # "running" \/ task[r].expired
  PROVE  \A j \in Jobs : Holding(j) => R(j) # r
BY DEF Leases, HoldersOwn, Owns

LEMMA LeasesSame ==
  ASSUME Leases, UNCHANGED <<task, jobs>>
  PROVE  Leases'
BY DEF Leases, HoldersOwn, HoldersAlone, JobsOlder, RescuedEnded, Holding, Owns, R,
       HasActiveTask, jobs

\* A job that goes on and keeps its run and its task.
LEMMA LeasesGoOn ==
  ASSUME TInv, Leases, NEW j \in Jobs, NEW to \in Busy, Holding(j),
         pc' = [pc EXCEPT ![j] = to], to # "fset",
         job'[j].run = job[j].run, job'[j].tid = job[j].tid,
         \A k \in Jobs \ {j} : job'[k] = job[k],
         UNCHANGED <<task, registered>>
  PROVE  Leases'
<1>1. pc \in [Jobs -> Busy \cup {"idle"}] /\ "idle" \notin Busy
  BY JobIsPlaced DEF Busy, Before, Try, Handler, Rescue
<1>2. \A k \in Jobs : /\ R(k)' = R(k) /\ job'[k].tid = job[k].tid
                      /\ Holding(k)' <=> Holding(k)
                      /\ pc'[k] # "idle" <=> pc[k] # "idle"
                      /\ pc'[k] = "fset" <=> pc[k] = "fset"
  BY <1>1 DEF R, Holding
<1> QED
  BY <1>2 DEF Leases, HoldersOwn, HoldersAlone, JobsOlder, RescuedEnded, Owns, HasActiveTask

\* A job that leaves takes no other entry of its worker with it.
LEMMA LeasesLeave ==
  ASSUME TInv, Leases, NEW j \in Jobs, pc[j] # "idle", Leave(j), UNCHANGED task
  PROVE  Leases'
<1>1. pc \in [Jobs -> Busy \cup {"idle"}] /\ "idle" \notin Busy
      /\ job \in [Jobs -> Job \cup {NoJob}]
  BY JobIsPlaced DEF Busy, Before, Try, Handler, Rescue
<1>2. \A k \in Jobs : Holding(k)' => k # j /\ Holding(k)
  BY <1>1 DEF Leave, Holding
<1>3. \A k \in Jobs \ {j} : R(k)' = R(k) /\ job'[k] = job[k] /\ pc'[k] = pc[k]
  BY <1>1 DEF Leave, R
<1>4. pc'[j] = "idle"
  BY <1>1 DEF Leave
<1>5. ASSUME NEW k \in Jobs, Holding(k), k # j
      PROVE  k \notin SameEntry(Host(j), R(j), job[j].tid)
  <2> SUFFICES ASSUME k \in SameEntry(Host(j), R(j), job[j].tid) PROVE FALSE
    OBVIOUS
  <2>1. R(k) = R(j) /\ job[k].tid = job[j].tid
    BY DEF SameEntry, R
  <2>2. Owns(k)
    BY <1>5 DEF Leases, HoldersOwn
  <2>3. CASE Holding(j)
    BY <1>5, <2>1, <2>3 DEF Leases, HoldersAlone
  <2>4. CASE pc[j] = "fset"
    BY <2>1, <2>2, <2>4 DEF Leases, RescuedEnded, Owns, HasActiveTask
  <2> QED
    BY <2>3, <2>4, JobIsPlaced
<1>6. HoldersOwn'
  <2> SUFFICES ASSUME NEW k \in Jobs, Holding(k), k # j
               PROVE  Owns(k)' /\ k \in registered' /\ ~task'[R(k)'].expired
    BY <1>2 DEF HoldersOwn
  <2> QED
    BY <1>3, <1>5 DEF Leases, HoldersOwn, Owns, Leave
<1>7. HoldersAlone'
  BY <1>2, <1>3 DEF Leases, HoldersAlone
<1>8. JobsOlder' /\ RescuedEnded'
  BY <1>3, <1>4 DEF Leases, JobsOlder, RescuedEnded, HasActiveTask
<1> QED
  BY <1>6, <1>7, <1>8 DEF Leases

LEMMA UserLeases ==
  ASSUME TInv, Leases, NEW r \in Runs, UserStep(r)
  PROVE  Leases'
<1>1. UNCHANGED jobs
  BY DEF UserStep, StartRun, Pause, Resume, Cancel, Retry, Rerun, Skip, ChangeSteps,
         Decide, DecideFromChat
<1>2. task[r] \in TaskRow /\ task \in [Runs -> TaskRow]
  BY TInvParts DEF TasksOK
<1>3. ASSUME NEW action \in Actions, NEW node \in 0..LastNode, Enqueue(r, action, node)
      PROVE  Leases'
  <2> DEFINE t == [id |-> task[r].id + 1, action |-> action, node |-> node,
                   status |-> "queued", owner |-> NoWorker, attempt |-> 0,
                   expired |-> FALSE]
  <2>1. t \in TaskRow /\ t.id > task[r].id
    BY <1>2 DEF TaskRow, TaskStatus
  <2>2. task' = [task EXCEPT ![r] = t] /\ task[r].status # "running"
    BY <1>3 DEF Enqueue, HasActiveTask
  <2> HIDE DEF t
  <2> QED
    BY <1>1, <2>1, <2>2, NobodyHolds, LeasesTaskMoves
<1>4. CASE CancelQueued(r)
  <2>1. CASE task[r].status = "queued"
    <3> DEFINE t == [task[r] EXCEPT !.status = "cancelled"]
    <3>1. t \in TaskRow /\ t.id = task[r].id /\ t.status = "cancelled"
      BY <1>2 DEF TaskRow, TaskStatus
    <3>2. task' = [task EXCEPT ![r] = t]
      BY <1>2, <1>4, <2>1 DEF CancelQueued
    <3> HIDE DEF t
    <3> QED
      BY <1>1, <2>1, <3>1, <3>2, NobodyHolds, LeasesTaskMoves
  <2>2. CASE task[r].status # "queued"
    <3>1. UNCHANGED task
      BY <1>2, <1>4, <2>2 DEF CancelQueued, TaskRow
    <3> QED
      BY <1>1, <3>1, LeasesSame
  <2> QED
    BY <2>1, <2>2
<1>5. CASE UNCHANGED task
  BY <1>1, <1>5, LeasesSame
<1>6. 0 \in 0..LastNode /\ Nodes \subseteq 0..LastNode /\ OptionalNodes \subseteq 0..LastNode
  BY RuntimeAssumption DEF Nodes
<1>7. CASE StartRun(r)
  BY <1>3, <1>6, <1>7 DEF StartRun, Actions
<1>8. CASE Resume(r) \/ Retry(r) \/ Decide(r)
  BY <1>3, <1>5, <1>6, <1>8 DEF Resume, Retry, Decide, Actions
<1>9. CASE Rerun(r) \/ Skip(r)
  <2>1. PICK n \in 0..LastNode, a \in {"rerun", "skip"} : Enqueue(r, a, n)
    BY <1>6, <1>9 DEF Rerun, Skip, ChangeSteps
  <2> QED
    BY <1>3, <2>1 DEF Actions
<1> QED
  BY <1>4, <1>5, <1>7, <1>8, <1>9
     DEF UserStep, Pause, Cancel, CancelNow, CancelLater, DecideFromChat

LEMMA ClaimLeases ==
  ASSUME TInv, Leases, NEW j \in Jobs, NEW r \in Runs, Claim(j, r)
  PROVE  Leases'
<1>1. /\ task \in [Runs -> TaskRow] /\ "load" \in Busy /\ "idle" \notin Busy
      /\ pc \in [Jobs -> Busy \cup {"idle"}] /\ job \in [Jobs -> Job \cup {NoJob}]
  BY JobIsPlaced DEF Busy, Before, Try, Handler, Rescue
<1>2. /\ task[r].status = "queued" /\ pc[j] = "idle" /\ pc' = [pc EXCEPT ![j] = "load"]
      /\ task'[r].status = "running" /\ task'[r].owner = Host(j)
      /\ task'[r].id = task[r].id /\ ~task'[r].expired
      /\ \A q \in Runs \ {r} : task'[q] = task[q]
      /\ job'[j].run = r /\ job'[j].tid = task[r].id
      /\ \A k \in Jobs \ {j} : job'[k] = job[k]
      /\ registered' = (registered \ SameEntry(Host(j), r, task[r].id)) \cup {j}
  BY <1>1 DEF Claim, Claimable, TaskRow
<1>3. \A k \in Jobs : Holding(k) => R(k) # r /\ R(k) \in Runs
  BY <1>1, <1>2, NobodyHolds, JobIsPlaced DEF Holding
<1>4. \A k \in Jobs : k # j => /\ R(k)' = R(k) /\ pc'[k] = pc[k]
                               /\ Holding(k)' <=> Holding(k)
  BY <1>1, <1>2 DEF R, Holding
<1>5. R(j)' = r /\ pc'[j] = "load" /\ Holding(j)'
  BY <1>1, <1>2 DEF R, Holding
<1>6. HoldersOwn'
  <2> SUFFICES ASSUME NEW k \in Jobs, Holding(k)'
               PROVE  Owns(k)' /\ k \in registered' /\ ~task'[R(k)'].expired
    BY DEF HoldersOwn
  <2>1. CASE k = j
    BY <1>2, <1>5, <2>1 DEF Owns
  <2>2. CASE k # j
    <3>1. k \notin SameEntry(Host(j), r, task[r].id)
      BY <1>3, <1>4, <2>2 DEF SameEntry, R
    <3> QED
      BY <1>2, <1>3, <1>4, <2>2, <3>1 DEF Leases, HoldersOwn, Owns
  <2> QED
    BY <2>1, <2>2
<1>7. HoldersAlone'
  BY <1>3, <1>4, <1>5 DEF Leases, HoldersAlone
<1>8. \A k \in Jobs : pc'[k] # "idle" /\ k # j => R(k) \in Runs /\ pc[k] # "idle"
  BY <1>4, JobIsPlaced
<1>9. JobsOlder'
  <2>1. task[r].id \in Nat
    BY <1>1 DEF TaskRow
  <2> QED
    BY <1>2, <1>4, <1>5, <1>8, <2>1 DEF Leases, JobsOlder
<1>10. RescuedEnded'
  BY <1>2, <1>4, <1>5, <1>8 DEF Leases, RescuedEnded, HasActiveTask
<1> QED
  BY <1>6, <1>7, <1>9, <1>10 DEF Leases

\* The job ends its task, and leaves or goes on to the last transaction of the
\* last-resort handler.
LEMMA EndLeases ==
  ASSUME TInv, Leases, NEW j \in Jobs, NEW how \in Endings, Holding(j), Settle(j, how),
         \/ Leave(j)
         \/ /\ how = "failed" /\ pc' = [pc EXCEPT ![j] = "fset"]
            /\ UNCHANGED <<job, registered>>
  PROVE  Leases'
<1> DEFINE r == R(j)
<1>1. /\ pc[j] # "idle" /\ r \in Runs /\ Owns(j) /\ "idle" \notin Busy
      /\ task \in [Runs -> TaskRow] /\ task[r].attempt > 0
      /\ pc \in [Jobs -> Busy \cup {"idle"}] /\ job \in [Jobs -> Job \cup {NoJob}]
  BY JobIsPlaced, TInvParts
     DEF Holding, Busy, Before, Try, Handler, Rescue, Leases, HoldersOwn, Owns,
         TasksOK, ClaimsCounted
<1>2. /\ task'[r].id = task[r].id /\ task'[r].status # "running"
      /\ \A q \in Runs \ {r} : task'[q] = task[q]
      /\ how = "failed" => task'[r].status = "failed"
  <2>1. task' = [task EXCEPT ![r] = Settled(task[r], how)]
    BY <1>1 DEF Settle
  <2> QED
    BY <1>1, <2>1, SettledRow
<1>3. \A k \in Jobs : k # j => /\ job'[k] = job[k] /\ R(k)' = R(k) /\ pc'[k] = pc[k]
                               /\ Holding(k)' <=> Holding(k)
  BY <1>1 DEF Leave, R, Holding
<1>4. ~Holding(j)'
  BY <1>1 DEF Leave, Holding
<1>5. \A k \in Jobs : Holding(k) /\ k # j => R(k) # r /\ R(k) \in Runs
  BY JobIsPlaced DEF Leases, HoldersAlone, Holding, Busy, Before, Try, Handler, Rescue
<1>6. HoldersOwn'
  <2> SUFFICES ASSUME NEW k \in Jobs, Holding(k), k # j
               PROVE  Owns(k)' /\ k \in registered' /\ ~task'[R(k)'].expired
    BY <1>3, <1>4 DEF HoldersOwn
  <2>1. k \in registered'
    BY <1>5 DEF Leases, HoldersOwn, Leave, SameEntry, R
  <2> QED
    BY <1>2, <1>3, <1>5, <2>1 DEF Leases, HoldersOwn, Owns
<1>7. HoldersAlone'
  BY <1>3, <1>4 DEF Leases, HoldersAlone
<1>8. \A k \in Jobs : pc'[k] # "idle" => pc[k] # "idle" /\ R(k) \in Runs
                          /\ R(k)' = R(k) /\ job'[k] = job[k]
  BY <1>1, <1>3, JobIsPlaced DEF Leave, R
<1>9. JobsOlder'
  BY <1>1, <1>2, <1>8 DEF Leases, JobsOlder
<1>10. RescuedEnded'
  <2> SUFFICES ASSUME NEW k \in Jobs, pc'[k] = "fset", job[k].tid = task[R(k)].id
               PROVE  ~HasActiveTask(R(k))'
    BY <1>1, <1>2, <1>8 DEF RescuedEnded
  <2>1. CASE k = j
    <3>1. how = "failed"
      BY <1>1, <2>1 DEF Leave
    <3> QED
      BY <1>2, <1>8, <2>1, <3>1 DEF HasActiveTask
  <2>2. CASE k # j
    <3>1. ~HasActiveTask(R(k)) /\ R(k) \in Runs
      BY <1>3, <1>8, <2>2 DEF Leases, RescuedEnded
    <3>2. R(k) # r
      BY <1>1, <3>1 DEF Owns, HasActiveTask
    <3> QED
      BY <1>2, <1>3, <2>2, <3>1, <3>2 DEF HasActiveTask
  <2> QED
    BY <2>1, <2>2
<1> QED
  BY <1>6, <1>7, <1>9, <1>10 DEF Leases

LEMMA JobLeases ==
  ASSUME TInv, Leases, NEW j \in Jobs, JobStep(j)
  PROVE  Leases'
<1>1. /\ pc[j] # "idle" /\ R(j) \in Runs /\ job[j] \in Job /\ job[j].ending \in Endings
      /\ pc \in [Jobs -> Busy \cup {"idle"}] /\ job \in [Jobs -> Job \cup {NoJob}]
  BY JobIsPlaced DEF JobStep, Job
<1>2. {"hset", "hend", "start", "setup", "boundary", "node", "acted", "judge", "set", "end",
       "fend"} \subseteq Busy \ {"fset"}
  BY DEF Busy, Before, Try, Handler, Rescue
<1>3. ASSUME Holding(j), NEW to \in Busy \ {"fset"}, pc' = [pc EXCEPT ![j] = to],
             UNCHANGED <<task, job, registered>>
      PROVE  Leases'
  BY <1>3, LeasesGoOn
<1>4. ASSUME Holding(j), NEW to \in Busy \ {"fset"}, pc' = [pc EXCEPT ![j] = to],
             NEW y, job' = [job EXCEPT ![j] = y], y.run = job[j].run, y.tid = job[j].tid,
             UNCHANGED <<task, registered>>
      PROVE  Leases'
  <2>1. job'[j] = y /\ \A k \in Jobs \ {j} : job'[k] = job[k]
    BY <1>1, <1>4
  <2> QED
    BY <1>4, <2>1, LeasesGoOn
<1>5. ASSUME Holding(j), NEW to \in Busy \ {"fset"}, pc' = [pc EXCEPT ![j] = to],
             NEW target, NEW ending, Plan(j, target, ending), UNCHANGED <<task, registered>>
      PROVE  Leases'
  <2> DEFINE y == [job[j] EXCEPT !.target = target, !.ending = ending]
  <2>1. y.run = job[j].run /\ y.tid = job[j].tid
    BY <1>1 DEF Job
  <2>2. job' = [job EXCEPT ![j] = y]
    BY <1>5 DEF Plan
  <2> HIDE DEF y
  <2> QED
    BY <1>4, <1>5, <2>1, <2>2
<1>6. ASSUME Holding(j), NEW s, NEW n, Enter(j, s, n), UNCHANGED <<task, registered>>
      PROVE  Leases'
  <2> DEFINE y == [job[j] EXCEPT !.at = n, !.ok = s.ok[n]]
  <2>1. y.run = job[j].run /\ y.tid = job[j].tid
    BY <1>1 DEF Job
  <2>2. job' = [job EXCEPT ![j] = y] /\ pc' = [pc EXCEPT ![j] = "boundary"]
    BY <1>6 DEF Enter, Goto
  <2> HIDE DEF y
  <2> QED
    BY <1>2, <1>4, <1>6, <2>1, <2>2
<1>7. ASSUME Holding(j), NEW f, StepEnds(j, f), pc' = [pc EXCEPT ![j] = "boundary"],
             UNCHANGED <<task, registered>>
      PROVE  Leases'
  <2>1. PICK n, d : job' = [job EXCEPT ![j].at = n, ![j].ok = f, ![j].drain = d]
    BY <1>7 DEF StepEnds
  <2> DEFINE y == [job[j] EXCEPT !.at = n, !.ok = f, !.drain = d]
  <2>2. y.run = job[j].run /\ y.tid = job[j].tid
    BY <1>1 DEF Job
  <2>3. job' = [job EXCEPT ![j] = y]
    BY <2>1
  <2> HIDE DEF y
  <2> QED
    BY <1>2, <1>4, <1>7, <2>2, <2>3
<1>8. ASSUME pc[j] # "fset"
      PROVE  Holding(j)
  BY <1>1, <1>8 DEF Holding
<1>9. CASE Load(j)
  BY <1>2, <1>3, <1>5, <1>8, <1>9 DEF Load, Goto, rows
<1>10. CASE Start(j)
  BY <1>2, <1>3, <1>5, <1>8, <1>10 DEF Start, Goto
<1>11. CASE Setup(j)
  <2>1. job[j].action \in Actions
    BY <1>1 DEF Job
  <2>2. (\E s, n : Enter(j, s, n)) \/ Refuse(j, "hset")
    BY <1>11, <2>1 DEF Setup, EnterStart, Actions
  <2>3. Holding(j)
    BY <1>8, <2>2 DEF Enter, Refuse, Goto
  <2> QED
    BY <1>2, <1>5, <1>6, <1>11, <2>2, <2>3 DEF Setup, Refuse, Goto
<1>12. CASE Proceed(j) \/ StreamEnds(j)
  BY <1>2, <1>3, <1>8, <1>12 DEF Proceed, StreamEnds, Goto, rows
<1>13. CASE Drained(j)
  BY <1>2, <1>5, <1>8, <1>13 DEF Drained, Goto, rows
<1>14. CASE Work(j) \/ Answered(j) \/ Acted(j)
  BY <1>7, <1>8, <1>14 DEF Work, Answered, Acted, Goto
<1>15. CASE Ask(j) \/ Act(j)
  BY <1>2, <1>3, <1>8, <1>15 DEF Ask, Act, Goto, rows
<1>16. CASE Judge(j)
  BY <1>2, <1>5, <1>8, <1>16 DEF Judge, Goto, rows
<1>17. CASE Set(j)
  BY <1>2, <1>3, <1>8, <1>17 DEF Set, Goto
<1>18. CASE End(j)
  BY <1>1, <1>8, <1>18, EndLeases DEF End
<1>19. CASE RescueEnd(j)
  BY <1>1, <1>8, <1>19, EndLeases DEF RescueEnd, Goto, Endings
<1>20. CASE RescueSet(j)
  BY <1>1, <1>20, LeasesLeave DEF RescueSet
<1> QED
  BY <1>9, <1>10, <1>11, <1>12, <1>13, <1>14, <1>15, <1>16, <1>17, <1>18, <1>19, <1>20
     DEF JobStep

LEMMA CancelJobLeases ==
  ASSUME TInv, Leases, NEW j \in Jobs, NEW reason, pc[j] # "idle", CancelJob(j, reason),
         UNCHANGED task
  PROVE  Leases'
<1>1. CASE pc[j] \in Try /\ reason # "lease_lost"
  <2>1. Holding(j) /\ "hset" \in Busy
    BY <1>1 DEF Holding, Busy, Try, Handler, Rescue
  <2>2. job[j] \in Job /\ job \in [Jobs -> Job \cup {NoJob}]
    BY JobIsPlaced
  <2>3. /\ pc' = [pc EXCEPT ![j] = "hset"]
        /\ job' = [job EXCEPT ![j].reason = reason,
                     ![j].target = IF reason = "cancel" THEN "cancelled" ELSE "pending",
                     ![j].ending = IF reason = "cancel" THEN "cancelled" ELSE "refund"]
        /\ UNCHANGED registered
    BY <1>1 DEF CancelJob
  <2>4. job'[j].run = job[j].run /\ job'[j].tid = job[j].tid
        /\ \A k \in Jobs \ {j} : job'[k] = job[k]
    BY <2>2, <2>3 DEF Job
  <2> QED
    BY <2>1, <2>3, <2>4, LeasesGoOn
<1>2. CASE ~(pc[j] \in Try /\ reason # "lease_lost")
  BY <1>2, LeasesLeave DEF CancelJob
<1> QED
  BY <1>1, <1>2

LEMMA ErrorLeases ==
  ASSUME TInv, Leases, NEW j \in Jobs, NodeFails(j) \/ Fault(j)
  PROVE  Leases'
<1>1. /\ job \in [Jobs -> Job \cup {NoJob}] /\ pc \in [Jobs -> Busy \cup {"idle"}]
      /\ "hset" \in Busy /\ "fend" \in Busy /\ "idle" \notin Busy
      /\ Before \cup Try \cup Handler \subseteq Busy \ {"fset"} /\ Rescue \subseteq Busy
      /\ {"node", "acted", "judge", "set", "end"} \subseteq Try
  BY JobIsPlaced DEF Busy, Before, Try, Handler, Rescue
<1>2. ASSUME Holding(j), pc' = [pc EXCEPT ![j] = "hset"], NEW target, NEW ending,
             Plan(j, target, ending), UNCHANGED <<task, registered>>
      PROVE  Leases'
  <2>1. job[j] \in Job
    BY <1>1, <1>2, JobIsPlaced DEF Holding
  <2>2. job'[j].run = job[j].run /\ job'[j].tid = job[j].tid
        /\ \A k \in Jobs \ {j} : job'[k] = job[k]
    BY <1>1, <1>2, <2>1 DEF Plan, Job
  <2> QED
    BY <1>1, <1>2, <2>2, LeasesGoOn
<1>3. CASE NodeFails(j)
  <2>1. Holding(j)
    BY <1>1, <1>3 DEF NodeFails, Holding
  <2> QED
    BY <1>2, <1>3, <2>1 DEF NodeFails, RetryOrFail, rows
<1>4. CASE Fault(j)
  <2>1. CASE pc[j] \in {"judge", "set", "end"}
    <3>1. Holding(j)
      BY <1>1, <2>1 DEF Holding
    <3> QED
      BY <1>2, <1>4, <2>1, <3>1 DEF Fault, RetryOrFail, rows, Before, Handler, Rescue
  <2>2. CASE pc[j] \in Before \cup Handler
    <3>1. Holding(j)
      BY <1>1, <2>2 DEF Holding
    <3>2. pc' = [pc EXCEPT ![j] = "fend"] /\ UNCHANGED <<job, registered, task>>
      BY <1>4, <2>2 DEF Fault, rows, Before, Handler, Rescue
    <3> QED
      BY <1>1, <3>1, <3>2, LeasesGoOn
  <2>3. CASE pc[j] \in Rescue
    BY <1>1, <1>4, <2>3, LeasesLeave DEF Fault, rows, Before, Handler, Rescue
  <2> QED
    BY <1>4, <2>1, <2>2, <2>3 DEF Fault
<1> QED
  BY <1>3, <1>4

\* Extending a lease that has not run out changes nothing, and a worker takes
\* a lease for lost only where its job has ended the task already.
LEMMA HeartbeatLeases ==
  ASSUME TInv, Leases, NEW j \in Jobs, Heartbeat(j)
  PROVE  Leases'
<1>1. /\ pc[j] # "idle" /\ R(j) \in Runs /\ job[j] \in Job /\ task \in [Runs -> TaskRow]
      /\ pc \in [Jobs -> Busy \cup {"idle"}] /\ job \in [Jobs -> Job \cup {NoJob}]
  BY TInvParts, JobIsPlaced DEF Heartbeat, JobsInv, JobsOK
<1>2. UNCHANGED task
  <2>1. CASE Owns(j) /\ task' = [task EXCEPT ![R(j)].expired = FALSE]
    <3>1. Holding(j)
      BY <1>1, <2>1, JobIsPlaced DEF Leases, RescuedEnded, Owns, HasActiveTask
    <3>2. task[R(j)].expired = FALSE
      BY <1>1, <3>1 DEF Leases, HoldersOwn, TaskRow
    <3>3. [task[R(j)] EXCEPT !.expired = FALSE] = task[R(j)]
      BY <1>1, <3>2 DEF TaskRow
    <3> QED
      BY <1>1, <2>1, <3>3
  <2> QED
    BY <2>1 DEF Heartbeat
<1>3. CASE UNCHANGED jobs
  BY <1>2, <1>3, LeasesSame
<1>4. CASE \E reason : CancelJob(j, reason)
  BY <1>1, <1>2, <1>4, CancelJobLeases
<1>5. ASSUME NEW d, job' = [job EXCEPT ![j].drain = d], UNCHANGED <<pc, registered>>
      PROVE  Leases'
  <2>1. job'[j].run = job[j].run /\ job'[j].tid = job[j].tid
        /\ \A k \in Jobs \ {j} : job'[k] = job[k]
    BY <1>1, <1>5 DEF Job
  <2>2. \A k \in Jobs : R(k)' = R(k) /\ job'[k].tid = job[k].tid /\ pc'[k] = pc[k]
    BY <1>5, <2>1 DEF R
  <2> QED
    BY <1>2, <1>5, <2>2
       DEF Leases, HoldersOwn, HoldersAlone, JobsOlder, RescuedEnded, Holding, Owns,
           HasActiveTask
<1> QED
  BY <1>3, <1>4, <1>5 DEF Heartbeat

LEMMA LeaseExpiresLeases ==
  ASSUME TInv, Leases, LeasesAreKept, NEW r \in Runs, LeaseExpires(r)
  PROVE  Leases'
<1> DEFINE t == [task[r] EXCEPT !.expired = TRUE]
<1>1. /\ task[r].status = "running" /\ task' = [task EXCEPT ![r] = t] /\ UNCHANGED jobs
      /\ SameEntry(task[r].owner, r, task[r].id) = {}
  BY DEF LeaseExpires, LeasesAreKept, Mishap
<1>2. t \in TaskRow /\ t.id = task[r].id
  BY TInvParts DEF TasksOK, TaskRow
<1>3. \A j \in Jobs : Holding(j) => R(j) # r
  <2> SUFFICES ASSUME NEW j \in Jobs, Holding(j), R(j) = r PROVE FALSE
    OBVIOUS
  <2>1. j \in SameEntry(task[r].owner, r, task[r].id)
    BY DEF Leases, HoldersOwn, Owns, SameEntry, R
  <2> QED
    BY <1>1, <2>1
<1> HIDE DEF t
<1> QED
  BY <1>1, <1>2, <1>3, LeasesTaskMoves DEF HasActiveTask

LEMMA WorkerLeases ==
  ASSUME TInv, Leases, NEW w \in Workers, WorkerStep(w)
  PROVE  Leases'
<1>1. /\ pc \in [Jobs -> Busy \cup {"idle"}] /\ "idle" \notin Busy
      /\ \A j \in Jobs : pc[j] # "idle" => job[j] \in Job
  BY TInvParts DEF JobsInv, JobsOK, Busy, Before, Try, Handler, Rescue
<1>2. ASSUME NEW r \in Runs, Reap(w, r)
      PROVE  Leases'
  <2> DEFINE how == IF task[r].attempt < MaxAttempts THEN "retry" ELSE "failed"
             t == Settled(task[r], how)
  <2>1. task[r] \in TaskRow /\ task[r].status = "running" /\ task[r].expired
        /\ task[r].attempt > 0 /\ UNCHANGED jobs
    BY <1>2, TInvParts DEF Reap, Reapable, TasksOK, ClaimsCounted
  <2>2. how \in Endings
    BY DEF Endings
  <2>3. t \in TaskRow /\ t.id = task[r].id
    BY <2>1, <2>2, SettledRow
  <2>4. task' = [task EXCEPT ![r] = t]
    BY <1>2 DEF Reap
  <2>5. HasActiveTask(r)
    BY <2>1 DEF HasActiveTask
  <2> HIDE DEF t
  <2> QED
    BY <2>1, <2>3, <2>4, <2>5, NobodyHolds, LeasesTaskMoves
<1>3. CASE ReapSet(w) \/ ReaperFault(w)
  BY <1>3, LeasesSame DEF ReapSet, ReaperFault, rows
<1>4. CASE Shutdown(w)
  <2>1. UNCHANGED <<task, pc, registered>>
    BY <1>4 DEF Shutdown, rows
  <2>2. \A j \in Jobs : pc[j] # "idle" => R(j)' = R(j) /\ job'[j].tid = job[j].tid
    BY <1>1, <1>4 DEF Shutdown, R, Job
  <2>3. \A j \in Jobs : (Holding(j)' <=> Holding(j)) /\ (Holding(j) => pc[j] # "idle")
    BY <1>1, <2>1 DEF Holding
  <2> QED
    BY <2>1, <2>2, <2>3
       DEF Leases, HoldersOwn, HoldersAlone, JobsOlder, RescuedEnded, Owns, HasActiveTask
<1>5. ASSUME Gone(w), UNCHANGED task
      PROVE  Leases'
  <2>1. \A j \in Jobs : pc'[j] # "idle" => /\ Host(j) # w /\ pc'[j] = pc[j]
                                           /\ job'[j] = job[j] /\ R(j)' = R(j)
    BY <1>5 DEF Gone, R
  <2>2. \A j \in Jobs : Holding(j)' => Holding(j) /\ pc'[j] # "idle"
    BY <1>1, <2>1 DEF Holding
  <2>3. HoldersOwn'
    BY <1>5, <2>1, <2>2 DEF Leases, HoldersOwn, Owns, Gone
  <2>4. HoldersAlone' /\ JobsOlder'
    BY <1>5, <2>1, <2>2 DEF Leases, HoldersAlone, JobsOlder
  <2>5. RescuedEnded'
    BY <1>5, <2>1 DEF Leases, RescuedEnded, HasActiveTask
  <2> QED
    BY <2>3, <2>4, <2>5 DEF Leases
<1>6. CASE Stopped(w) \/ Crash(w)
  BY <1>5, <1>6 DEF Stopped, Crash, rows
<1> QED
  BY <1>2, <1>3, <1>4, <1>6 DEF WorkerStep

LEMMA LeasesInit == Init => Leases
<1> SUFFICES ASSUME Init PROVE Leases
  OBVIOUS
<1>1. \A j \in Jobs : pc[j] = "idle" /\ ~Holding(j)
  BY DEF Init, Holding, Busy, Before, Try, Handler, Rescue
<1> QED
  BY <1>1 DEF Leases, HoldersOwn, HoldersAlone, JobsOlder, RescuedEnded

LEMMA LeasesStep == LeasesAreKept /\ TInv /\ Leases /\ [Next]_vars => Leases'
<1> SUFFICES ASSUME LeasesAreKept, TInv, Leases, [Next]_vars PROVE Leases'
  OBVIOUS
<1>1. ASSUME NEW r \in Runs, UserStep(r) \/ LeaseExpires(r)
      PROVE  Leases'
  BY <1>1, UserLeases, LeaseExpiresLeases
<1>2. ASSUME NEW j \in Jobs, NEW r \in Runs, Claim(j, r)
      PROVE  Leases'
  BY <1>2, ClaimLeases
<1>3. ASSUME NEW j \in Jobs, JobStep(j) \/ NodeFails(j) \/ Fault(j) \/ Heartbeat(j)
      PROVE  Leases'
  BY <1>3, JobLeases, ErrorLeases, HeartbeatLeases
<1>4. ASSUME NEW j \in Jobs, GraceEnds(j)
      PROVE  Leases'
  <2>1. pc[j] # "idle"
    BY <1>4, TInvParts DEF GraceEnds, JobsInv, JobsOK
  <2> QED
    BY <1>4, <2>1, CancelJobLeases DEF GraceEnds, rows
<1>5. ASSUME NEW w \in Workers, WorkerStep(w)
      PROVE  Leases'
  BY <1>5, WorkerLeases
<1>6. CASE UNCHANGED vars
  BY <1>6, LeasesSame DEF vars, jobs
<1> QED
  BY <1>1, <1>2, <1>3, <1>4, <1>5, <1>6 DEF Next

LEMMA LeasesHold == ASSUME LeasesAreKept PROVE Spec => []Leases
BY InitTyped, StepTyped, LeasesInit, LeasesStep, PTL DEF Spec

\* No two jobs are ever at work on one run while workers keep their leases.
THEOREM JobsExclude == ASSUME LeasesAreKept PROVE Spec => []OneJobPerRun
<1>1. Leases => OneJobPerRun
  BY DEF Leases, HoldersAlone, OneJobPerRun, Holding, Advancing, Rescue
<1> QED
  BY <1>1, LeasesHold, PTL

\* Nobody takes the task of a job at work away from it.
THEOREM LeasesStand == ASSUME LeasesAreKept PROVE Spec => []AdvancesWithLease
<1>1. Leases => AdvancesWithLease
  BY DEF Leases, HoldersOwn, AdvancesWithLease, Holding, Advancing, Rescue
<1> QED
  BY <1>1, LeasesHold, PTL

-----------------------------------------------------------------------------
(* Attempts, and the steps a run has completed, as long as leases are kept *)

\* A task that may be claimed has an attempt left; the job that holds a task knows how many
\* it used, and asks for another only if there is one.
TasksCounted ==
  \A r \in Runs : /\ task[r].attempt <= MaxAttempts
                  /\ task[r].status = "queued" => task[r].attempt < MaxAttempts

JobsCounted ==
  \A j \in Jobs :
    /\ Holding(j) => job[j].attempt = task[R(j)].attempt
    /\ pc[j] # "idle" /\ job[j].ending = "retry" => job[j].attempt < MaxAttempts

Counted == TasksCounted /\ JobsCounted

\* Every step but a claim leaves a job the attempt it counts, and its task.
KeepsCount ==
  \A j \in Jobs :
    pc'[j] # "idle" =>
      /\ pc[j] # "idle" /\ (Holding(j)' => Holding(j))
      /\ job'[j].run = job[j].run /\ job'[j].attempt = job[j].attempt
      /\ job'[j].ending = "retry" => job[j].ending = "retry" \/ job[j].attempt < MaxAttempts

LEMMA CountKept ==
  ASSUME TInv, Counted, KeepsCount, TasksCounted',
         \A j \in Jobs : Holding(j)' => task'[R(j)].attempt = task[R(j)].attempt
  PROVE  Counted'
<1>1. \A j \in Jobs : Holding(j)' => pc'[j] # "idle"
  BY DEF Holding, Busy, Before, Try, Handler, Rescue
<1>2. JobsCounted'
  BY <1>1 DEF Counted, JobsCounted, KeepsCount, R
<1> QED
  BY <1>2 DEF Counted

\* The job j goes on to another step, or leaves.
LEMMA JobKeepsCount ==
  ASSUME TInv, NEW j \in Jobs, pc[j] # "idle",
         \/ /\ UNCHANGED job
            /\ \E to \in Busy \ {"fset"} : pc[j] # "fset" /\ pc' = [pc EXCEPT ![j] = to]
         \/ UNCHANGED job /\ pc' = [pc EXCEPT ![j] = "fset"]
         \/ Leave(j)
         \/ /\ \E to \in Busy \ {"fset"} : pc[j] # "fset" /\ pc' = [pc EXCEPT ![j] = to]
            /\ \E y : /\ job' = [job EXCEPT ![j] = y]
                      /\ y.run = job[j].run /\ y.attempt = job[j].attempt
                      /\ y.ending = "retry" =>
                           job[j].ending = "retry" \/ job[j].attempt < MaxAttempts
  PROVE  KeepsCount
<1>1. /\ pc \in [Jobs -> Busy \cup {"idle"}] /\ job \in [Jobs -> Job \cup {NoJob}]
      /\ "idle" \notin Busy
  BY JobIsPlaced DEF Busy, Before, Try, Handler, Rescue
<1>2. CASE Leave(j)
  BY <1>1, <1>2 DEF Leave, KeepsCount, Holding
<1>3. CASE UNCHANGED job /\ \E to \in Busy \ {"fset"} : pc[j] # "fset" /\ pc' = [pc EXCEPT ![j] = to]
  BY <1>1, <1>3 DEF KeepsCount, Holding
<1>4. CASE UNCHANGED job /\ pc' = [pc EXCEPT ![j] = "fset"]
  BY <1>1, <1>4 DEF KeepsCount, Holding
<1>5. ASSUME NEW to \in Busy \ {"fset"}, pc[j] # "fset", pc' = [pc EXCEPT ![j] = to],
             NEW y, job' = [job EXCEPT ![j] = y], y.run = job[j].run,
             y.attempt = job[j].attempt,
             y.ending = "retry" => job[j].ending = "retry" \/ job[j].attempt < MaxAttempts
      PROVE  KeepsCount
  <2>1. job'[j] = y /\ (\A k \in Jobs \ {j} : job'[k] = job[k] /\ pc'[k] = pc[k])
    BY <1>1, <1>5
  <2>2. Holding(j)
    BY <1>1, <1>5 DEF Holding
  <2> QED
    BY <1>5, <2>1, <2>2 DEF KeepsCount, Holding
<1> QED
  BY <1>2, <1>3, <1>4, <1>5

LEMMA PlanKeepsCount ==
  ASSUME TInv, NEW j \in Jobs, NEW to \in Busy \ {"fset"}, pc[j] \notin {"idle", "fset"},
         pc' = [pc EXCEPT ![j] = to], NEW target, NEW ending, Plan(j, target, ending),
         ending = "retry" => job[j].attempt < MaxAttempts
  PROVE  KeepsCount
<1> DEFINE y == [job[j] EXCEPT !.target = target, !.ending = ending]
<1>1. y.run = job[j].run /\ y.attempt = job[j].attempt /\ y.ending = ending
  BY JobIsPlaced DEF Job
<1>2. job' = [job EXCEPT ![j] = y]
  BY DEF Plan
<1> HIDE DEF y
<1> QED
  BY <1>1, <1>2, JobKeepsCount

LEMMA StepKeepsCount ==
  ASSUME TInv, NEW j \in Jobs, JobStep(j)
  PROVE  KeepsCount
<1>1. /\ pc[j] # "idle" /\ job[j] \in Job
      /\ {"hset", "hend", "start", "setup", "boundary", "node", "acted", "judge", "set",
          "end", "fend"} \subseteq Busy \ {"fset"}
  BY JobIsPlaced DEF JobStep, Busy, Before, Try, Handler, Rescue
<1>2. ASSUME NEW s, NEW n, Enter(j, s, n)
      PROVE  KeepsCount
  <2> DEFINE y == [job[j] EXCEPT !.at = n, !.ok = s.ok[n]]
  <2>1. y.run = job[j].run /\ y.attempt = job[j].attempt /\ y.ending = job[j].ending
    BY <1>1 DEF Job
  <2>2. /\ job' = [job EXCEPT ![j] = y] /\ pc' = [pc EXCEPT ![j] = "boundary"]
        /\ pc[j] # "fset"
    BY <1>2 DEF Enter, Goto
  <2> HIDE DEF y
  <2> QED
    BY <1>1, <2>1, <2>2, JobKeepsCount
<1>3. ASSUME NEW f, StepEnds(j, f), pc[j] \in {"node", "acted"},
             pc' = [pc EXCEPT ![j] = "boundary"]
      PROVE  KeepsCount
  <2>1. PICK n, d : job' = [job EXCEPT ![j].at = n, ![j].ok = f, ![j].drain = d]
    BY ZenonT(40), <1>3 DEF StepEnds
  <2> DEFINE y == [job[j] EXCEPT !.at = n, !.ok = f, !.drain = d]
  <2>2. y.run = job[j].run /\ y.attempt = job[j].attempt /\ y.ending = job[j].ending
    BY <1>1 DEF Job
  <2>3. job' = [job EXCEPT ![j] = y]
    BY <2>1
  <2> HIDE DEF y
  <2> QED
    BY <1>1, <1>3, <2>2, <2>3, JobKeepsCount
<1>4. CASE Load(j)
  BY <1>1, <1>4, PlanKeepsCount, JobKeepsCount DEF Load, Goto
<1>5. CASE Start(j)
  BY <1>1, <1>5, PlanKeepsCount, JobKeepsCount DEF Start, Goto
<1>6. CASE Setup(j)
  <2>1. job[j].action \in Actions
    BY <1>1 DEF Job
  <2>2. (\E s, n : Enter(j, s, n)) \/ Refuse(j, "hset")
    BY <1>6, <2>1 DEF Setup, EnterStart, Actions
  <2>3. CASE Refuse(j, "hset")
    BY <1>1, <2>3, PlanKeepsCount DEF Refuse, Goto
  <2> QED
    BY <1>2, <2>2, <2>3
<1>7. CASE Proceed(j) \/ StreamEnds(j) \/ Ask(j) \/ Act(j) \/ Set(j)
  BY <1>1, <1>7, JobKeepsCount DEF Proceed, StreamEnds, Ask, Act, Set, Goto
<1>8. CASE Drained(j) \/ Judge(j)
  BY <1>1, <1>8, PlanKeepsCount DEF Drained, Judge, Goto
<1>9. CASE Work(j) \/ Answered(j) \/ Acted(j)
  BY <1>3, <1>9 DEF Work, Answered, Acted, Goto
<1>10. CASE End(j) \/ RescueSet(j)
  BY <1>1, <1>10, JobKeepsCount DEF End, RescueSet
<1>11. CASE RescueEnd(j)
  BY <1>1, <1>11, JobKeepsCount DEF RescueEnd, Goto
<1> QED
  BY <1>4, <1>5, <1>6, <1>7, <1>8, <1>9, <1>10, <1>11 DEF JobStep

LEMMA CancelKeepsCount ==
  ASSUME TInv, NEW j \in Jobs, NEW reason, pc[j] # "idle", CancelJob(j, reason)
  PROVE  KeepsCount
<1>1. CASE pc[j] \in Try /\ reason # "lease_lost"
  <2> DEFINE y == [job[j] EXCEPT !.reason = reason,
                     !.target = IF reason = "cancel" THEN "cancelled" ELSE "pending",
                     !.ending = IF reason = "cancel" THEN "cancelled" ELSE "refund"]
  <2>1. job[j] \in Job /\ "hset" \in Busy \ {"fset"} /\ pc[j] # "fset"
    BY <1>1, JobIsPlaced DEF Busy, Try, Handler, Rescue
  <2>2. y.run = job[j].run /\ y.attempt = job[j].attempt /\ y.ending # "retry"
    BY <2>1 DEF Job
  <2>3. job' = [job EXCEPT ![j] = y] /\ pc' = [pc EXCEPT ![j] = "hset"]
    BY <1>1 DEF CancelJob
  <2> HIDE DEF y
  <2> QED
    BY <2>1, <2>2, <2>3, JobKeepsCount
<1>2. CASE ~(pc[j] \in Try /\ reason # "lease_lost")
  BY <1>2, JobKeepsCount DEF CancelJob
<1> QED
  BY <1>1, <1>2

LEMMA ErrorKeepsCount ==
  ASSUME TInv, NEW j \in Jobs, NodeFails(j) \/ Fault(j)
  PROVE  KeepsCount
<1>1. /\ {"hset", "fend"} \subseteq Busy \ {"fset"}
      /\ {"idle", "fset"} \cap (Before \cup Handler \cup {"judge", "set", "end", "node", "acted"}) = {}
      /\ "idle" \notin Rescue
  BY DEF Busy, Before, Try, Handler, Rescue
<1>2. ASSUME RetryOrFail(j), pc[j] \notin {"idle", "fset"}, pc' = [pc EXCEPT ![j] = "hset"]
      PROVE  KeepsCount
  BY <1>1, <1>2, PlanKeepsCount DEF RetryOrFail
<1>3. CASE NodeFails(j)
  BY <1>1, <1>2, <1>3, PlanKeepsCount DEF NodeFails
<1>4. CASE Fault(j)
  <2>1. CASE /\ pc[j] \in {"judge", "set", "end"} /\ pc' = [pc EXCEPT ![j] = "hset"]
             /\ RetryOrFail(j) \/ Plan(j, "failed", "failed")
    BY <1>1, <1>2, <2>1, PlanKeepsCount
  <2>2. CASE pc[j] \in Before \cup Handler /\ pc' = [pc EXCEPT ![j] = "fend"] /\ UNCHANGED job
    BY <1>1, <2>2, JobKeepsCount
  <2>3. CASE pc[j] \in Rescue /\ Leave(j)
    BY <1>1, <2>3, JobKeepsCount
  <2> QED
    BY <1>4, <2>1, <2>2, <2>3 DEF Fault
<1> QED
  BY <1>3, <1>4

LEMMA BeatKeepsCount ==
  ASSUME TInv, NEW j \in Jobs, Heartbeat(j)
  PROVE  KeepsCount
<1>1. /\ pc[j] # "idle" /\ job[j] \in Job
      /\ job \in [Jobs -> Job \cup {NoJob}]
  BY TInvParts, JobIsPlaced DEF Heartbeat, JobsInv, JobsOK
<1>2. CASE UNCHANGED jobs
  BY <1>2 DEF jobs, KeepsCount, Holding
<1>3. CASE \E reason : CancelJob(j, reason)
  BY <1>1, <1>3, CancelKeepsCount
<1>4. ASSUME NEW d, job' = [job EXCEPT ![j].drain = d], UNCHANGED pc
      PROVE  KeepsCount
  <2>1. /\ job'[j].run = job[j].run /\ job'[j].attempt = job[j].attempt
        /\ job'[j].ending = job[j].ending
        /\ \A k \in Jobs \ {j} : job'[k] = job[k]
    BY <1>1, <1>4 DEF Job
  <2> QED
    BY <1>4, <2>1 DEF KeepsCount, Holding
<1> QED
  BY <1>2, <1>3, <1>4 DEF Heartbeat

LEMMA WorkerKeepsCount ==
  ASSUME TInv, NEW w \in Workers, WorkerStep(w)
  PROVE  KeepsCount
<1>1. CASE UNCHANGED jobs
  BY <1>1 DEF jobs, KeepsCount, Holding
<1>2. CASE Shutdown(w)
  <2>1. \A j \in Jobs : pc[j] # "idle" => job[j] \in Job
    BY TInvParts DEF JobsInv, JobsOK
  <2>2. \A j \in Jobs : pc[j] # "idle" =>
          /\ job'[j].run = job[j].run /\ job'[j].attempt = job[j].attempt
          /\ job'[j].ending = job[j].ending
    BY <1>2, <2>1 DEF Shutdown, Job
  <2> QED
    BY <1>2, <2>2 DEF Shutdown, KeepsCount, Holding
<1>3. CASE Gone(w)
  <2>1. \A j \in Jobs : pc'[j] # "idle" => pc'[j] = pc[j] /\ job'[j] = job[j]
    BY <1>3 DEF Gone
  <2> QED
    BY <2>1 DEF KeepsCount, Holding
<1> QED
  BY <1>1, <1>2, <1>3 DEF WorkerStep, Reap, ReapSet, ReaperFault, Stopped, Crash

\* A task that moves while no one holds it, or whose attempts stay as they are.
LEMMA CountMoves ==
  ASSUME TInv, Counted, KeepsCount, NEW r \in Runs, NEW t,
         task' = [task EXCEPT ![r] = t], t.attempt <= MaxAttempts,
         t.status = "queued" => t.attempt < MaxAttempts,
         t.attempt = task[r].attempt \/ \A j \in Jobs : Holding(j)' => R(j) # r
  PROVE  Counted'
<1>1. task' = [q \in Runs |-> IF q = r THEN t ELSE task[q]]
  BY TInvParts DEF TasksOK
<1>2. TasksCounted'
  BY <1>1 DEF Counted, TasksCounted
<1>3. \A j \in Jobs : Holding(j)' => task'[R(j)].attempt = task[R(j)].attempt
  <2> SUFFICES ASSUME NEW j \in Jobs, Holding(j)'
               PROVE  task'[R(j)].attempt = task[R(j)].attempt
    OBVIOUS
  <2>1. pc[j] # "idle"
    BY DEF KeepsCount, Holding, Busy, Before, Try, Handler, Rescue
  <2>2. R(j) \in Runs
    BY <2>1, JobIsPlaced
  <2> QED
    BY <1>1, <2>2
<1> QED
  BY <1>2, <1>3, CountKept

LEMMA CountStands ==
  ASSUME TInv, Counted, KeepsCount, UNCHANGED task
  PROVE  Counted'
BY CountKept DEF Counted, TasksCounted

\* A task is ended by the job that holds it.
LEMMA CountSettles ==
  ASSUME TInv, Leases, Counted, KeepsCount, NEW j \in Jobs, pc[j] # "idle",
         NEW how \in Endings, how = "retry" => job[j].attempt < MaxAttempts,
         Settle(j, how), ~Holding(j)', pc[j] # "fset",
         \A k \in Jobs : Holding(k)' => Holding(k)
  PROVE  Counted'
<1> DEFINE r == R(j)
           t == Settled(task[r], how)
<1>1. /\ Holding(j) /\ r \in Runs /\ task[r] \in TaskRow /\ Owns(j)
      /\ task[r].attempt > 0 /\ task[r].status = "running"
  BY JobIsPlaced, TInvParts DEF Leases, HoldersOwn, Owns, TasksOK, ClaimsCounted
<1>2. task' = [task EXCEPT ![r] = t]
  BY <1>1 DEF Settle
<1>3. task[r].attempt <= MaxAttempts /\ job[j].attempt = task[r].attempt
  BY <1>1 DEF Counted, TasksCounted, JobsCounted
<1>4. t.attempt <= MaxAttempts /\ (t.status = "queued" => t.attempt < MaxAttempts)
  <2>1. CASE how = "refund"
    <3>1. t.attempt = task[r].attempt - 1
      BY <1>1, <2>1 DEF Settled, TaskRow
    <3> QED
      BY <1>1, <1>3, <3>1, RuntimeAssumption DEF TaskRow
  <2>2. CASE how = "retry"
    <3>1. t.attempt = task[r].attempt
      BY <1>1, <2>2 DEF Settled, TaskRow
    <3> QED
      BY <1>3, <2>2, <3>1
  <2>3. CASE how \in {"succeeded", "failed", "cancelled"}
    <3>1. t.attempt = task[r].attempt /\ t.status = how
      BY <1>1, <2>3 DEF Settled, TaskRow
    <3> QED
      BY <1>3, <2>3, <3>1
  <2> QED
    BY <2>1, <2>2, <2>3 DEF Endings
<1>5. \A k \in Jobs : Holding(k)' => R(k) # r
  BY <1>1 DEF Leases, HoldersAlone
<1> HIDE DEF t
<1> QED
  BY <1>1, <1>2, <1>4, <1>5, CountMoves

LEMMA UserCounts ==
  ASSUME TInv, Leases, Counted, NEW r \in Runs, UserStep(r)
  PROVE  Counted'
<1>1. UNCHANGED jobs
  BY DEF UserStep, StartRun, Pause, Resume, Cancel, Retry, Rerun, Skip, ChangeSteps,
         Decide, DecideFromChat
<1>2. KeepsCount /\ \A j \in Jobs : Holding(j)' <=> Holding(j)
  BY <1>1 DEF jobs, KeepsCount, Holding
<1>3. task[r] \in TaskRow /\ task \in [Runs -> TaskRow]
  BY TInvParts DEF TasksOK
<1>4. ASSUME NEW action, NEW node, Enqueue(r, action, node)
      PROVE  Counted'
  <2> DEFINE t == [id |-> task[r].id + 1, action |-> action, node |-> node,
                   status |-> "queued", owner |-> NoWorker, attempt |-> 0,
                   expired |-> FALSE]
  <2>1. t.attempt = 0 /\ task' = [task EXCEPT ![r] = t] /\ task[r].status # "running"
    BY <1>4 DEF Enqueue, HasActiveTask
  <2>2. \A j \in Jobs : Holding(j)' => R(j) # r
    BY <1>2, <2>1, NobodyHolds
  <2>3. t.attempt <= MaxAttempts /\ t.attempt < MaxAttempts
    BY <2>1, RuntimeAssumption
  <2> HIDE DEF t
  <2> QED
    BY <1>2, <2>1, <2>2, <2>3, CountMoves
<1>5. CASE CancelQueued(r)
  <2> DEFINE t == [task[r] EXCEPT !.status = IF @ = "queued" THEN "cancelled" ELSE @]
  <2>1. task' = [task EXCEPT ![r] = t]
    BY <1>5 DEF CancelQueued
  <2>2. t.attempt = task[r].attempt /\ t.status # "queued"
    BY <1>3 DEF TaskRow
  <2>3. task[r].attempt <= MaxAttempts
    BY DEF Counted, TasksCounted
  <2> HIDE DEF t
  <2> QED
    BY <1>2, <2>1, <2>2, <2>3, CountMoves
<1>6. CASE UNCHANGED task
  BY <1>2, <1>6, CountStands
<1> QED
  BY <1>4, <1>5, <1>6
     DEF UserStep, StartRun, Pause, Resume, Retry, Rerun, Skip, ChangeSteps, Decide,
         DecideFromChat, Cancel, CancelNow, CancelLater

LEMMA ClaimCounts ==
  ASSUME TInv, Leases, Counted, NEW j \in Jobs, NEW r \in Runs, Claim(j, r)
  PROVE  Counted'
<1>1. /\ task \in [Runs -> TaskRow] /\ task[r] \in TaskRow
      /\ pc \in [Jobs -> Busy \cup {"idle"}] /\ job \in [Jobs -> Job \cup {NoJob}]
  BY JobIsPlaced
<1>2. /\ task[r].status = "queued" /\ pc[j] = "idle" /\ pc' = [pc EXCEPT ![j] = "load"]
      /\ task'[r].status = "running" /\ task'[r].attempt = task[r].attempt + 1
      /\ \A q \in Runs \ {r} : task'[q] = task[q]
      /\ job'[j].run = r /\ job'[j].attempt = task[r].attempt + 1
      /\ job'[j].ending = "succeeded"
      /\ \A k \in Jobs \ {j} : job'[k] = job[k]
  BY <1>1 DEF Claim, Claimable, TaskRow
<1>3. TasksCounted'
  <2>1. task[r].attempt + 1 <= MaxAttempts
    BY <1>1, <1>2, RuntimeAssumption DEF Counted, TasksCounted, TaskRow
  <2> QED
    BY <1>1, <1>2, <2>1 DEF Counted, TasksCounted
<1>4. JobsCounted'
  <2> SUFFICES ASSUME NEW k \in Jobs
               PROVE  /\ Holding(k)' => job'[k].attempt = task'[R(k)'].attempt
                      /\ pc'[k] # "idle" /\ job'[k].ending = "retry" =>
                           job'[k].attempt < MaxAttempts
    BY DEF JobsCounted
  <2>1. CASE k = j
    BY <1>2, <2>1 DEF R
  <2>2. CASE k # j
    <3>1. job'[k] = job[k] /\ pc'[k] = pc[k] /\ R(k)' = R(k) /\ (Holding(k)' <=> Holding(k))
      BY <1>1, <1>2, <2>2 DEF R, Holding
    <3>2. Holding(k) => R(k) \in Runs /\ R(k) # r
      BY <1>2, NobodyHolds, JobIsPlaced DEF Holding, Busy, Before, Try, Handler, Rescue
    <3> QED
      BY <1>2, <3>1, <3>2 DEF Counted, JobsCounted
  <2> QED
    BY <2>1, <2>2
<1> QED
  BY <1>3, <1>4 DEF Counted

LEMMA JobCounts ==
  ASSUME TInv, Leases, Counted, NEW j \in Jobs, JobStep(j)
  PROVE  Counted'
<1>1. KeepsCount /\ pc[j] # "idle" /\ job[j] \in Job
  BY StepKeepsCount, JobIsPlaced DEF JobStep
<1>2. \A k \in Jobs : Holding(k)' => Holding(k)
  BY <1>1 DEF KeepsCount, Holding, Busy, Before, Try, Handler, Rescue
<1>3. pc \in [Jobs -> Busy \cup {"idle"}]
  BY JobIsPlaced
<1>4. CASE End(j)
  <2>1. ~Holding(j)' /\ pc[j] # "fset"
    BY <1>3, <1>4 DEF End, Leave, Holding, Busy, Before, Try, Handler, Rescue
  <2>2. job[j].ending \in Endings /\ (job[j].ending = "retry" => job[j].attempt < MaxAttempts)
    BY <1>1 DEF Job, Counted, JobsCounted
  <2> QED
    BY <1>1, <1>2, <1>4, <2>1, <2>2, CountSettles DEF End
<1>5. CASE RescueEnd(j)
  <2>1. ~Holding(j)' /\ pc[j] # "fset" /\ Settle(j, "failed")
    BY <1>3, <1>5 DEF RescueEnd, Goto, Holding
  <2> QED
    BY <1>1, <1>2, <2>1, CountSettles DEF Endings
<1>6. CASE UNCHANGED task
  BY <1>1, <1>6, CountStands
<1> QED
  BY <1>4, <1>5, <1>6
     DEF JobStep, Load, Start, Setup, Proceed, StreamEnds, Drained, Work, Ask, Answered, Act,
         Acted, Judge, Set, RescueSet, rows

LEMMA WorkerCounts ==
  ASSUME TInv, Leases, Counted, NEW w \in Workers, WorkerStep(w)
  PROVE  Counted'
<1>1. KeepsCount
  BY WorkerKeepsCount
<1>2. ASSUME NEW r \in Runs, Reap(w, r)
      PROVE  Counted'
  <2> DEFINE how == IF task[r].attempt < MaxAttempts THEN "retry" ELSE "failed"
             t == Settled(task[r], how)
  <2>1. task[r] \in TaskRow /\ task[r].attempt <= MaxAttempts
    BY TInvParts DEF TasksOK, Counted, TasksCounted
  <2>2. t.attempt = task[r].attempt /\ (t.status = "queued" => task[r].attempt < MaxAttempts)
    BY <2>1 DEF Settled, TaskRow
  <2>3. task' = [task EXCEPT ![r] = t]
    BY <1>2 DEF Reap
  <2> HIDE DEF t
  <2> QED
    BY <1>1, <2>1, <2>2, <2>3, CountMoves
<1>3. CASE UNCHANGED task
  BY <1>1, <1>3, CountStands
<1> QED
  BY <1>2, <1>3 DEF WorkerStep, ReapSet, ReaperFault, Shutdown, Stopped, Crash, rows

LEMMA CountedStep == TInv /\ Leases /\ Counted /\ [Next]_vars => Counted'
<1> SUFFICES ASSUME TInv, Leases, Counted, [Next]_vars PROVE Counted'
  OBVIOUS
<1>1. ASSUME NEW r \in Runs, UserStep(r)
      PROVE  Counted'
  BY <1>1, UserCounts
<1>2. ASSUME NEW r \in Runs, NEW t, task' = [task EXCEPT ![r] = t], UNCHANGED jobs,
             t.attempt = task[r].attempt, t.status = task[r].status
      PROVE  Counted'
  <2>1. KeepsCount
    BY <1>2 DEF jobs, KeepsCount, Holding
  <2>2. t.attempt <= MaxAttempts /\ (t.status = "queued" => t.attempt < MaxAttempts)
    BY <1>2 DEF Counted, TasksCounted
  <2> QED
    BY <1>2, <2>1, <2>2, CountMoves
<1>3. ASSUME NEW r \in Runs, LeaseExpires(r)
      PROVE  Counted'
  <2> DEFINE t == [task[r] EXCEPT !.expired = TRUE]
  <2>1. t.attempt = task[r].attempt /\ t.status = task[r].status
    BY TInvParts DEF TasksOK, TaskRow
  <2>2. task' = [task EXCEPT ![r] = t] /\ UNCHANGED jobs
    BY <1>3 DEF LeaseExpires
  <2> HIDE DEF t
  <2> QED
    BY <1>2, <2>1, <2>2
<1>4. ASSUME NEW j \in Jobs, NEW r \in Runs, Claim(j, r)
      PROVE  Counted'
  BY <1>4, ClaimCounts
<1>5. ASSUME NEW j \in Jobs, JobStep(j)
      PROVE  Counted'
  BY <1>5, JobCounts
<1>6. ASSUME NEW j \in Jobs, NodeFails(j) \/ Fault(j) \/ GraceEnds(j)
      PROVE  Counted'
  <2>1. GraceEnds(j) => pc[j] # "idle"
    BY TInvParts DEF GraceEnds, JobsInv, JobsOK
  <2>2. KeepsCount
    BY <1>6, <2>1, ErrorKeepsCount, CancelKeepsCount DEF GraceEnds
  <2> QED
    BY <1>6, <2>2, CountStands DEF NodeFails, Fault, GraceEnds, rows
<1>7. ASSUME NEW j \in Jobs, Heartbeat(j)
      PROVE  Counted'
  <2>1. KeepsCount
    BY <1>7, BeatKeepsCount
  <2>2. pc[j] # "idle"
    BY <1>7, TInvParts DEF Heartbeat, JobsInv, JobsOK
  <2>3. R(j) \in Runs /\ task[R(j)] \in TaskRow
    BY <2>2, JobIsPlaced
  <2>4. CASE UNCHANGED task
    BY <2>1, <2>4, CountStands
  <2>5. CASE task' = [task EXCEPT ![R(j)].expired = FALSE]
    <3> DEFINE t == [task[R(j)] EXCEPT !.expired = FALSE]
    <3>1. t.attempt = task[R(j)].attempt /\ t.status = task[R(j)].status
      BY <2>3 DEF TaskRow
    <3>2. task' = [task EXCEPT ![R(j)] = t]
      BY <2>5
    <3>3. t.attempt <= MaxAttempts /\ (t.status = "queued" => t.attempt < MaxAttempts)
      BY <2>3, <3>1 DEF Counted, TasksCounted
    <3> HIDE DEF t
    <3> QED
      BY <2>1, <2>3, <3>1, <3>2, <3>3, CountMoves
  <2> QED
    BY <1>7, <2>4, <2>5 DEF Heartbeat
<1>8. ASSUME NEW w \in Workers, WorkerStep(w)
      PROVE  Counted'
  BY <1>8, WorkerCounts
<1>9. CASE UNCHANGED vars
  BY <1>9, CountStands DEF vars, KeepsCount, Holding
<1> QED
  BY <1>1, <1>3, <1>4, <1>5, <1>6, <1>7, <1>8, <1>9 DEF Next

LEMMA CountedInit == Init => Counted
<1> SUFFICES ASSUME Init PROVE Counted
  OBVIOUS
<1>1. \A j \in Jobs : pc[j] = "idle" /\ ~Holding(j)
  BY DEF Init, Holding, Busy, Before, Try, Handler, Rescue
<1>2. \A r \in Runs : task[r].attempt = 0
  BY DEF Init
<1>3. 0 < MaxAttempts /\ 0 <= MaxAttempts
  BY RuntimeAssumption
<1> QED
  BY <1>1, <1>2, <1>3 DEF Counted, TasksCounted, JobsCounted

\* However often a task is given back, retried or reaped, it is not claimed more often than
\* tasks.max_attempts allows (queue.claim, finish, requeue and reap_expired) - as long as a
\* worker that is late does not have a task under it claimed again by itself.
THEOREM AttemptsLimited == ASSUME LeasesAreKept PROVE Spec => []AttemptsBounded
<1>1. TInv /\ Counted => AttemptsBounded
  <2> SUFFICES ASSUME TInv, Counted, NEW r \in Runs PROVE task[r].attempt \in 0..MaxAttempts
    BY DEF AttemptsBounded
  <2>1. task[r].attempt \in Nat /\ task[r].attempt <= MaxAttempts
    BY TInvParts DEF TasksOK, TaskRow, Counted, TasksCounted
  <2> QED
    BY <2>1, RuntimeAssumption
<1> QED
  BY <1>1, InitTyped, StepTyped, LeasesHold, CountedInit, CountedStep, PTL DEF Spec

\* A job inside the graph, unless it was told to go back, is not behind the run's newest
\* checkpoint.
Inside == {"boundary", "node", "acted"}

Ahead ==
  \A j \in Jobs :
    pc[j] \in Inside /\ job[j].action # "rerun" => saved[R(j)].next <= job[j].at

KeepsPlace ==
  \A j \in Jobs :
    pc'[j] \in Inside =>
      /\ pc[j] \in Inside
      /\ job'[j].run = job[j].run /\ job'[j].at = job[j].at
      /\ job'[j].action = job[j].action

LEMMA AheadKept ==
  ASSUME TInv, Ahead, KeepsPlace, \A r \in Runs : saved'[r].next = saved[r].next
  PROVE  Ahead'
<1>1. \A j \in Jobs : pc[j] \in Inside => R(j) \in Runs
  BY JobIsPlaced DEF Inside
<1> QED
  BY <1>1 DEF Ahead, KeepsPlace, R

\* The job j writes a checkpoint and goes on from there.
LEMMA AheadPut ==
  ASSUME TInv, Leases, Ahead, NEW j \in Jobs, Holding(j),
         NEW s, saved' = [saved EXCEPT ![R(j)] = s],
         NEW y, job' = [job EXCEPT ![j] = y], y.run = job[j].run,
         y.action # "rerun" => s.next <= y.at,
         pc' = [pc EXCEPT ![j] = "boundary"]
  PROVE  Ahead'
<1>1. /\ pc \in [Jobs -> Busy \cup {"idle"}] /\ job \in [Jobs -> Job \cup {NoJob}]
      /\ saved \in [Runs -> Saved] /\ R(j) \in Runs
  BY JobIsPlaced, TInvParts DEF Holding, Busy, Before, Try, Handler, Rescue
<1> SUFFICES ASSUME NEW k \in Jobs, pc'[k] \in Inside, job'[k].action # "rerun"
             PROVE  saved'[job'[k].run].next <= job'[k].at
  BY DEF Ahead, R
<1>2. CASE k = j
  BY <1>1, <1>2 DEF R
<1>3. CASE k # j
  <2>1. pc'[k] = pc[k] /\ job'[k] = job[k]
    BY <1>1, <1>3
  <2>2. Holding(k) /\ R(k) \in Runs
    BY <2>1, JobIsPlaced DEF Holding, Inside, Busy, Try
  <2>3. R(k) # R(j)
    BY <1>3, <2>2 DEF Leases, HoldersAlone
  <2> QED
    BY <1>1, <2>1, <2>2, <2>3 DEF Ahead, R
<1> QED
  BY <1>2, <1>3

\* Where the steps of a job leave the newest checkpoint.
LEMMA StepGoesOn ==
  ASSUME TInv, Leases, Ahead, NEW j \in Jobs, JobStep(j)
  PROVE  /\ Ahead'
         /\ \A r \in Runs : saved'[r].next < saved[r].next =>
              R(j) = r /\ job[j].action = "rerun"
<1>1. /\ pc[j] # "idle" /\ job[j] \in Job /\ R(j) \in Runs /\ saved \in [Runs -> Saved]
      /\ pc \in [Jobs -> Busy \cup {"idle"}] /\ job \in [Jobs -> Job \cup {NoJob}]
      /\ saved[R(j)] \in Saved /\ saved[R(j)].next \in Nat /\ job[j].at \in Nat
      /\ \A r \in Runs : saved[r].next \in Nat
  BY JobIsPlaced, TInvParts, RuntimeAssumption DEF JobStep, Saved, Job
<1>2. ASSUME UNCHANGED saved, NEW to, pc' = [pc EXCEPT ![j] = to], to \notin Inside,
             \A k \in Jobs \ {j} : job'[k] = job[k]
      PROVE  Ahead'
  <2>1. KeepsPlace
    BY <1>1, <1>2 DEF KeepsPlace
  <2> QED
    BY <1>2, <2>1, AheadKept
<1>3. {"start", "setup", "hset", "hend", "judge", "set", "end", "idle", "fset"} \cap Inside = {}
  BY DEF Inside
<1>4. ASSUME NEW target, NEW ending, Plan(j, target, ending)
      PROVE  \A k \in Jobs \ {j} : job'[k] = job[k]
  BY <1>1, <1>4 DEF Plan
<1>5. ASSUME NEW s, NEW n, Enter(j, s, n), s.next = n, s.next \in Nat,
             s.next >= saved[R(j)].next \/ job[j].action = "rerun"
      PROVE  /\ Ahead'
             /\ \A r \in Runs : saved'[r].next < saved[r].next =>
                  R(j) = r /\ job[j].action = "rerun"
  <2> DEFINE y == [job[j] EXCEPT !.at = n, !.ok = s.ok[n]]
  <2>1. y.run = job[j].run /\ y.at = n
    BY <1>1 DEF Job
  <2>2. /\ job' = [job EXCEPT ![j] = y] /\ pc' = [pc EXCEPT ![j] = "boundary"]
        /\ saved' = [saved EXCEPT ![R(j)] = s] /\ Holding(j)
    BY <1>5 DEF Enter, Goto, Holding, Busy, Before
  <2> HIDE DEF y
  <2>3. s.next <= y.at
    BY <1>5, <2>1
  <2>4. Ahead'
    BY <2>1, <2>2, <2>3, AheadPut
  <2> QED
    BY <1>1, <1>5, <2>2, <2>4
<1>6. ASSUME NEW f, StepEnds(j, f), pc[j] \in {"node", "acted"},
             pc' = [pc EXCEPT ![j] = "boundary"]
      PROVE  /\ Ahead'
             /\ \A r \in Runs : saved'[r].next < saved[r].next =>
                  R(j) = r /\ job[j].action = "rerun"
  <2> DEFINE n == job[j].at + 1
             s == [next |-> n, ok |-> [saved[R(j)].ok EXCEPT ![n] = f],
                   interrupted |-> FALSE]
  <2>1. PICK d : job' = [job EXCEPT ![j].at = n, ![j].ok = f, ![j].drain = d]
    BY <1>6 DEF StepEnds
  <2> DEFINE y == [job[j] EXCEPT !.at = n, !.ok = f, !.drain = d]
  <2>2. y.run = job[j].run /\ y.at = n /\ y.action = job[j].action /\ n \in Nat
    BY <1>1 DEF Job
  <2>3. job' = [job EXCEPT ![j] = y]
    BY <2>1
  <2>4. saved' = [saved EXCEPT ![R(j)] = s] /\ s.next = n
    BY <1>6 DEF StepEnds
  <2>5. job[j].action # "rerun" => saved[R(j)].next < n
    BY <1>1, <1>6 DEF Ahead, Inside
  <2>6. Holding(j)
    BY <1>6 DEF Holding, Busy, Try
  <2> HIDE DEF y, s, n
  <2>7. s.next <= y.at
    BY <2>2, <2>4
  <2>10. Ahead'
    BY <1>6, <2>2, <2>3, <2>4, <2>6, <2>7, AheadPut
  <2>8. \A r \in Runs \ {R(j)} : saved'[r] = saved[r]
    BY <1>1, <2>4
  <2>9. saved'[R(j)].next = n
    BY <1>1, <2>4
  <2> QED
    BY <1>1, <2>2, <2>5, <2>8, <2>9, <2>10
<1>7. CASE Load(j) \/ Start(j) \/ Drained(j) \/ Judge(j) \/ Set(j) \/ StreamEnds(j)
  <2>1. UNCHANGED saved /\ Ahead'
    BY <1>2, <1>3, <1>4, <1>7 DEF Load, Start, Drained, Judge, Set, StreamEnds, Goto, rows
  <2> QED
    BY <1>1, <2>1
<1>8. CASE Setup(j)
  <2> DEFINE s == saved[R(j)]
             m == job[j].node
  <2>1. m \in Nat /\ job[j].action \in Actions /\ s \in Saved
    BY <1>1, RuntimeAssumption DEF Job
  <2>2. CASE Refuse(j, "hset")
    <3>1. UNCHANGED saved /\ Ahead'
      BY <1>2, <1>3, <1>4, <2>2 DEF Refuse, Goto
    <3> QED
      BY <1>1, <3>1
  <2>3. CASE job[j].action = "start" /\ s.next = 0
    <3> DEFINE t == [s EXCEPT !.next = 1, !.ok[1] = "yes"]
    <3>1. Enter(j, t, 1)
      BY <1>8, <2>3 DEF Setup, EnterStart
    <3>2. t.next = 1
      BY <2>1 DEF Saved
    <3> HIDE DEF t
    <3> QED
      BY <1>5, <2>3, <3>1, <3>2
  <2>4. CASE job[j].action \in {"start", "resume", "retry"} /\ s.next # 0
    <3>1. Enter(j, s, s.next)
      BY <1>8, <2>4 DEF Setup, EnterStart
    <3> QED
      BY <1>1, <1>5, <3>1
  <2>5. CASE job[j].action \in {"resume", "retry"} /\ s.next = 0
    BY <1>8, <2>2, <2>5 DEF Setup
  <2>6. CASE job[j].action = "rerun"
    <3>1. CASE Enter(j, s, m)
      <4> DEFINE y == [job[j] EXCEPT !.at = m, !.ok = s.ok[m]]
      <4>1. y.run = job[j].run /\ y.action = "rerun"
        BY <1>1, <2>6 DEF Job
      <4>2. /\ job' = [job EXCEPT ![j] = y] /\ pc' = [pc EXCEPT ![j] = "boundary"]
            /\ saved' = [saved EXCEPT ![R(j)] = s] /\ Holding(j)
        BY <3>1 DEF Enter, Goto, Holding, Busy, Before
      <4> HIDE DEF y
      <4>3. Ahead'
        BY <4>1, <4>2, AheadPut
      <4> QED
        BY <1>1, <4>2, <4>3
    <3> QED
      BY <1>8, <2>2, <2>6, <3>1 DEF Setup
  <2>7. CASE job[j].action = "skip" /\ s.next = m
    <3> DEFINE t == [s EXCEPT !.next = m + 1, !.ok[m + 1] = s.ok[m], !.interrupted = FALSE]
    <3>1. Enter(j, t, m + 1)
      BY <1>8, <2>7 DEF Setup
    <3>2. t.next = m + 1 /\ m + 1 \in Nat /\ m + 1 >= s.next
      BY <1>1, <2>1, <2>7 DEF Saved
    <3> HIDE DEF t
    <3> QED
      BY <1>5, <3>1, <3>2
  <2>8. CASE job[j].action = "skip" /\ s.next # m
    BY <1>8, <2>2, <2>8 DEF Setup
  <2> QED
    BY <2>1, <2>3, <2>4, <2>5, <2>6, <2>7, <2>8 DEF Actions
<1>9. CASE Proceed(j) \/ Act(j)
  <2>1. KeepsPlace /\ UNCHANGED saved
    BY <1>1, <1>9 DEF Proceed, Act, Goto, KeepsPlace, Inside, rows
  <2> QED
    BY <1>1, <2>1, AheadKept
<1>10. CASE Ask(j)
  <2>1. KeepsPlace /\ \A r \in Runs : saved'[r].next = saved[r].next
    BY <1>1, <1>10 DEF Ask, Goto, KeepsPlace, Inside, Saved
  <2> QED
    BY <1>1, <2>1, AheadKept
<1>11. CASE Work(j) \/ Answered(j) \/ Acted(j)
  BY <1>6, <1>11 DEF Work, Answered, Acted, Goto
<1>12. CASE End(j) \/ RescueSet(j) \/ RescueEnd(j)
  <2>1. KeepsPlace /\ UNCHANGED saved
    BY <1>1, <1>3, <1>12 DEF End, RescueSet, RescueEnd, Leave, Goto, KeepsPlace
  <2> QED
    BY <1>1, <2>1, AheadKept
<1> QED
  BY <1>7, <1>8, <1>9, <1>10, <1>11, <1>12 DEF JobStep

\* Nothing else moves a checkpoint or takes a job into the graph.
LEMMA RestGoesOn ==
  ASSUME TInv, [Next]_vars, \A j \in Jobs : ~JobStep(j)
  PROVE  KeepsPlace /\ UNCHANGED saved
<1>1. /\ pc \in [Jobs -> Busy \cup {"idle"}] /\ job \in [Jobs -> Job \cup {NoJob}]
      /\ \A j \in Jobs : pc[j] # "idle" => job[j] \in Job
  BY TInvParts DEF JobsInv, JobsOK
<1>2. ASSUME UNCHANGED jobs
      PROVE  KeepsPlace
  BY <1>2 DEF KeepsPlace, jobs
<1>3. ASSUME NEW j \in Jobs, NEW to, pc' = [pc EXCEPT ![j] = to], to \notin Inside,
             NEW y, job' = [job EXCEPT ![j] = y]
      PROVE  KeepsPlace
  BY <1>1, <1>3 DEF KeepsPlace
<1>4. {"load", "hset", "fend", "idle"} \cap Inside = {}
  BY DEF Inside
<1>5. ASSUME NEW r \in Runs, UserStep(r) \/ LeaseExpires(r)
      PROVE  KeepsPlace /\ UNCHANGED saved
  <2>1. UNCHANGED <<jobs, saved>>
    BY <1>5 DEF UserStep, StartRun, Pause, Resume, Cancel, Retry, Rerun, Skip, ChangeSteps,
                Decide, DecideFromChat, LeaseExpires
  <2> QED
    BY <1>2, <2>1
<1>6. ASSUME NEW j \in Jobs, NEW r \in Runs, Claim(j, r)
      PROVE  KeepsPlace /\ UNCHANGED saved
  <2>1. (\E y : job' = [job EXCEPT ![j] = y]) /\ pc' = [pc EXCEPT ![j] = "load"] /\ UNCHANGED saved
    BY <1>6 DEF Claim
  <2> QED
    BY <1>3, <1>4, <2>1
<1>7. ASSUME NEW j \in Jobs, NEW target, NEW ending, Plan(j, target, ending),
             pc' = [pc EXCEPT ![j] = "hset"]
      PROVE  KeepsPlace
  <2>1. job' = [job EXCEPT ![j] = [job[j] EXCEPT !.target = target, !.ending = ending]]
    BY <1>7 DEF Plan
  <2> QED
    BY <1>3, <1>4, <1>7, <2>1
<1>8. ASSUME NEW j \in Jobs, Leave(j)
      PROVE  KeepsPlace
  BY <1>3, <1>4, <1>8 DEF Leave
<1>9. ASSUME NEW j \in Jobs, NodeFails(j) \/ Fault(j)
      PROVE  KeepsPlace /\ UNCHANGED saved
  <2>1. UNCHANGED job /\ pc' = [pc EXCEPT ![j] = "fend"] => KeepsPlace
    BY <1>1, <1>4 DEF KeepsPlace
  <2> QED
    BY <1>7, <1>8, <1>9, <2>1 DEF NodeFails, Fault, RetryOrFail, rows
<1>10. ASSUME NEW j \in Jobs, NEW reason, CancelJob(j, reason)
       PROVE  KeepsPlace
  <2>1. CASE pc[j] \in Try /\ reason # "lease_lost"
    <3>1. job' = [job EXCEPT ![j] = [job[j] EXCEPT !.reason = reason,
                     !.target = IF reason = "cancel" THEN "cancelled" ELSE "pending",
                     !.ending = IF reason = "cancel" THEN "cancelled" ELSE "refund"]]
      BY <1>10, <2>1 DEF CancelJob
    <3>2. pc' = [pc EXCEPT ![j] = "hset"]
      BY <1>10, <2>1 DEF CancelJob
    <3> QED
      BY <1>3, <1>4, <3>1, <3>2
  <2>2. CASE ~(pc[j] \in Try /\ reason # "lease_lost")
    BY <1>8, <1>10, <2>2 DEF CancelJob
  <2> QED
    BY <2>1, <2>2
<1>11. ASSUME NEW j \in Jobs, Heartbeat(j)
       PROVE  KeepsPlace /\ UNCHANGED saved
  <2>1. ASSUME NEW d, job' = [job EXCEPT ![j].drain = d], UNCHANGED pc
        PROVE  KeepsPlace
    <3>1. job[j] \in Job
      BY <1>1, <1>11, TInvParts DEF Heartbeat, JobsInv, JobsOK
    <3>2. /\ job'[j].run = job[j].run /\ job'[j].at = job[j].at
          /\ job'[j].action = job[j].action
          /\ \A k \in Jobs \ {j} : job'[k] = job[k]
      BY <1>1, <2>1, <3>1 DEF Job
    <3> QED
      BY <2>1, <3>2 DEF KeepsPlace
  <2> QED
    BY <1>2, <1>10, <1>11, <2>1 DEF Heartbeat
<1>12. ASSUME NEW j \in Jobs, GraceEnds(j)
       PROVE  KeepsPlace /\ UNCHANGED saved
  BY <1>10, <1>12 DEF GraceEnds, rows
<1>13. ASSUME NEW w \in Workers, WorkerStep(w)
       PROVE  KeepsPlace /\ UNCHANGED saved
  <2>1. CASE UNCHANGED jobs
    BY <1>2, <1>13, <2>1
       DEF WorkerStep, Reap, ReapSet, ReaperFault, Shutdown, Stopped, Crash, rows
  <2>2. CASE Shutdown(w)
    <3>1. \A j \in Jobs : pc[j] # "idle" =>
            /\ job'[j].run = job[j].run /\ job'[j].at = job[j].at
            /\ job'[j].action = job[j].action
      BY <1>1, <2>2 DEF Shutdown, Job
    <3> QED
      BY <2>2, <3>1 DEF Shutdown, KeepsPlace, Inside, rows
  <2>3. CASE Stopped(w) \/ Crash(w)
    <3>1. \A j \in Jobs : pc'[j] # "idle" => pc'[j] = pc[j] /\ job'[j] = job[j]
      BY <2>3 DEF Stopped, Crash, Gone
    <3> QED
      BY <1>4, <2>3, <3>1 DEF Stopped, Crash, KeepsPlace, rows
  <2> QED
    <3>1. UNCHANGED jobs \/ Shutdown(w) \/ Stopped(w) \/ Crash(w)
      BY <1>13, Zenon DEF WorkerStep, Reap, ReapSet, ReaperFault
    <3> QED
      BY <2>1, <2>2, <2>3, <3>1
<1>14. CASE UNCHANGED vars
  BY <1>2, <1>14 DEF vars, jobs
<1> QED
  BY <1>5, <1>6, <1>9, <1>11, <1>12, <1>13, <1>14 DEF Next

\* A run goes back to a step it completed only in a job that reruns it: a recovered start
\* task resumes, a retry enters at the failed step (worker.py, _graph_input).
THEOREM OnlyRerunReturns == ASSUME LeasesAreKept PROVE Spec => OnlyRerunGoesBack
<1>1. TInv /\ Leases /\ Ahead /\ [Next]_vars =>
        /\ Ahead'
        /\ [\A r \in Runs : saved'[r].next < saved[r].next
              => \E j \in Jobs : pc[j] # "idle" /\ R(j) = r /\ job[j].action = "rerun"]_vars
  <2> SUFFICES ASSUME TInv, Leases, Ahead, [Next]_vars
               PROVE  /\ Ahead'
                      /\ \A r \in Runs : saved'[r].next < saved[r].next
                           => \E j \in Jobs : /\ pc[j] # "idle" /\ R(j) = r
                                              /\ job[j].action = "rerun"
    OBVIOUS
  <2>1. ASSUME NEW j \in Jobs, JobStep(j)
        PROVE  /\ Ahead'
               /\ \A r \in Runs : saved'[r].next < saved[r].next
                    => \E k \in Jobs : /\ pc[k] # "idle" /\ R(k) = r
                                       /\ job[k].action = "rerun"
    BY <2>1, StepGoesOn DEF JobStep
  <2>2. CASE \A j \in Jobs : ~JobStep(j)
    <3>1. KeepsPlace /\ UNCHANGED saved
      BY <2>2, RestGoesOn
    <3>2. Ahead'
      BY <3>1, AheadKept
    <3>3. \A r \in Runs : ~(saved[r].next < saved[r].next)
      BY TInvParts, RuntimeAssumption DEF Saved
    <3> QED
      BY <3>1, <3>2, <3>3
  <2> QED
    BY <2>1, <2>2
<1>2. Init => Ahead
  BY DEF Init, Ahead, Inside
<1> QED
  BY <1>1, <1>2, InitTyped, StepTyped, LeasesHold, PTL DEF Spec, OnlyRerunGoesBack

-----------------------------------------------------------------------------
(* What a run's status says, as long as no job is lost: workers do not crash, *)
(* shut down, meet database errors or miss their heartbeats                   *)

NothingLost == Failures \subseteq {"transient", "permanent"}

Moving == {"running", "pausing", "cancelling"}
Doomed(r) == run[r].status \in {"cancelling", "cancelled"}
GivesBack == {"refund", "retry"}

\* A job inside the graph shows; one that makes its run pending gives the task back.
JobFits(j) ==
  pc[j] # "idle" =>
    /\ pc[j] \notin Rescue
    /\ pc[j] \in {"setup", "judge", "set"} \cup Executing => run[R(j)].status \in Moving
    /\ pc[j] = "hset" =>
         run[R(j)].status \in Moving \/ job[j].target \in {"paused", "cancelled"}
    /\ job[j].target = "pending" => job[j].ending \in GivesBack
    /\ pc[j] \in {"end", "hend"} /\ run[R(j)].status = "pending" =>
         job[j].ending \in GivesBack

\* Only a run that is being cancelled loses the job of its task.
RunFits(r) ==
  /\ run[r].control = "cancel" => run[r].status = "cancelling"
  /\ task[r].status = "running" /\ ~Doomed(r) => \E j \in Jobs : Holding(j) /\ R(j) = r
  /\ run[r].status = "pending" => HasActiveTask(r)

ProcsFit ==
  /\ \A w \in Workers : up[w] = "up"
  /\ \A w \in Workers : \A e \in reaped[w] : Doomed(e[1])

Fitting ==
  /\ \A j \in Jobs : JobFits(j)
  /\ \A r \in Runs : RunFits(r)
  /\ ProcsFit

\* A step that concerns one job and its run.
LEMMA FitsOne ==
  ASSUME TInv, Fitting, NEW j \in Jobs, UNCHANGED procs, NEW r \in Runs,
         \A k \in Jobs : pc[k] # "idle" => (k = j <=> R(k) = r),
         JobFits(j)', RunFits(r)', Doomed(r) => Doomed(r)',
         \A q \in Runs \ {r} : run'[q] = run[q] /\ task'[q] = task[q],
         \A k \in Jobs \ {j} : pc'[k] = pc[k] /\ job'[k] = job[k]
  PROVE  Fitting'
<1>1. \A k \in Jobs : pc[k] # "idle" => Holding(k) /\ R(k) \in Runs
  BY JobIsPlaced DEF Fitting, JobFits, Rescue
<1>2. ASSUME NEW k \in Jobs
      PROVE  JobFits(k)'
  <2>1. CASE k = j
    BY <2>1
  <2>2. CASE k # j
    <3>1. pc[k] # "idle" => R(k) # r
      BY <2>2
    <3>2. R(k)' = R(k)
      BY <2>2 DEF R
    <3> QED
      BY <1>1, <2>2, <3>1, <3>2 DEF Fitting, JobFits
  <2> QED
    BY <2>1, <2>2
<1>3. ASSUME NEW q \in Runs
      PROVE  RunFits(q)'
  <2>1. CASE q = r
    BY <2>1
  <2>2. CASE q # r
    <3>1. RunFits(q) /\ run'[q] = run[q] /\ task'[q] = task[q]
      BY <2>2 DEF Fitting
    <3>2. ASSUME NEW k \in Jobs, Holding(k), R(k) = q
          PROVE  Holding(k)' /\ R(k)' = q
      <4>1. pc[k] # "idle"
        BY <3>2 DEF Holding, Busy, Before, Try, Handler, Rescue
      <4>2. k # j
        BY <2>2, <3>2, <4>1
      <4> QED
        BY <3>2, <4>2 DEF Holding, R
    <3> QED
      BY <3>1, <3>2 DEF RunFits, Doomed, HasActiveTask
  <2> QED
    BY <2>1, <2>2
<1>4. ProcsFit'
  <2>1. ASSUME NEW q \in Runs, Doomed(q)
        PROVE  Doomed(q)'
    <3>1. CASE q = r
      BY <2>1, <3>1
    <3>2. CASE q # r
      BY <2>1, <3>2 DEF Doomed
    <3> QED
      BY <3>1, <3>2
  <2>2. \A w \in Workers : \A e \in reaped[w] : e[1] \in Runs
    BY TInvParts DEF ProcsOK
  <2> QED
    BY <2>1, <2>2 DEF Fitting, ProcsFit, procs
<1> QED
  BY <1>2, <1>3, <1>4 DEF Fitting

\* A busy job is the only one of its run.
LEMMA BusyAlone ==
  ASSUME TInv, Leases, Fitting, NEW j \in Jobs, pc[j] # "idle"
  PROVE  /\ \A k \in Jobs : pc[k] # "idle" => (k = j <=> R(k) = R(j))
         /\ Holding(j) /\ Owns(j) /\ R(j) \in Runs
BY JobIsPlaced DEF Fitting, JobFits, Rescue, Leases, HoldersAlone, HoldersOwn

\* The job stays with its run and its task.
LEMMA FitsOn ==
  ASSUME TInv, Leases, Fitting, NEW j \in Jobs, pc[j] # "idle", UNCHANGED <<run, task>>,
         UNCHANGED procs, NEW to \in Busy \ Rescue, pc' = [pc EXCEPT ![j] = to],
         \A k \in Jobs \ {j} : job'[k] = job[k],
         job'[j].run = job[j].run, JobFits(j)'
  PROVE  Fitting'
<1>1. PICK r \in Runs : R(j) = r
  BY JobIsPlaced
<1>2. pc \in [Jobs -> Busy \cup {"idle"}] /\ R(j)' = r
  BY <1>1, JobIsPlaced DEF R
<1>3. Holding(j)' /\ \A k \in Jobs \ {j} : pc'[k] = pc[k]
  BY <1>2 DEF Holding, Rescue
<1>4. RunFits(r)'
  BY <1>2, <1>3 DEF Fitting, RunFits, Doomed, HasActiveTask
<1>5. Doomed(r) => Doomed(r)'
  BY DEF Doomed
<1> QED
  BY <1>1, <1>3, <1>4, <1>5, BusyAlone, FitsOne

\* What a request may do to a run, and to one whose task is claimed.
Requested(r) ==
  /\ \A q \in Runs \ {r} : run'[q] = run[q] /\ task'[q] = task[q]
  /\ HasActiveTask(r) /\ run[r].status \in Moving => run'[r].status \in Moving
  /\ HasActiveTask(r) /\ run'[r].status = "pending" => run[r].status = "pending"
  /\ Doomed(r) => run'[r].status = run[r].status
  /\ run'[r].control = "cancel" => run'[r].status = "cancelling"
  /\ task'[r].status = "running" => task[r].status = "running"
  /\ run'[r].status = "pending" =>
       HasActiveTask(r)' \/ (run[r].status = "pending" /\ UNCHANGED task)
  /\ UNCHANGED <<jobs, procs>>

LEMMA UserRequests ==
  ASSUME TInv, NEW r \in Runs, UserStep(r),
         run[r].control = "cancel" => run[r].status = "cancelling"
  PROVE  Requested(r)
<1>1. run \in [Runs -> RunRow] /\ task \in [Runs -> TaskRow]
  BY TInvParts DEF TasksOK
<1>2. ASSUME NEW action, NEW node, Enqueue(r, action, node)
      PROVE  /\ ~HasActiveTask(r) /\ HasActiveTask(r)' /\ task'[r].status = "queued"
             /\ \A q \in Runs \ {r} : task'[q] = task[q]
  BY <1>1, <1>2 DEF Enqueue, HasActiveTask
<1>3. ASSUME NEW to, Transition(r, to)
      PROVE  /\ run'[r].status = to /\ CanMove(run[r].status, to)
             /\ \A q \in Runs \ {r} : run'[q] = run[q]
             /\ run'[r].control = "cancel" => run[r].control = "cancel"
  BY <1>1, <1>3 DEF Transition, Moved
<1>4. ASSUME CancelQueued(r)
      PROVE  /\ task'[r].status = "running" => task[r].status = "running"
             /\ \A q \in Runs \ {r} : task'[q] = task[q]
  BY <1>1, <1>4 DEF CancelQueued
<1>5. CASE StartRun(r)
  <2>1. /\ run'[r].status = "pending" /\ run'[r].control = run[r].control
        /\ \A q \in Runs \ {r} : run'[q] = run[q]
    BY <1>1, <1>5 DEF StartRun, Moved
  <2> QED
    BY <1>2, <1>5, <2>1 DEF StartRun, Doomed, Requested
<1>6. CASE Resume(r) \/ Retry(r) \/ Rerun(r) \/ Skip(r)
  <2>1. /\ Transition(r, "pending") /\ run[r].status \in {"paused", "failed", "succeeded"}
        /\ \E action, node : Enqueue(r, action, node)
        /\ UNCHANGED <<jobs, procs>>
    BY <1>6 DEF Resume, Retry, Rerun, Skip, ChangeSteps
  <2> QED
    BY <1>2, <1>3, <2>1 DEF Doomed, Requested
<1>7. CASE Pause(r)
  <2>1. UNCHANGED <<jobs, procs>>
    BY <1>7 DEF Pause
  <2>2. CASE run[r].status \in {"pending", "waiting_approval"} /\ CancelQueued(r) /\ Transition(r, "paused")
    BY <1>3, <1>4, <2>1, <2>2 DEF Doomed, Moving, Requested
  <2>3. CASE /\ run[r].status = "running" /\ UNCHANGED task
             /\ run' = [run EXCEPT ![r] = [status |-> "pausing", control |-> "pause"]]
    BY <1>1, <2>1, <2>3 DEF Doomed, Moving, Requested
  <2> QED
    BY <1>7, <2>2, <2>3 DEF Pause
<1>8. CASE Cancel(r)
  <2>1. UNCHANGED <<jobs, procs>>
    BY <1>8 DEF Cancel
  <2>2. CASE CancelNow(r)
    <3>1. /\ run'[r].status = "cancelled" /\ run'[r].control = "none"
          /\ \A q \in Runs \ {r} : run'[q] = run[q]
          /\ run[r].status \in {"pending", "paused", "waiting_approval"} /\ CancelQueued(r)
      BY <1>1, <2>2 DEF CancelNow, Moved
    <3> QED
      BY <1>4, <2>1, <3>1 DEF Doomed, Moving, Requested
  <2>3. CASE CancelLater(r)
    BY <1>1, <2>1, <2>3 DEF CancelLater, Doomed, Moving, Requested
  <2> QED
    BY <1>8, <2>2, <2>3 DEF Cancel
<1>9. CASE Decide(r)
  BY <1>2, <1>9 DEF Decide, Doomed, Requested
<1>10. CASE DecideFromChat(r)
  BY <1>10 DEF DecideFromChat, Doomed, Requested
<1> QED
  BY <1>5, <1>6, <1>7, <1>8, <1>9, <1>10 DEF UserStep

LEMMA UserFits ==
  ASSUME TInv, Leases, Fitting, NEW r \in Runs, UserStep(r)
  PROVE  Fitting'
<1>1. RunFits(r)
  BY DEF Fitting
<1>2. Requested(r)
  BY <1>1, UserRequests DEF RunFits
<1>3. \A j \in Jobs : /\ pc[j] # "idle" => Holding(j) /\ R(j) \in Runs /\ HasActiveTask(R(j))
                      /\ R(j)' = R(j) /\ (Holding(j)' <=> Holding(j))
  BY <1>2, JobIsPlaced
     DEF Fitting, JobFits, Rescue, Leases, HoldersOwn, Owns, HasActiveTask, jobs, R, Holding, Requested
<1>4. ASSUME NEW j \in Jobs
      PROVE  JobFits(j)'
  <2>1. JobFits(j) /\ pc'[j] = pc[j] /\ job'[j] = job[j] /\ R(j)' = R(j)
    BY <1>2, <1>3 DEF Fitting, jobs, Requested
  <2>2. CASE R(j) = r
    BY <1>2, <1>3, <2>1, <2>2 DEF JobFits, Requested
  <2>3. CASE R(j) # r
    BY <1>2, <1>3, <2>1, <2>3 DEF JobFits, Requested
  <2> QED
    BY <2>2, <2>3
<1>5. ASSUME NEW q \in Runs
      PROVE  RunFits(q)'
  <2>1. CASE q = r
    BY <1>1, <1>2, <1>3, <2>1 DEF RunFits, Doomed, HasActiveTask, Requested
  <2>2. CASE q # r
    <3>1. RunFits(q) /\ run'[q] = run[q] /\ task'[q] = task[q]
      BY <1>2, <2>2 DEF Fitting, Requested
    <3> QED
      BY <1>3, <3>1 DEF RunFits, Doomed, HasActiveTask
  <2> QED
    BY <2>1, <2>2
<1>6. ProcsFit'
  <2>1. \A q \in Runs : Doomed(q) => Doomed(q)'
    BY <1>2 DEF Doomed, Requested
  <2>2. \A w \in Workers : \A e \in reaped[w] : e[1] \in Runs
    BY TInvParts DEF ProcsOK
  <2> QED
    BY <1>2, <2>1, <2>2 DEF Fitting, ProcsFit, procs, Requested
<1> QED
  BY <1>4, <1>5, <1>6 DEF Fitting

LEMMA ClaimFits ==
  ASSUME TInv, Leases, Fitting, NEW j \in Jobs, NEW r \in Runs, Claim(j, r)
  PROVE  Fitting'
<1>1. /\ task \in [Runs -> TaskRow]
      /\ pc \in [Jobs -> Busy \cup {"idle"}] /\ job \in [Jobs -> Job \cup {NoJob}]
  BY JobIsPlaced
<1>2. /\ task[r].status = "queued" /\ pc[j] = "idle" /\ pc'[j] = "load"
      /\ task'[r].status = "running"
      /\ \A q \in Runs \ {r} : task'[q] = task[q]
      /\ job'[j].run = r /\ job'[j].target = "running"
      /\ \A k \in Jobs \ {j} : job'[k] = job[k] /\ pc'[k] = pc[k]
      /\ UNCHANGED <<run, procs>>
  BY <1>1 DEF Claim, Claimable
<1>3. \A k \in Jobs : pc[k] # "idle" => (k = j <=> R(k) = r)
  BY <1>2, NobodyHolds, JobIsPlaced DEF Fitting, JobFits, Rescue
<1>4. JobFits(j)'
  BY <1>2 DEF JobFits, Rescue, Executing
<1>5. RunFits(r)'
  <2>1. Holding(j)' /\ R(j)' = r
    BY <1>2 DEF Holding, R, Busy, Before
  <2>2. HasActiveTask(r)'
    BY <1>2 DEF HasActiveTask
  <2> QED
    BY <1>2, <2>1, <2>2 DEF Fitting, RunFits, Doomed
<1>6. Doomed(r) => Doomed(r)'
  BY <1>2 DEF Doomed
<1> QED
  BY <1>2, <1>3, <1>4, <1>5, <1>6, FitsOne

\* A job inside the graph goes on, or decides how it ends.
LEMMA PlanFits ==
  ASSUME TInv, Leases, Fitting, NEW j \in Jobs, pc[j] # "idle", UNCHANGED <<run, task>>,
         UNCHANGED procs, NEW to \in Busy \ Rescue, pc' = [pc EXCEPT ![j] = to],
         NEW target, NEW ending, Plan(j, target, ending),
         target = "pending" => ending \in GivesBack,
         to \in {"setup", "judge", "set"} \cup Executing => run[R(j)].status \in Moving,
         to = "hset" => run[R(j)].status \in Moving \/ target \in {"paused", "cancelled"},
         to \in {"end", "hend"} /\ run[R(j)].status = "pending" => ending \in GivesBack
  PROVE  Fitting'
<1>1. /\ job[j] \in Job /\ pc \in [Jobs -> Busy \cup {"idle"}]
      /\ job \in [Jobs -> Job \cup {NoJob}]
  BY JobIsPlaced
<1>2. /\ job'[j].run = job[j].run /\ job'[j].target = target /\ job'[j].ending = ending
      /\ \A k \in Jobs \ {j} : job'[k] = job[k]
      /\ pc'[j] = to
  BY <1>1 DEF Plan, Job
<1>3. R(j)' = R(j)
  BY <1>2 DEF R
<1>4. JobFits(j)'
  BY <1>2, <1>3 DEF JobFits
<1> QED
  BY <1>2, <1>4, FitsOn

LEMMA GoFits ==
  ASSUME TInv, Leases, Fitting, NEW j \in Jobs, pc[j] # "idle", UNCHANGED <<run, task>>,
         UNCHANGED procs, NEW to \in Busy \ Rescue, pc' = [pc EXCEPT ![j] = to],
         to \notin {"hset", "hend", "end"},
         to \in {"setup", "judge", "set"} \cup Executing => run[R(j)].status \in Moving,
         \A k \in Jobs \ {j} : job'[k] = job[k],
         job'[j].run = job[j].run, job'[j].target = job[j].target,
         job'[j].ending = job[j].ending
  PROVE  Fitting'
<1>1. pc \in [Jobs -> Busy \cup {"idle"}]
  BY JobIsPlaced
<1>2. R(j)' = R(j) /\ pc'[j] = to
  BY <1>1 DEF R
<1>3. JobFits(j)'
  BY <1>2 DEF JobFits, Fitting
<1> QED
  BY <1>3, FitsOn

\* The first transaction of a job: the status of its run.
LEMMA SetFits ==
  ASSUME TInv, Leases, Fitting, NEW j \in Jobs, pc[j] # "idle", Set(j)
  PROVE  Fitting'
<1>1. PICK r \in Runs : R(j) = r
  BY JobIsPlaced
<1>2. /\ job[j] \in Job /\ pc \in [Jobs -> Busy \cup {"idle"}] /\ run \in [Runs -> RunRow]
      /\ job[j].target \in RunStatus /\ run[r] \in RunRow
  BY JobIsPlaced, TInvParts DEF Job
<1>3. /\ JobFits(j) /\ RunFits(r) /\ Owns(j) /\ HasActiveTask(r)
      /\ \A k \in Jobs : pc[k] # "idle" => (k = j <=> R(k) = r)
  BY <1>1, BusyAlone DEF Fitting, Owns, HasActiveTask
<1>4. /\ UNCHANGED <<task, job, procs>>
      /\ run' = [run EXCEPT ![r] = IF MaySet(r, job[j].target)
                                     THEN Moved(run[r], job[j].target) ELSE run[r]]
      /\ pc'[j] \in {"end", "hend"} /\ \A k \in Jobs \ {j} : pc'[k] = pc[k]
      /\ pc[j] = "set" \/ pc[j] = "hset"
  BY <1>1, <1>2 DEF Set, SetRun, Goto
<1>5. R(j)' = r /\ \A q \in Runs \ {r} : run'[q] = run[q]
  BY <1>1, <1>2, <1>4 DEF R
<1>6. CASE ~MaySet(r, job[j].target)
  <2>1. UNCHANGED run
    BY <1>2, <1>4, <1>6
  <2>2. run[r].status # "pending"
    <3>1. CASE run[r].status \in Moving
      BY <3>1 DEF Moving
    <3>2. CASE job[j].target \in {"paused", "cancelled"}
      BY <1>6, <3>2 DEF MaySet, CanMove, RunMoves
    <3> QED
      BY <1>1, <1>3, <1>4, <3>1, <3>2 DEF JobFits
  <2>3. JobFits(j)'
    BY <1>1, <1>3, <1>4, <1>5, <2>1, <2>2 DEF JobFits, Rescue, Executing
  <2>4. Holding(j)'
    BY <1>4 DEF Holding, Busy, Try, Handler
  <2>5. RunFits(r)' /\ (Doomed(r) => Doomed(r)')
    BY <1>3, <1>4, <1>5, <2>1, <2>4 DEF RunFits, Doomed, HasActiveTask
  <2> QED
    BY <1>3, <1>4, <1>5, <2>1, <2>3, <2>5, FitsOne
<1>7. CASE MaySet(r, job[j].target)
  <2>1. /\ run'[r].status = job[j].target
        /\ run'[r].control = IF job[j].target \in {"paused", "cancelled"} THEN "none"
                             ELSE run[r].control
    BY <1>2, <1>4, <1>7 DEF Moved
  <2>2. run[r].status = "cancelling" => job[j].target \in {"cancelling", "cancelled"}
    BY <1>7 DEF MaySet, CanMove, RunMoves
  <2>3. run[r].status = "cancelled" => job[j].target = "cancelled"
    BY <1>7 DEF MaySet, CanMove, RunMoves
  <2>4. JobFits(j)'
    BY <1>3, <1>4, <1>5, <2>1 DEF JobFits, Rescue, Executing
  <2>5. Holding(j)'
    BY <1>4 DEF Holding, Busy, Try, Handler
  <2>6. HasActiveTask(r)'
    BY <1>3, <1>4 DEF HasActiveTask
  <2>7. RunFits(r)' /\ (Doomed(r) => Doomed(r)')
    BY <1>3, <1>5, <2>1, <2>2, <2>3, <2>5, <2>6 DEF RunFits, Doomed
  <2> QED
    BY <1>3, <1>4, <1>5, <2>4, <2>7, FitsOne
<1> QED
  BY <1>6, <1>7

\* The second: its task.
LEMMA EndFits ==
  ASSUME TInv, Leases, Fitting, NEW j \in Jobs, pc[j] # "idle", End(j)
  PROVE  Fitting'
<1>1. PICK r \in Runs : R(j) = r
  BY JobIsPlaced
<1>2. /\ job[j] \in Job /\ pc \in [Jobs -> Busy \cup {"idle"}] /\ task[r] \in TaskRow
      /\ job[j].ending \in Endings /\ task \in [Runs -> TaskRow] /\ task[r].attempt > 0
      /\ job \in [Jobs -> Job \cup {NoJob}]
  BY <1>1, BusyAlone, JobIsPlaced, TInvParts DEF Job, Owns, TasksOK, ClaimsCounted
<1>3. /\ JobFits(j) /\ RunFits(r) /\ Owns(j)
      /\ \A k \in Jobs : pc[k] # "idle" => (k = j <=> R(k) = r)
  BY <1>1, BusyAlone DEF Fitting
<1>4. /\ UNCHANGED <<run, procs>> /\ pc'[j] = "idle"
      /\ task' = [task EXCEPT ![r] = Settled(task[r], job[j].ending)]
      /\ \A k \in Jobs \ {j} : pc'[k] = pc[k] /\ job'[k] = job[k]
      /\ pc[j] \in {"end", "hend"}
  BY <1>1, <1>2, <1>3 DEF End, Settle, Leave
<1>5. Settled(task[r], job[j].ending).status # "running"
  BY <1>2, SettledRow
<1>6. job[j].ending \in GivesBack => Settled(task[r], job[j].ending).status = "queued"
  BY <1>2 DEF Settled, GivesBack, TaskRow
<1>7. JobFits(j)'
  BY <1>4 DEF JobFits
<1>8. RunFits(r)' /\ (Doomed(r) => Doomed(r)')
  BY <1>1, <1>2, <1>3, <1>4, <1>5, <1>6 DEF RunFits, JobFits, Doomed, HasActiveTask
<1>9. \A q \in Runs \ {r} : run'[q] = run[q] /\ task'[q] = task[q]
  BY <1>2, <1>4
<1> QED
  BY <1>3, <1>4, <1>7, <1>8, <1>9, FitsOne

LEMMA StartFits ==
  ASSUME TInv, Leases, Fitting, NEW j \in Jobs, pc[j] # "idle", Start(j)
  PROVE  Fitting'
<1>1. PICK r \in Runs : R(j) = r
  BY JobIsPlaced
<1>2. /\ pc \in [Jobs -> Busy \cup {"idle"}] /\ run \in [Runs -> RunRow]
      /\ {"setup", "hend"} \subseteq Busy \ Rescue
  BY JobIsPlaced, TInvParts DEF Busy, Before, Handler, Rescue
<1>3. /\ JobFits(j) /\ RunFits(r) /\ Owns(j) /\ HasActiveTask(r)
      /\ \A k \in Jobs : pc[k] # "idle" => (k = j <=> R(k) = r)
  BY <1>1, BusyAlone DEF Fitting, Owns, HasActiveTask
<1>4. CASE MaySet(r, "running")
  <2>1. /\ UNCHANGED <<task, job, procs>> /\ pc'[j] = "setup"
        /\ \A k \in Jobs \ {j} : pc'[k] = pc[k]
        /\ run'[r].status = "running" /\ run'[r].control = run[r].control
        /\ \A q \in Runs \ {r} : run'[q] = run[q]
    BY <1>1, <1>2, <1>4 DEF Start, SetRun, Moved, Goto
  <2>2. ~Doomed(r)
    BY <1>4 DEF MaySet, CanMove, RunMoves, Doomed
  <2>3. R(j)' = r /\ Holding(j)'
    BY <1>1, <2>1 DEF R, Holding, Busy, Before
  <2>4. JobFits(j)'
    BY <1>3, <2>1, <2>3 DEF JobFits, Moving, Rescue, Fitting
  <2>5. HasActiveTask(r)'
    BY <1>3, <2>1 DEF HasActiveTask
  <2>6. RunFits(r)'
    BY <1>3, <2>1, <2>2, <2>3, <2>5 DEF RunFits, Doomed
  <2> QED
    BY <1>3, <2>1, <2>2, <2>4, <2>6, FitsOne
<1>5. CASE ~MaySet(r, "running")
  <2>1. /\ UNCHANGED <<run, task, procs>> /\ pc' = [pc EXCEPT ![j] = "hend"]
        /\ Plan(j, "cancelled", "cancelled")
    BY <1>1, <1>2, <1>5 DEF Start, SetRun, Goto
  <2>2. run[R(j)].status # "pending"
    BY <1>1, <1>5 DEF MaySet, CanMove, RunMoves
  <2> QED
    BY <1>2, <2>1, <2>2, PlanFits DEF Executing
<1> QED
  BY <1>4, <1>5

LEMMA SetupFits ==
  ASSUME TInv, Leases, Fitting, NEW j \in Jobs, pc[j] # "idle", Setup(j)
  PROVE  Fitting'
<1>1. /\ pc[j] = "setup" /\ run[R(j)].status \in Moving
      /\ {"boundary", "hset"} \subseteq Busy \ Rescue /\ UNCHANGED <<run, task, procs>>
      /\ job[j] \in Job /\ job \in [Jobs -> Job \cup {NoJob}]
  <2>1. pc[j] = "setup" /\ UNCHANGED <<run, task, procs>> /\ job[j].action \in Actions
    BY JobIsPlaced DEF Setup, EnterStart, Enter, Refuse, Goto, Job, Actions
  <2> QED
    BY <2>1, JobIsPlaced DEF Fitting, JobFits, Busy, Try, Handler, Rescue
<1>2. ASSUME NEW s, NEW n, Enter(j, s, n)
      PROVE  Fitting'
  <2>1. /\ pc' = [pc EXCEPT ![j] = "boundary"]
        /\ \A k \in Jobs \ {j} : job'[k] = job[k]
        /\ job'[j].run = job[j].run /\ job'[j].target = job[j].target
        /\ job'[j].ending = job[j].ending
    BY <1>1, <1>2 DEF Enter, Goto, Job
  <2> QED
    BY <1>1, <2>1, GoFits
<1>3. ASSUME Refuse(j, "hset")
      PROVE  Fitting'
  BY <1>1, <1>3, PlanFits DEF Refuse, Goto, Executing
<1>4. job[j].action \in Actions
  BY <1>1 DEF Job
<1> QED
  BY <1>2, <1>3, <1>4 DEF Setup, EnterStart, Actions

\* A step of the graph ends.
LEMMA StepFits ==
  ASSUME TInv, Leases, Fitting, NEW j \in Jobs, pc[j] \in {"node", "acted"},
         Work(j) \/ Answered(j) \/ Acted(j)
  PROVE  Fitting'
<1>1. /\ pc' = [pc EXCEPT ![j] = "boundary"] /\ UNCHANGED <<run, task, procs>>
      /\ \E ok : StepEnds(j, ok)
  BY DEF Work, Answered, Acted, Goto
<1>2. /\ run[R(j)].status \in Moving /\ "boundary" \in Busy \ Rescue
      /\ job[j] \in Job /\ job \in [Jobs -> Job \cup {NoJob}]
  BY JobIsPlaced DEF Fitting, JobFits, Executing, Busy, Try, Rescue
<1>3. /\ \A k \in Jobs \ {j} : job'[k] = job[k]
      /\ job'[j].run = job[j].run /\ job'[j].target = job[j].target
      /\ job'[j].ending = job[j].ending
  BY <1>1, <1>2 DEF StepEnds, Job
<1> QED
  BY <1>1, <1>2, <1>3, GoFits

LEMMA JobStepFits ==
  ASSUME TInv, Leases, Fitting, NEW j \in Jobs, JobStep(j)
  PROVE  Fitting'
<1>1. /\ pc[j] # "idle" /\ JobFits(j) /\ R(j) \in Runs /\ RunFits(R(j))
      /\ Busy \ Rescue = Before \cup Try \cup Handler
  BY BusyAlone DEF JobStep, Fitting, Busy, Before, Try, Handler, Rescue
<1>2. CASE Load(j)
  <2>1. UNCHANGED <<run, task, procs>>
    BY <1>2 DEF Load, rows
  <2>2. ASSUME NEW target \in {"cancelled", "paused"}, NEW ending, Plan(j, target, ending),
               pc' = [pc EXCEPT ![j] = "hset"]
        PROVE  Fitting'
    <3>1. "hset" \in Busy \ Rescue
      BY <1>1 DEF Handler
    <3> QED
      BY <1>1, <2>1, <2>2, <3>1, PlanFits DEF Executing
  <2>3. CASE pc' = [pc EXCEPT ![j] = "start"] /\ UNCHANGED job
    BY <1>1, <2>1, <2>3, GoFits DEF Before, Executing
  <2> QED
    BY <1>2, <2>2, <2>3 DEF Load, Goto
<1>3. CASE Start(j)
  BY <1>1, <1>3, StartFits
<1>4. CASE Setup(j)
  BY <1>1, <1>4, SetupFits
<1>5. CASE Proceed(j) \/ StreamEnds(j) \/ Ask(j) \/ Act(j)
  <2>1. /\ UNCHANGED <<run, task, job, procs>> /\ pc[j] \in {"boundary", "node"}
        /\ \E to \in {"node", "judge", "acted"} : pc' = [pc EXCEPT ![j] = to]
    BY <1>5 DEF Proceed, StreamEnds, Ask, Act, Goto, rows
  <2>2. run[R(j)].status \in Moving
    BY <1>1, <2>1 DEF JobFits, Executing
  <2>3. {"node", "judge", "acted"} \subseteq Busy \ Rescue
    BY <1>1 DEF Try
  <2>4. PICK to \in {"node", "judge", "acted"} : pc' = [pc EXCEPT ![j] = to]
    BY <2>1
  <2> QED
    BY <1>1, <2>1, <2>2, <2>3, <2>4, GoFits
<1>6. CASE Drained(j)
  <2>1. /\ UNCHANGED <<run, task, procs>> /\ pc' = [pc EXCEPT ![j] = "hset"]
        /\ pc[j] = "boundary"
    BY <1>6 DEF Drained, Goto, rows
  <2>2. run[R(j)].status \in Moving /\ "hset" \in Busy \ Rescue
    BY <1>1, <2>1 DEF JobFits, Executing, Handler
  <2>3. \/ Plan(j, "paused", "succeeded") \/ Plan(j, "cancelled", "cancelled")
        \/ Plan(j, "pending", "refund")
    BY <1>6 DEF Drained
  <2>4. PICK target, ending : Plan(j, target, ending) /\ (target = "pending" => ending \in GivesBack)
    BY <2>3 DEF GivesBack
  <2> QED
    BY <1>1, <2>1, <2>2, <2>4, PlanFits DEF Executing
<1>7. CASE Work(j) \/ Answered(j) \/ Acted(j)
  BY <1>7, StepFits DEF Work, Answered, Acted, Goto
<1>8. CASE Judge(j)
  <2>1. /\ UNCHANGED <<run, task, procs>> /\ pc' = [pc EXCEPT ![j] = "set"]
        /\ pc[j] = "judge"
    BY <1>8 DEF Judge, Goto, rows
  <2>2. run[R(j)].status \in Moving /\ "set" \in Busy \ Rescue
    BY <1>1, <2>1 DEF JobFits, Try
  <2>3. \/ Plan(j, "waiting_approval", "succeeded") \/ Plan(j, "pending", "refund")
        \/ Plan(j, "succeeded", "succeeded")
    BY <1>8 DEF Judge
  <2>4. PICK target, ending : Plan(j, target, ending) /\ (target = "pending" => ending \in GivesBack)
    BY <2>3 DEF GivesBack
  <2> QED
    BY <1>1, <2>1, <2>2, <2>4, PlanFits DEF Executing
<1>9. CASE Set(j)
  BY <1>1, <1>9, SetFits
<1>10. CASE End(j)
  BY <1>1, <1>10, EndFits
<1>11. ~RescueEnd(j) /\ ~RescueSet(j)
  BY <1>1 DEF RescueEnd, RescueSet, Goto, JobFits, Rescue
<1> QED
  BY <1>2, <1>3, <1>4, <1>5, <1>6, <1>7, <1>8, <1>9, <1>10, <1>11 DEF JobStep

LEMMA NodeFailsFits ==
  ASSUME TInv, Leases, Fitting, NEW j \in Jobs, NodeFails(j)
  PROVE  Fitting'
<1>1. /\ UNCHANGED <<run, task, procs>> /\ pc' = [pc EXCEPT ![j] = "hset"]
      /\ pc[j] \in {"node", "acted"} /\ pc[j] # "idle"
      /\ Plan(j, "pending", "retry") \/ Plan(j, "failed", "failed")
  BY DEF NodeFails, RetryOrFail, rows
<1>2. run[R(j)].status \in Moving /\ "hset" \in Busy \ Rescue
  BY <1>1 DEF Fitting, JobFits, Executing, Busy, Handler, Rescue
<1>3. PICK target, ending : Plan(j, target, ending) /\ (target = "pending" => ending \in GivesBack)
  BY <1>1 DEF GivesBack
<1> QED
  BY <1>1, <1>2, <1>3, PlanFits DEF Executing

\* A heartbeat takes the job away only from a run that is being cancelled.
LEMMA HeartbeatFits ==
  ASSUME TInv, Leases, Fitting, NEW j \in Jobs, Heartbeat(j)
  PROVE  Fitting'
<1>1. PICK r \in Runs : R(j) = r
  BY JobIsPlaced, TInvParts DEF Heartbeat, JobsInv, JobsOK
<1>2. /\ pc[j] # "idle" /\ job[j] \in Job /\ task \in [Runs -> TaskRow]
      /\ pc \in [Jobs -> Busy \cup {"idle"}] /\ job \in [Jobs -> Job \cup {NoJob}]
  BY TInvParts, JobIsPlaced DEF Heartbeat, JobsInv, JobsOK
<1>3. /\ JobFits(j) /\ RunFits(r) /\ Holding(j) /\ Owns(j)
      /\ \A k \in Jobs : pc[k] # "idle" => (k = j <=> R(k) = r)
  BY <1>1, <1>2, BusyAlone DEF Fitting
<1>4. UNCHANGED <<run, task, procs>>
  <2>1. task' = [task EXCEPT ![r].expired = FALSE] /\ UNCHANGED <<run, procs>>
    BY <1>1, <1>3 DEF Heartbeat
  <2>2. task[r].expired = FALSE
    BY <1>1, <1>2, <1>3 DEF Leases, HoldersOwn, TaskRow
  <2>3. [task[r] EXCEPT !.expired = FALSE] = task[r]
    BY <1>2, <2>2 DEF TaskRow
  <2> QED
    BY <1>2, <2>1, <2>3
<1>5. CASE UNCHANGED jobs
  <2>1. /\ pc' = pc /\ job' = job /\ R(j)' = r
    BY <1>1, <1>5 DEF jobs, R
  <2>2. JobFits(j)'
    BY <1>1, <1>3, <1>4, <2>1 DEF JobFits
  <2>3. Holding(j)'
    BY <1>3, <2>1 DEF Holding
  <2>4. RunFits(r)' /\ (Doomed(r) => Doomed(r)')
    BY <1>3, <1>4, <2>1, <2>3 DEF RunFits, Doomed, HasActiveTask
  <2> QED
    BY <1>3, <1>4, <2>1, <2>2, <2>4, FitsOne
<1>6. ASSUME NEW d, job' = [job EXCEPT ![j].drain = d], UNCHANGED pc
      PROVE  Fitting'
  <2>1. /\ job'[j].run = job[j].run /\ job'[j].target = job[j].target
        /\ job'[j].ending = job[j].ending
        /\ \A k \in Jobs \ {j} : job'[k] = job[k] /\ pc'[k] = pc[k]
        /\ pc'[j] = pc[j] /\ R(j)' = r
    BY <1>1, <1>2, <1>6 DEF Job, R
  <2>2. JobFits(j)'
    BY <1>1, <1>3, <1>4, <2>1 DEF JobFits
  <2>3. Holding(j)'
    BY <1>3, <2>1 DEF Holding
  <2>4. RunFits(r)' /\ (Doomed(r) => Doomed(r)')
    BY <1>3, <1>4, <2>1, <2>3 DEF RunFits, Doomed, HasActiveTask
  <2> QED
    BY <1>3, <1>4, <2>1, <2>2, <2>4, FitsOne
<1>7. ASSUME run[r].control = "cancel", CancelJob(j, "cancel")
      PROVE  Fitting'
  <2>1. Doomed(r) /\ run[r].status = "cancelling"
    BY <1>3, <1>7 DEF RunFits, Doomed
  <2>2. /\ \A k \in Jobs \ {j} : pc'[k] = pc[k] /\ job'[k] = job[k]
        /\ \/ pc'[j] = "idle"
           \/ /\ pc'[j] = "hset" /\ job'[j].target = "cancelled" /\ job'[j].run = r
    BY <1>1, <1>2, <1>7 DEF CancelJob, Leave, Job, R
  <2>3. JobFits(j)'
    BY <2>2 DEF JobFits, Rescue, Executing
  <2>4. RunFits(r)' /\ (Doomed(r) => Doomed(r)')
    BY <1>3, <1>4, <2>1 DEF RunFits, Doomed, HasActiveTask
  <2> QED
    BY <1>3, <1>4, <2>2, <2>3, <2>4, FitsOne
<1> QED
  BY <1>1, <1>3, <1>5, <1>6, <1>7 DEF Heartbeat

\* A lease runs out only for a run that is being cancelled.
LEMMA LeaseFits ==
  ASSUME TInv, Fitting, NothingLost, NEW r \in Runs, LeaseExpires(r)
  PROVE  Fitting'
<1>1. /\ task \in [Runs -> TaskRow] /\ task' = [task EXCEPT ![r].expired = TRUE]
      /\ UNCHANGED <<run, jobs, procs>>
  BY TInvParts DEF LeaseExpires, TasksOK
<1>2. \A q \in Runs : task'[q].status = task[q].status
  BY <1>1 DEF TaskRow
<1>3. /\ pc' = pc /\ job' = job /\ up' = up /\ reaped' = reaped /\ run' = run
  BY <1>1 DEF jobs, procs
<1>4. \A j \in Jobs : JobFits(j)'
  BY <1>3 DEF Fitting, JobFits, R
<1>5. \A q \in Runs : RunFits(q)'
  BY <1>2, <1>3 DEF Fitting, RunFits, Doomed, HasActiveTask, Holding, R
<1>6. ProcsFit'
  BY <1>3 DEF Fitting, ProcsFit, Doomed
<1> QED
  BY <1>4, <1>5, <1>6 DEF Fitting

\* So it is for such a run only that a reaper requeues or fails the task, and the
\* machine lets it write nothing.
LEMMA WorkerFits ==
  ASSUME TInv, Leases, Fitting, NothingLost, NEW w \in Workers, WorkerStep(w)
  PROVE  Fitting'
<1>1. /\ task \in [Runs -> TaskRow] /\ run \in [Runs -> RunRow]
      /\ \A v \in Workers : \A e \in reaped[v] : e[1] \in Runs /\ e[2] \in {"pending", "failed"}
      /\ reaped \in [Workers -> SUBSET (Runs \X {"pending", "failed"})]
  BY TInvParts DEF TasksOK, ProcsOK
<1>2. ASSUME NEW r \in Runs, Reap(w, r)
      PROVE  Fitting'
  <2> DEFINE e == <<r, IF task[r].attempt < MaxAttempts THEN "pending" ELSE "failed">>
             t == Settled(task[r], IF task[r].attempt < MaxAttempts THEN "retry" ELSE "failed")
  <2>1. /\ UNCHANGED <<run, jobs, up>> /\ task' = [task EXCEPT ![r] = t]
        /\ reaped' = [reaped EXCEPT ![w] = @ \cup {e}]
        /\ task[r].status = "running" /\ task[r].expired
    BY <1>2 DEF Reap, Reapable
  <2>2. \A j \in Jobs : pc[j] # "idle" => R(j) # r
    BY <2>1, NobodyHolds, JobIsPlaced DEF Fitting, JobFits, Rescue
  <2>3. Doomed(r)
    <3>1. \A j \in Jobs : Holding(j) => pc[j] # "idle"
      BY DEF Holding, Busy, Before, Try, Handler, Rescue
    <3> QED
      BY <2>1, <2>2, <3>1 DEF Fitting, RunFits
  <2>4. e[1] = r
    OBVIOUS
  <2> HIDE DEF e, t
  <2>5. /\ pc' = pc /\ job' = job /\ up' = up /\ run' = run
        /\ \A q \in Runs \ {r} : task'[q] = task[q]
        /\ \A v \in Workers : reaped'[v] \subseteq reaped[v] \cup {e}
    BY <1>1, <2>1 DEF jobs
  <2>6. \A j \in Jobs : JobFits(j)'
    BY <2>5 DEF Fitting, JobFits, R
  <2>7. ASSUME NEW q \in Runs
        PROVE  RunFits(q)'
    <3>1. CASE q = r
      BY <2>3, <2>5, <3>1 DEF Fitting, RunFits, Doomed
    <3>2. CASE q # r
      BY <2>5, <3>2 DEF Fitting, RunFits, Doomed, HasActiveTask, Holding, R
    <3> QED
      BY <3>1, <3>2
  <2>8. ProcsFit'
    BY <2>3, <2>4, <2>5 DEF Fitting, ProcsFit, Doomed
  <2> QED
    BY <2>6, <2>7, <2>8 DEF Fitting
<1>3. CASE ReapSet(w)
  <2>1. PICK e \in reaped[w] : SetRun(e[1], e[2]) /\ reaped' = [reaped EXCEPT ![w] = @ \ {e}]
    BY <1>3 DEF ReapSet
  <2>2. Doomed(e[1]) /\ e[1] \in Runs /\ e[2] \in {"pending", "failed"}
    BY <1>1, <2>1 DEF Fitting, ProcsFit
  <2>3. ~MaySet(e[1], e[2])
    BY <2>2 DEF MaySet, CanMove, RunMoves, Doomed
  <2>4. run' = run /\ task' = task /\ pc' = pc /\ job' = job /\ up' = up
    BY <1>1, <1>3, <2>1, <2>2, <2>3 DEF ReapSet, SetRun, jobs
  <2>5. \A v \in Workers : reaped'[v] \subseteq reaped[v]
    BY <1>1, <2>1
  <2>6. \A j \in Jobs : JobFits(j)'
    BY <2>4 DEF Fitting, JobFits, R
  <2>7. \A q \in Runs : RunFits(q)'
    BY <2>4 DEF Fitting, RunFits, Doomed, HasActiveTask, Holding, R
  <2>8. ProcsFit'
    BY <2>4, <2>5 DEF Fitting, ProcsFit, Doomed
  <2> QED
    BY <2>6, <2>7, <2>8 DEF Fitting
<1>4. ~ReaperFault(w) /\ ~Shutdown(w) /\ ~Crash(w)
  BY DEF ReaperFault, Shutdown, Crash, Mishap, NothingLost
<1>5. ~Stopped(w)
  BY DEF Stopped, Fitting, ProcsFit
<1> QED
  BY <1>2, <1>3, <1>4, <1>5 DEF WorkerStep

LEMMA FittingStep == NothingLost /\ TInv /\ Leases /\ Fitting /\ [Next]_vars => Fitting'
<1> SUFFICES ASSUME NothingLost, TInv, Leases, Fitting, [Next]_vars
             PROVE  Fitting'
  OBVIOUS
<1>1. ASSUME NEW j \in Jobs
      PROVE  ~Fault(j) /\ ~GraceEnds(j)
  <2>1. up[Host(j)] = "up"
    BY DEF Fitting, ProcsFit, Jobs, Host
  <2> QED
    BY <2>1 DEF Fault, GraceEnds, Mishap, NothingLost
<1>2. CASE UNCHANGED vars
  <2>1. run' = run /\ task' = task /\ pc' = pc /\ job' = job /\ up' = up /\ reaped' = reaped
    BY <1>2 DEF vars
  <2> QED
    BY <2>1 DEF Fitting, JobFits, RunFits, ProcsFit, Doomed, HasActiveTask, Holding, R
<1> QED
  BY <1>1, <1>2, UserFits, LeaseFits, ClaimFits, JobStepFits, NodeFailsFits, HeartbeatFits,
     WorkerFits DEF Next

LEMMA FittingInit == Init => Fitting
BY DEF Init, Fitting, JobFits, RunFits, ProcsFit, Doomed, HasActiveTask

LEMMA FittingHolds == ASSUME NothingLost PROVE Spec => []Fitting
<1>1. LeasesAreKept
  BY DEF NothingLost, LeasesAreKept
<1>2. Spec => []Leases
  BY <1>1, LeasesHold
<1> QED
  BY <1>2, InitTyped, StepTyped, FittingInit, FittingStep, PTL DEF Spec

\* While a step of a run's graph is being executed the run shows as running, pausing
\* or cancelling, never as at rest, as long as jobs are not lost (worker.py, _advance
\* and its _set_run calls).  A crash, a shutdown, a database error or a late heartbeat
\* is each enough to make it false: a reaper or a refund then writes the status in a
\* transaction of its own, after the next job may have started.
THEOREM ExecutingIsShown == ASSUME NothingLost PROVE Spec => []ExecutingShows
<1>1. Fitting => ExecutingShows
  BY DEF Fitting, JobFits, ExecutingShows, Executing, Moving
<1> QED
  BY <1>1, FittingHolds, PTL

\* A run that shows as pending has a queued or running task, so that a worker will
\* advance it, as long as jobs are not lost.  Each of the four makes it false.
THEOREM PendingIsQueued == ASSUME NothingLost PROVE Spec => []PendingHasTask
<1>1. Fitting => PendingHasTask
  BY DEF Fitting, RunFits, PendingHasTask
<1> QED
  BY <1>1, FittingHolds, PTL
=============================================================================
