--------------------------- MODULE ApplicationsProofs ---------------------------
(***************************************************************************)
(* What the employer receives, for any number of positions, browser runs    *)
(* and forms:                                                               *)
(*   - a form is sent once, and stays recorded as sent or in doubt, when no *)
(*     two runs of one application are at work together (Delivery);         *)
(*   - what is sent under an approval is what the approval showed, however  *)
(*     the runs overlap (Shown).                                            *)
(* Both invariants speak of the browser thread beside its run: a thread     *)
(* that somebody waits for belongs to a run that is sending, and a stray    *)
(* one can only press the button for an application that is recorded as     *)
(* being submitted.  Each invariant has one lemma per group of actions.     *)
(***************************************************************************)
EXTENDS Applications, TLAPS

-----------------------------------------------------------------------------
(* The invariant: one submission at a time, and no second one *)

Busy(r)     == run[r].state \notin Ended
\* The browser thread of r may press the button yet
MayPress(r) == thread[r] \in {"open", "stray"}
RunsOf(a)   == {r \in Runs : run[r].app = a}
\* A form is about to be filled in, or sent; it is being sent; both of the latter
Filling(r)    == Executing(r) /\ run[r].at \in {"filling", "entering"}
Sending(r)    == Executing(r) /\ run[r].at = "sending"
Submitting(r) == Executing(r) /\ run[r].at \in {"entering", "sending"}

\* Runs of one application are not at work together
Alone == \A r, q \in Runs : run[r].app = run[q].app /\ Busy(r) /\ Busy(q) => r = q

MidStep == {"filling", "entering", "sending", "watching"}

\* A run at rest is at the start of a step; one that waits does so for its approval
AtRest ==
  \A r \in Runs :
    /\ run[r].state = "failed" => run[r].at \notin MidStep
    /\ run[r].state = "waiting" => run[r].at = "approve"

\* Somebody waits for a thread that is not a stray one
ThreadsAwaited ==
  \A r \in Runs : thread[r] \in {"open", "changed", "sent"} => Sending(r)

\* The employer of a has not received the form and no thread will send it
Unsent(a) == sent[a] = 0 /\ \A r \in RunsOf(a) : ~MayPress(r)

SentRecorded(a) == sent[a] > 0 => sent[a] = 1 /\ Status(a) \in Out

\* A thread that may press the button is the only one, has not, and is recorded
PressRecorded(a) ==
  \A r \in RunsOf(a) : MayPress(r) =>
    /\ sent[a] = 0
    /\ Status(a) \in Out
    /\ \A q \in RunsOf(a) : MayPress(q) => q = r

SendingRecorded(a) ==
  \A r \in RunsOf(a) :
    /\ Submitting(r) => Status(a) \in Out
    /\ Sending(r) /\ (ledger[r] = "refused" \/ thread[r] = "changed") => Unsent(a)

FillingUnsent(a) == \A r \in RunsOf(a) : Filling(r) => Unsent(a)

Delivered(a) == SentRecorded(a) /\ PressRecorded(a) /\ SendingRecorded(a) /\ FillingUnsent(a)

Delivery ==
  /\ TypeOK
  /\ Alone
  /\ AtRest
  /\ ThreadsAwaited
  /\ \A a \in Apps : ~denied[a] => Delivered(a)

-----------------------------------------------------------------------------
(* The invariant: what is sent under an approval is what was approved *)

\* Where the run is, what its form was and what its request shows agree
Shows(r) ==
  /\ Filling(r) => run[r].inputs # Nothing
  /\ run[r].at \in {"approve", "submit", "entering", "sending"} => run[r].digest # Nothing
  /\ run[r].digest # Nothing /\ ~run[r].refilled =>
       /\ approval[r] = "none" => app[run[r].app].form = run[r].digest
       /\ approval[r] \in {"pending", "approved"} => run[r].shown = run[r].digest
  /\ thread[r] \in {"open", "sent"} => run[r].inputs = run[r].digest

Shown ==
  /\ TypeOK
  /\ ThreadsAwaited
  /\ AtRest
  /\ \A r \in Runs : Shows(r)

-----------------------------------------------------------------------------
(* Types *)

LEMMA Moves ==
  ASSUME TypeOK, NEW a \in Apps, NEW new \in AppRow, NEW t \in ApplicationStatus, Move(a, new, t)
  PROVE  /\ app' \in [Apps -> AppRow]
         /\ app'[a] = [new EXCEPT !.status = t]
         /\ app'[a].status = t /\ app'[a].form = new.form
         /\ \A b \in Apps \ {a} : app'[b] = app[b]
         /\ CanMove(new.status, t)
<1>1. [new EXCEPT !.status = t] \in AppRow /\ [new EXCEPT !.status = t].status = t
      /\ [new EXCEPT !.status = t].form = new.form
  BY DEF AppRow
<1> QED
  BY <1>1 DEF Move, TypeOK

\* An application that is being submitted, or was, leaves those statuses only so
LEMMA LeavesOut ==
  ASSUME NEW s, NEW t, CanMove(s, t), s \in Out, t \notin Out
  PROVE  \/ s = "submitting" /\ t \in {"needs_user_action", "failed"}
         \/ s = "submission_uncertain" /\ t \in {"approved", "failed"}
BY DEF CanMove, ApplicationMoves, Out, ActivePreSubmit

\* Statuses from which a move to t leaves what the employer may have received
LEMMA StaysOut ==
  ASSUME TypeOK, NEW a \in Apps, NEW new \in AppRow, new.status = Status(a),
         NEW t \in ApplicationStatus, Move(a, new, t),
         t \in Out \/ t \notin {"needs_user_action", "failed", "approved"}
  PROVE  \A b \in Apps : Status(b) \in Out => app'[b].status \in Out
<1>1. app'[a].status = t /\ CanMove(new.status, t) /\ \A b \in Apps \ {a} : app'[b] = app[b]
  BY Moves
<1>2. Status(a) \in Out => t \in Out
  <2>1. ASSUME Status(a) \in Out, t \notin Out
        PROVE  t \in {"needs_user_action", "failed", "approved"}
    BY <1>1, <2>1, LeavesOut
  <2> QED
    BY <2>1
<1> QED
  BY <1>1, <1>2 DEF Status

LEMMA TypeStarts == Init => TypeOK
BY ApplicationAssumption
   DEF Init, TypeOK, AppRow, RunRow, RunStates, Approvals, Ledger, Threads, Outcomes,
       ApplicationStatus

LEMMA UserTypes ==
  ASSUME TypeOK, NEW a \in Apps, UserOnApplication(a)
  PROVE  /\ TypeOK'
         /\ \A b \in Apps : ~denied'[b] /\ Status(b) \in Out => app'[b].status \in Out
<1>1. app[a] \in AppRow /\ Status(a) = app[a].status
  BY DEF TypeOK, Status
<1>2. ASSUME NEW u \in BOOLEAN, NEW v \in Answers
      PROVE  /\ [app[a] EXCEPT !.status = "preparing", !.url = u, !.answers = v] \in AppRow
             /\ [app[a] EXCEPT !.answers = v] \in AppRow /\ [app[a] EXCEPT !.url = u] \in AppRow
             /\ [app[a] EXCEPT !.answers = v].status = Status(a)
             /\ [app[a] EXCEPT !.url = u].status = Status(a)
  BY <1>1 DEF AppRow, ApplicationStatus
<1>3. CASE CreateApplication(a)
  <2>1. PICK u \in BOOLEAN, v \in Answers :
          app' = [app EXCEPT ![a].status = "preparing", ![a].url = u, ![a].answers = v]
    BY <1>3 DEF CreateApplication
  <2>2. app' = [app EXCEPT ![a] = [app[a] EXCEPT !.status = "preparing", !.url = u, !.answers = v]]
    BY <1>1, <2>1 DEF TypeOK, AppRow
  <2>3. Status(a) \notin Out
    BY <1>1, <1>3 DEF CreateApplication, Exists, Out
  <2>4. TypeOK'
    BY <1>2, <1>3, <2>2 DEF CreateApplication, TypeOK
  <2>5. \A b \in Apps \ {a} : app'[b] = app[b]
    BY <2>2 DEF TypeOK
  <2> QED
    BY <2>3, <2>4, <2>5 DEF Status
<1>4. CASE UpdateApplication(a) \/ RecordAnswer(a)
  <2>1. \/ \E v \in Answers : app' = [app EXCEPT ![a].answers = v]
        \/ \E u \in BOOLEAN : app' = [app EXCEPT ![a].url = u]
    BY <1>4 DEF UpdateApplication, RecordAnswer
  <2>2. PICK new \in AppRow : new.status = app[a].status /\ app' = [app EXCEPT ![a] = new]
    <3>1. CASE \E v \in Answers : app' = [app EXCEPT ![a].answers = v]
      BY <1>1, <1>2, <3>1
    <3>2. CASE \E u \in BOOLEAN : app' = [app EXCEPT ![a].url = u]
      BY <1>1, <1>2, <3>2, ApplicationAssumption
    <3> QED
      BY <2>1, <3>1, <3>2
  <2>3. app' \in [Apps -> AppRow] /\ \A b \in Apps : app'[b].status = app[b].status
    BY <1>1, <2>2 DEF TypeOK
  <2> QED
    BY <1>4, <2>3 DEF UpdateApplication, RecordAnswer, TypeOK, Status
<1>5. ASSUME NEW t \in UserTargets, ChangeStatus(a, t)
      PROVE  TypeOK' /\ \A b \in Apps : Status(b) \in Out => app'[b].status \in Out
  <2> DEFINE new == [app[a] EXCEPT
                       !.submitted = (t = "submitted") \/ @,
                       !.evidence = IF t = "submitted" THEN "user" ELSE @,
                       !.blocker = IF t = "paused" THEN @ ELSE "none"]
  <2>1. t \in ApplicationStatus /\ t \notin {"needs_user_action", "failed", "approved"}
    BY DEF UserTargets, ApplicationStatus
  <2>2. new \in AppRow /\ new.status = Status(a)
    BY <1>1 DEF AppRow
  <2>3. Move(a, new, t) /\ UNCHANGED <<run, approval, ledger, thread, sent, denied>>
    BY <1>5 DEF ChangeStatus
  <2> HIDE DEF new
  <2>4. app' \in [Apps -> AppRow]
    BY <2>1, <2>2, <2>3, Moves
  <2> QED
    BY <2>1, <2>2, <2>3, <2>4, StaysOut DEF TypeOK
<1>6. ASSUME NEW arrived \in BOOLEAN, ResolveUncertain(a, arrived)
      PROVE  TypeOK' /\ \A b \in Apps : ~denied'[b] /\ Status(b) \in Out => app'[b].status \in Out
  <2>1. /\ {"submitted", "approved"} \subseteq ApplicationStatus /\ "submitted" \in Out
        /\ [app[a] EXCEPT !.submitted = TRUE, !.evidence = "user"] \in AppRow
        /\ [app[a] EXCEPT !.submitted = TRUE, !.evidence = "user"].status = Status(a)
    BY <1>1 DEF AppRow, ApplicationStatus, Out
  <2>2. denied' \in [Apps -> BOOLEAN] /\ denied'[a] = (denied[a] \/ ~arrived)
    BY <1>6 DEF ResolveUncertain, TypeOK
  <2>3. app' \in [Apps -> AppRow] /\ \A b \in Apps \ {a} : app'[b] = app[b]
    BY <1>1, <1>6, <2>1, Moves DEF ResolveUncertain
  <2>4. ASSUME arrived PROVE app'[a].status = "submitted"
    <3>1. Move(a, [app[a] EXCEPT !.submitted = TRUE, !.evidence = "user"], "submitted")
      BY <1>6, <2>4 DEF ResolveUncertain
    <3>2. "submitted" \in ApplicationStatus
      BY <2>1
    <3> DEFINE new == [app[a] EXCEPT !.submitted = TRUE, !.evidence = "user"]
    <3> HIDE DEF new
    <3>3. new \in AppRow /\ Move(a, new, "submitted")
      BY <2>1, <3>1 DEF new
    <3> QED
      BY <3>2, <3>3, Moves
  <2> QED
    <3>1. TypeOK'
      <4>1. UNCHANGED <<run, approval, ledger, thread, sent>>
        BY <1>6 DEF ResolveUncertain
      <4> QED
        BY <2>2, <2>3, <4>1 DEF TypeOK
    <3>2. ~denied'[a] => app'[a].status \in Out
      BY <2>1, <2>2, <2>4
    <3>3. \A b \in Apps \ {a} : Status(b) \in Out => app'[b].status \in Out
      BY <2>3 DEF Status
    <3>4. \A b \in Apps : ~denied'[b] /\ Status(b) \in Out => app'[b].status \in Out
      BY <3>2, <3>3
    <3> QED
      BY <3>1, <3>4
<1> QED
  BY <1>3, <1>4, <1>5, <1>6 DEF UserOnApplication

LEMMA UserKeepsForms ==
  ASSUME TypeOK, NEW a \in Apps, UserOnApplication(a)
  PROVE  \A b \in Apps : app'[b].form = app[b].form
<1>1. app \in [Apps -> AppRow] /\ app[a] \in AppRow
  BY DEF TypeOK
<1>2. ASSUME NEW new \in AppRow, new.form = app[a].form, NEW t \in ApplicationStatus, Move(a, new, t)
      PROVE  \A b \in Apps : app'[b].form = app[b].form
  <2>1. app'[a].form = new.form /\ \A b \in Apps \ {a} : app'[b] = app[b]
    BY <1>2, Moves
  <2> QED
    BY <1>2, <2>1
<1>3. CASE CreateApplication(a)
  <2>1. PICK u \in BOOLEAN, v \in Answers :
          app' = [app EXCEPT ![a].status = "preparing", ![a].url = u, ![a].answers = v]
    BY <1>3 DEF CreateApplication
  <2> QED
    BY <1>1, <2>1 DEF AppRow
<1>4. CASE UpdateApplication(a) \/ RecordAnswer(a)
  <2>1. \/ \E v \in Answers : app' = [app EXCEPT ![a].answers = v]
        \/ \E u \in BOOLEAN : app' = [app EXCEPT ![a].url = u]
    BY <1>4 DEF UpdateApplication, RecordAnswer
  <2> QED
    BY <1>1, <2>1 DEF AppRow
<1>5. ASSUME NEW t \in UserTargets, ChangeStatus(a, t)
      PROVE  \A b \in Apps : app'[b].form = app[b].form
  <2> DEFINE new == [app[a] EXCEPT
                       !.submitted = (t = "submitted") \/ @,
                       !.evidence = IF t = "submitted" THEN "user" ELSE @,
                       !.blocker = IF t = "paused" THEN @ ELSE "none"]
  <2>1. new \in AppRow /\ new.form = app[a].form /\ t \in ApplicationStatus
    BY ZenonT(40), <1>1 DEF AppRow, UserTargets, ApplicationStatus
  <2>2. Move(a, new, t)
    BY <1>5 DEF ChangeStatus
  <2> HIDE DEF new
  <2> QED
    BY <1>2, <2>1, <2>2
<1>6. ASSUME NEW arrived \in BOOLEAN, ResolveUncertain(a, arrived)
      PROVE  \A b \in Apps : app'[b].form = app[b].form
  <2> DEFINE new == [app[a] EXCEPT !.submitted = TRUE, !.evidence = "user"]
  <2>1. new \in AppRow /\ new.form = app[a].form /\ {"submitted", "approved"} \subseteq ApplicationStatus
    BY <1>1 DEF AppRow, ApplicationStatus
  <2>2. Move(a, new, "submitted") \/ Move(a, app[a], "approved")
    BY <1>6 DEF ResolveUncertain
  <2> HIDE DEF new
  <2> QED
    BY <1>1, <1>2, <2>1, <2>2
<1> QED
  BY <1>3, <1>4, <1>5, <1>6 DEF UserOnApplication

\* What a step makes of a run's row
Ats    == {"fill", "filling", "approve", "submit", "entering", "sending", "assist", "watching"}
Inputs == Answers \cup {Nothing}

Row(r, s, at, i)  == [run[r] EXCEPT !.state = s, !.at = at, !.inputs = i]
Puts(r, s, at, i) == run' = [run EXCEPT ![r] = Row(r, s, at, i)]

LEMMA RunTyped ==
  ASSUME TypeOK, NEW r \in Runs
  PROVE  /\ run[r] \in RunRow /\ run[r].app \in Apps /\ app[run[r].app] \in AppRow
         /\ run[r].state \in RunStates /\ run[r].at \in Ats /\ run[r].inputs \in Inputs
         /\ InputsOf(run[r].app) \in Inputs /\ Nothing \in Inputs
         /\ Finish(r) \in {"cancelled", "succeeded"} /\ Finish(r) \in RunStates
         /\ {"live", "failed", "cancelled", "cancelling"} \subseteq RunStates
BY DEF TypeOK, RunRow, AppRow, Ats, Inputs, InputsOf, Finish, RunStates

LEMMA PutsIt ==
  ASSUME TypeOK, NEW r \in Runs, NEW s \in RunStates, NEW at \in Ats, NEW i \in Inputs,
         Puts(r, s, at, i)
  PROVE  /\ run' \in [Runs -> RunRow]
         /\ run'[r].state = s /\ run'[r].at = at /\ run'[r].inputs = i
         /\ run'[r].app = run[r].app /\ run'[r].kind = run[r].kind
         /\ run'[r].digest = run[r].digest /\ run'[r].shown = run[r].shown
         /\ run'[r].refilled = run[r].refilled
         /\ \A q \in Runs \ {r} : run'[q] = run[q]
<1>1. run[r] \in RunRow
  BY RunTyped
<1>2. /\ Row(r, s, at, i) \in RunRow
      /\ Row(r, s, at, i).state = s /\ Row(r, s, at, i).at = at /\ Row(r, s, at, i).inputs = i
      /\ Row(r, s, at, i).app = run[r].app /\ Row(r, s, at, i).kind = run[r].kind
      /\ Row(r, s, at, i).digest = run[r].digest /\ Row(r, s, at, i).shown = run[r].shown
      /\ Row(r, s, at, i).refilled = run[r].refilled
  BY <1>1 DEF Row, RunRow, Ats, Inputs
<1>3. run' = [run EXCEPT ![r] = Row(r, s, at, i)]
  BY DEF Puts
<1> QED
  BY <1>2, <1>3 DEF TypeOK

\* The forms in which the actions write it
LEMMA Rows ==
  ASSUME TypeOK, NEW r \in Runs, NEW s \in RunStates, NEW at \in Ats, NEW i \in Inputs
  PROVE  /\ Ends(r) => Puts(r, Finish(r), run[r].at, Nothing)
         /\ run' = [run EXCEPT ![r].state = s] => Puts(r, s, run[r].at, run[r].inputs)
         /\ run' = [run EXCEPT ![r].at = at] => Puts(r, run[r].state, at, run[r].inputs)
         /\ run' = [run EXCEPT ![r].state = s, ![r].at = at] => Puts(r, s, at, run[r].inputs)
         /\ run' = [run EXCEPT ![r].at = at, ![r].inputs = i] => Puts(r, run[r].state, at, i)
         /\ run' = [run EXCEPT ![r].state = s, ![r].inputs = i] => Puts(r, s, run[r].at, i)
         /\ run' = [run EXCEPT ![r].at = at, ![r].state = s, ![r].inputs = i] =>
              Puts(r, s, at, i)
         /\ run' = [run EXCEPT ![r].state = s, ![r].at = at, ![r].inputs = i] =>
              Puts(r, s, at, i)
<1>1. run[r] \in RunRow /\ run \in [Runs -> RunRow]
  BY RunTyped DEF TypeOK
<1> USE <1>1 DEF Puts, Row, RunRow
<1>2. run' = [run EXCEPT ![r].state = s] => Puts(r, s, run[r].at, run[r].inputs)
  OBVIOUS
<1>3. run' = [run EXCEPT ![r].at = at] => Puts(r, run[r].state, at, run[r].inputs)
  OBVIOUS
<1>4. run' = [run EXCEPT ![r].state = s, ![r].at = at] => Puts(r, s, at, run[r].inputs)
  OBVIOUS
<1>5. run' = [run EXCEPT ![r].at = at, ![r].inputs = i] => Puts(r, run[r].state, at, i)
  OBVIOUS
<1>6. \A t : run' = [run EXCEPT ![r].state = t, ![r].inputs = i] => Puts(r, t, run[r].at, i)
  OBVIOUS
<1>7. run' = [run EXCEPT ![r].at = at, ![r].state = s, ![r].inputs = i] => Puts(r, s, at, i)
  OBVIOUS
<1>8. run' = [run EXCEPT ![r].state = s, ![r].at = at, ![r].inputs = i] => Puts(r, s, at, i)
  OBVIOUS
<1>9. Ends(r) => Puts(r, Finish(r), run[r].at, Nothing)
  BY DEF Ends
<1> QED
  BY <1>2, <1>3, <1>4, <1>5, <1>6, <1>7, <1>8, <1>9

-----------------------------------------------------------------------------
(* Steps that send nothing *)

\* What r is about to report is that nothing was pressed
Refusing(r) == ledger[r] = "refused" \/ thread[r] = "changed"

LEMMA Quiet ==
  ASSUME Delivery, TypeOK', Alone', AtRest', ThreadsAwaited', UNCHANGED sent,
         \A q \in Runs : MayPress(q)' => MayPress(q) /\ run'[q].app = run[q].app,
         \A q \in Runs : Filling(q)' =>
           run'[q].app = run[q].app /\ (Filling(q) \/ denied'[run[q].app] \/ Unsent(run[q].app)'),
         \A q \in Runs : Sending(q)' =>
           /\ run'[q].app = run[q].app /\ Sending(q)
           /\ Refusing(q)' => Refusing(q) \/ denied'[run[q].app] \/ Unsent(run[q].app)',
         \A q \in Runs : Submitting(q)' =>
           run'[q].app = run[q].app /\ (Submitting(q) \/ app'[run[q].app].status \in Out),
         \A a \in Apps : ~denied'[a] /\ Status(a) \in Out =>
           \/ app'[a].status \in Out
           \/ Unsent(a) /\ \A q \in Runs : ~(Submitting(q)' /\ run'[q].app = a),
         \A a \in Apps : denied[a] => denied'[a]
  PROVE  Delivery'
<1> SUFFICES ASSUME NEW a \in Apps, ~denied'[a] PROVE Delivered(a)'
  BY DEF Delivery
<1>1. Delivered(a)
  BY DEF Delivery
<1>2. Unsent(a) => Unsent(a)'
  BY DEF Unsent, RunsOf
<1>3. SentRecorded(a)'
  BY <1>1, ApplicationAssumption DEF Delivered, SentRecorded, Unsent, Delivery, TypeOK, Status
<1>4. PressRecorded(a)'
  <2> SUFFICES ASSUME NEW r \in RunsOf(a)', MayPress(r)'
               PROVE  sent'[a] = 0 /\ app'[a].status \in Out /\ \A q \in RunsOf(a)' : MayPress(q)' => q = r
    BY DEF PressRecorded, Status
  <2>1. r \in RunsOf(a) /\ MayPress(r)
    BY DEF RunsOf
  <2>2. ~Unsent(a)
    BY <2>1 DEF Unsent
  <2>3. sent[a] = 0 /\ Status(a) \in Out /\ \A q \in RunsOf(a) : MayPress(q) => q = r
    BY <1>1, <2>1 DEF Delivered, PressRecorded
  <2> QED
    BY <2>2, <2>3 DEF RunsOf
<1>5. SendingRecorded(a)'
  <2> SUFFICES ASSUME NEW r \in RunsOf(a)'
               PROVE  /\ Submitting(r)' => app'[a].status \in Out
                      /\ Sending(r)' /\ Refusing(r)' => Unsent(a)'
    BY DEF SendingRecorded, Refusing, Status
  <2>1. r \in Runs /\ run'[r].app = a
    BY DEF RunsOf
  <2>2. ASSUME Submitting(r)' PROVE app'[a].status \in Out
    <3>1. run[r].app = a /\ (Submitting(r) \/ app'[a].status \in Out)
      BY <2>1, <2>2
    <3>2. Submitting(r) => Status(a) \in Out
      BY <1>1, <2>1, <3>1 DEF Delivered, SendingRecorded, RunsOf
    <3> QED
      BY <2>1, <2>2, <3>1, <3>2
  <2>3. ASSUME Sending(r)', Refusing(r)' PROVE Unsent(a)'
    <3>1. run[r].app = a /\ Sending(r) /\ (Refusing(r) \/ Unsent(a)')
      BY <2>1, <2>3
    <3>2. Refusing(r) => Unsent(a)
      BY <1>1, <2>1, <3>1 DEF Delivered, SendingRecorded, RunsOf, Refusing
    <3> QED
      BY <1>2, <3>1, <3>2
  <2> QED
    BY <2>2, <2>3
<1>6. FillingUnsent(a)'
  <2> SUFFICES ASSUME NEW r \in RunsOf(a)', Filling(r)' PROVE Unsent(a)'
    BY DEF FillingUnsent, Filling
  <2>1. r \in RunsOf(a) /\ (Filling(r) \/ Unsent(a)')
    BY DEF RunsOf
  <2> QED
    BY <1>1, <1>2, <2>1 DEF Delivered, FillingUnsent, Filling
<1> QED
  BY <1>3, <1>4, <1>5, <1>6 DEF Delivered

\* No thread will send the form of a after the step
UnsentThen(a) == sent[a] = 0 /\ \A r \in RunsOf(a) : thread'[r] \notin {"open", "stray"}

Apart(r) == \A q \in Runs : run[q].app = run[r].app => run[q].state \in Ended
Works(s) == s \in {"live", "cancelling"}

\* Run r, put in state s at step at, its thread at t and its ledger row at l, goes on at
\* most with what it was at
Calm(r, s, at, t, l) ==
  /\ s \notin Ended => Busy(r) \/ Apart(r)
  /\ s = "failed" => at \notin MidStep
  /\ s = "waiting" => at = "approve"
  /\ Works(s) /\ at \in {"filling", "entering"} =>
       Filling(r) \/ denied[run[r].app] \/ Unsent(run[r].app)
  /\ Works(s) /\ at = "entering" => Submitting(r) \/ app'[run[r].app].status \in Out
  /\ Works(s) /\ at = "sending" =>
       Sending(r) /\ (l = "refused" => Refusing(r) \/ denied[run[r].app] \/ UnsentThen(run[r].app))
  /\ t \in {"open", "changed", "sent"} => t = thread[r] /\ Works(s) /\ at = "sending"
  /\ t = "stray" => MayPress(r)

\* Applications leave the statuses of Out only when r ends without having sent
KeepsOut(r, s) ==
  \A a \in Apps : ~denied[a] /\ Status(a) \in Out =>
    \/ app'[a].status \in Out
    \/ a = run[r].app /\ s \in Ended /\ Unsent(a) /\ \A q \in RunsOf(a) : Busy(q) => q = r

LEMMA PutCalm ==
  ASSUME Delivery, NEW r \in Runs, NEW s \in RunStates, NEW at \in Ats, NEW i \in Inputs,
         NEW t \in Threads, NEW l \in Ledger,
         Puts(r, s, at, i), TypeOK', UNCHANGED <<sent, denied>>,
         thread' = [thread EXCEPT ![r] = t], ledger' = [ledger EXCEPT ![r] = l],
         Calm(r, s, at, t, l), KeepsOut(r, s)
  PROVE  Delivery'
<1> USE DEF Calm, Works
<1>1. TypeOK /\ Alone /\ AtRest /\ ThreadsAwaited
  BY DEF Delivery
<1>2. /\ run'[r].state = s /\ run'[r].at = at /\ run'[r].app = run[r].app
      /\ \A q \in Runs \ {r} : run'[q] = run[q]
  BY <1>1, PutsIt
<1>3. /\ thread'[r] = t /\ ledger'[r] = l
      /\ \A q \in Runs \ {r} : thread'[q] = thread[q] /\ ledger'[q] = ledger[q]
  BY <1>1 DEF TypeOK
<1>4. \A q \in Runs : run'[q].app = run[q].app
  BY <1>2
<1>5. Alone'
  BY <1>1, <1>2 DEF Alone, Busy, Apart
<1>6. AtRest'
  BY <1>1, <1>2 DEF AtRest, MidStep
<1>7. ThreadsAwaited'
  BY <1>1, <1>2, <1>3 DEF ThreadsAwaited, Sending, Executing
<1>8. \A q \in Runs : MayPress(q)' => MayPress(q)
  BY <1>3 DEF MayPress
<1>9. \A a \in Apps : Unsent(a) => Unsent(a)'
  BY <1>4, <1>8 DEF Unsent, RunsOf
<1>10. run[r].app \in Apps
  BY <1>1, RunTyped
<1>11. \A q \in Runs : Filling(q)' =>
          Filling(q) \/ denied'[run[q].app] \/ Unsent(run[q].app)'
  BY <1>2, <1>9, <1>10 DEF Filling, Executing
<1>14. \A a \in Apps : UnsentThen(a) => Unsent(a)'
  BY <1>4 DEF UnsentThen, Unsent, RunsOf, MayPress
<1>12. \A q \in Runs : Sending(q)' =>
          Sending(q) /\ (Refusing(q)' => Refusing(q) \/ denied'[run[q].app] \/ Unsent(run[q].app)')
  BY <1>2, <1>3, <1>10, <1>14 DEF Sending, Executing, Refusing
<1>15. \A q \in Runs : Submitting(q)' => Submitting(q) \/ app'[run[q].app].status \in Out
  BY <1>2 DEF Submitting, Sending, Executing
<1>13. \A a \in Apps : ~denied'[a] /\ Status(a) \in Out =>
          \/ app'[a].status \in Out
          \/ Unsent(a) /\ \A q \in Runs : ~(Submitting(q)' /\ run'[q].app = a)
  BY <1>2, <1>4 DEF Submitting, Executing, RunsOf, Busy, Ended, KeepsOut
<1> QED
  BY <1>4, <1>5, <1>6, <1>7, <1>8, <1>11, <1>12, <1>13, <1>15, Quiet

\* A step under which neither the thread nor the ledger's row changes
LEMMA RowCalm ==
  ASSUME Delivery, NEW r \in Runs, NEW s \in RunStates, NEW at \in Ats, NEW i \in Inputs,
         Puts(r, s, at, i), app' \in [Apps -> AppRow], approval' \in [Runs -> Approvals],
         UNCHANGED <<ledger, thread, sent, denied>>,
         Calm(r, s, at, thread[r], ledger[r]), KeepsOut(r, s)
  PROVE  Delivery'
<1>1. TypeOK
  BY DEF Delivery
<1>2. TypeOK'
  BY <1>1, PutsIt DEF TypeOK
<1>3. /\ thread[r] \in Threads /\ thread' = [thread EXCEPT ![r] = thread[r]]
      /\ ledger[r] \in Ledger /\ ledger' = [ledger EXCEPT ![r] = ledger[r]]
  BY <1>1 DEF TypeOK
<1> QED
  BY <1>2, <1>3, PutCalm

\* A run that is executing is the only one of its application at work, and what it
\* fills in or was refused has not been sent
LEMMA AtWorkAlone ==
  ASSUME Delivery, NEW r \in Runs, Executing(r)
  PROVE  /\ TypeOK /\ Busy(r) /\ run[r].app \in Apps
         /\ \A q \in RunsOf(run[r].app) : Busy(q) => q = r
         /\ thread[r] \in {"open", "changed", "sent"} => run[r].at = "sending"
         /\ Filling(r) /\ ~denied[run[r].app] => Unsent(run[r].app)
         /\ Sending(r) /\ Refusing(r) /\ ~denied[run[r].app] => Unsent(run[r].app)
<1>1. TypeOK /\ Busy(r) /\ run[r].app \in Apps /\ r \in RunsOf(run[r].app)
  BY RunTyped DEF Delivery, Executing, Busy, Ended, RunsOf
<1> QED
  BY <1>1 DEF Delivery, Alone, RunsOf, ThreadsAwaited, Sending, Delivered, FillingUnsent, Filling,
     SendingRecorded, Refusing

LEMMA EndsCalm ==
  ASSUME Delivery, NEW r \in Runs, Executing(r), Ends(r), app' \in [Apps -> AppRow],
         UNCHANGED <<approval, ledger, thread, sent, denied>>,
         thread[r] \notin {"open", "changed", "sent"},
         \A a \in Apps : ~denied[a] /\ Status(a) \in Out =>
           app'[a].status \in Out \/ (a = run[r].app /\ Unsent(a))
  PROVE  Delivery'
<1>1. TypeOK /\ approval' \in [Runs -> Approvals]
  BY DEF Delivery, TypeOK
<1>2. Puts(r, Finish(r), run[r].at, Nothing)
  BY <1>1, Rows, RunTyped
<1>3. Finish(r) \in Ended /\ Finish(r) \notin {"failed", "waiting", "live", "cancelling"}
  BY DEF Finish, Ended
<1>4. \A q \in RunsOf(run[r].app) : Busy(q) => q = r
  BY AtWorkAlone
<1>5. Finish(r) \in RunStates /\ run[r].at \in Ats /\ Nothing \in Inputs
  BY <1>1, RunTyped
<1>6. Calm(r, Finish(r), run[r].at, thread[r], ledger[r]) /\ KeepsOut(r, Finish(r))
  BY <1>3, <1>4 DEF Calm, Works, KeepsOut, MayPress
<1> QED
  BY <1>1, <1>2, <1>5, <1>6, RowCalm

LEMMA FillBeginDelivers ==
  ASSUME Delivery, NEW r \in Runs, FillBegin(r)
  PROVE  Delivery'
<1> DEFINE a == run[r].app
<1>1. /\ TypeOK /\ Executing(r) /\ a \in Apps /\ Busy(r) /\ run[r].at = "fill"
      /\ thread[r] \notin {"open", "changed", "sent"}
      /\ UNCHANGED <<approval, ledger, thread, sent, denied>>
      /\ approval' \in [Runs -> Approvals] /\ app \in [Apps -> AppRow]
  BY AtWorkAlone DEF FillBegin, Delivery, TypeOK
<1>2. CASE Status(a) \in BrowserStart
  <2>1. Puts(r, run[r].state, "filling", InputsOf(a))
    BY <1>1, <1>2, Rows, RunTyped DEF FillBegin, Ats
  <2>2. Status(a) \notin Out
    BY <1>2 DEF BrowserStart, Out
  <2>3. ~denied[a] => Unsent(a)
    BY <1>1, <2>2, ApplicationAssumption
       DEF Delivery, Delivered, SentRecorded, PressRecorded, Unsent, TypeOK
  <2>4. [app[a] EXCEPT !.status = "preparing"] \in AppRow
    BY <1>1 DEF AppRow, ApplicationStatus
  <2>5. app' = [app EXCEPT ![a] = [app[a] EXCEPT !.status = "preparing"]]
    BY <1>2 DEF FillBegin
  <2>6. app' \in [Apps -> AppRow] /\ \A b \in Apps : Status(b) \in Out => app'[b].status \in Out
    BY <1>1, <2>2, <2>4, <2>5 DEF Status
  <2>7. run[r].state \in {"live", "cancelling"} /\ run[r].state \notin {"failed", "waiting"}
    BY <1>1 DEF Executing
  <2>8. Calm(r, run[r].state, "filling", thread[r], ledger[r]) /\ KeepsOut(r, run[r].state)
    BY <1>1, <2>3, <2>6, <2>7 DEF Calm, KeepsOut, MayPress
  <2>9. run[r].state \in RunStates /\ "filling" \in Ats /\ InputsOf(a) \in Inputs
    BY <1>1, RunTyped DEF Ats
  <2> QED
    BY <1>1, <2>1, <2>6, <2>8, <2>9, RowCalm
<1>3. CASE Status(a) \notin BrowserStart
  BY <1>1, <1>3, EndsCalm DEF FillBegin, Status
<1> QED
  BY <1>2, <1>3

LEMMA FilledRows ==
  ASSUME TypeOK, NEW r \in Runs, NEW v \in Inputs,
         run' = [q \in Runs |->
           IF q = r
             THEN [run[r] EXCEPT !.at = "approve", !.digest = v, !.inputs = Nothing,
                                 !.refilled = approval[r] # "none"]
             ELSE [run[q] EXCEPT !.refilled =
                     @ \/ (run[q].app = run[r].app /\ approval[q] = "none")]]
  PROVE  /\ run' \in [Runs -> RunRow]
         /\ run'[r].at = "approve" /\ run'[r].digest = v
         /\ run'[r].refilled = (approval[r] # "none")
         /\ \A q \in Runs :
              /\ run'[q].app = run[q].app /\ run'[q].state = run[q].state
              /\ run'[q].kind = run[q].kind /\ run'[q].shown = run[q].shown
         /\ \A q \in Runs \ {r} :
              /\ run'[q].at = run[q].at /\ run'[q].inputs = run[q].inputs
              /\ run'[q].digest = run[q].digest
              /\ run'[q].refilled =
                   (run[q].refilled \/ (run[q].app = run[r].app /\ approval[q] = "none"))
<1> DEFINE filled   == [run[r] EXCEPT !.at = "approve", !.digest = v,
                                      !.inputs = Nothing, !.refilled = approval[r] # "none"]
           other(q) == [run[q] EXCEPT !.refilled =
                          @ \/ (run[q].app = run[r].app /\ approval[q] = "none")]
<1>1. \A q \in Runs : run[q] \in RunRow
  BY DEF TypeOK
<1>2. /\ filled \in RunRow
      /\ filled.at = "approve" /\ filled.digest = v
      /\ filled.refilled = (approval[r] # "none")
      /\ filled.app = run[r].app /\ filled.state = run[r].state
      /\ filled.kind = run[r].kind /\ filled.shown = run[r].shown
  BY <1>1 DEF RunRow, Inputs
<1>3. ASSUME NEW q \in Runs
      PROVE  /\ other(q) \in RunRow
             /\ other(q).app = run[q].app /\ other(q).state = run[q].state
             /\ other(q).kind = run[q].kind /\ other(q).shown = run[q].shown
             /\ other(q).at = run[q].at /\ other(q).inputs = run[q].inputs
             /\ other(q).digest = run[q].digest
             /\ other(q).refilled =
                  (run[q].refilled \/ (run[q].app = run[r].app /\ approval[q] = "none"))
  BY <1>1 DEF RunRow
<1>4. run' = [q \in Runs |-> IF q = r THEN filled ELSE other(q)]
  OBVIOUS
<1> HIDE DEF filled, other
<1>5. run'[r] = filled /\ \A q \in Runs \ {r} : run'[q] = other(q)
  BY <1>4
<1> QED
  BY <1>2, <1>3, <1>4, <1>5

LEMMA PlannedTyped ==
  ASSUME TypeOK, NEW r \in Runs
  PROVE  Plannable(r) \subseteq Inputs
BY RunTyped DEF Plannable, InputsOf, AppRow, Inputs

\* The form that was planned, the row of the application and those of the runs
LEMMA FilledForm ==
  ASSUME TypeOK, NEW r \in Runs, run[r].inputs # Nothing, Filled(r)
  PROVE  \E v \in Answers :
           /\ Move(run[r].app, [app[run[r].app] EXCEPT !.form = v, !.blocker = "none"],
                   "awaiting_review")
           /\ run' = [q \in Runs |->
                IF q = r
                  THEN [run[r] EXCEPT !.at = "approve", !.digest = v, !.inputs = Nothing,
                                      !.refilled = approval[r] # "none"]
                  ELSE [run[q] EXCEPT !.refilled =
                          @ \/ (run[q].app = run[r].app /\ approval[q] = "none")]]
<1>1. run[r].inputs \in Inputs /\ app[run[r].app] \in AppRow
  BY RunTyped
<1>2. Plannable(r) \subseteq Answers
  BY <1>1 DEF Plannable, InputsOf, AppRow, Inputs
<1> QED
  BY <1>2 DEF Filled

LEMMA FilledDelivers ==
  ASSUME Delivery, NEW r \in Runs, Filled(r)
  PROVE  Delivery'
<1> DEFINE a == run[r].app
<1>1. /\ TypeOK /\ Executing(r) /\ a \in Apps /\ app[a] \in AppRow
      /\ run[r].inputs \in Inputs /\ run[r].at = "filling"
      /\ thread[r] \notin {"open", "changed", "sent"}
      /\ UNCHANGED <<approval, ledger, thread, sent, denied>>
  BY AtWorkAlone, RunTyped DEF Filled
<1>2. PICK v \in Inputs :
        /\ Move(a, [app[a] EXCEPT !.form = v, !.blocker = "none"], "awaiting_review")
        /\ run' = [q \in Runs |->
             IF q = r
               THEN [run[r] EXCEPT !.at = "approve", !.digest = v, !.inputs = Nothing,
                                   !.refilled = approval[r] # "none"]
               ELSE [run[q] EXCEPT !.refilled = @ \/ (run[q].app = a /\ approval[q] = "none")]]
  <2>1. Plannable(r) \subseteq Inputs
    BY <1>1 DEF Plannable, InputsOf, AppRow, Inputs
  <2> QED
    BY <2>1 DEF Filled
<1>3. app' \in [Apps -> AppRow] /\ \A b \in Apps : Status(b) \in Out => app'[b].status \in Out
  <2> DEFINE new == [app[a] EXCEPT !.form = v, !.blocker = "none"]
  <2>1. new \in AppRow /\ new.status = Status(a) /\ "awaiting_review" \in ApplicationStatus
    BY <1>1, <1>2 DEF AppRow, Inputs, ApplicationStatus, Status
  <2>2. Move(a, new, "awaiting_review")
    BY <1>2
  <2> HIDE DEF new
  <2> QED
    BY ZenonT(40), <1>1, <2>1, <2>2, Moves, StaysOut
<1>6. /\ run' \in [Runs -> RunRow]
      /\ \A q \in Runs : run'[q].app = run[q].app /\ run'[q].state = run[q].state
      /\ run'[r].at = "approve" /\ \A q \in Runs \ {r} : run'[q].at = run[q].at
  BY <1>1, <1>2, FilledRows
<1>7. TypeOK'
  BY <1>1, <1>3, <1>6 DEF TypeOK
<1>8. Alone' /\ AtRest' /\ ThreadsAwaited'
  BY <1>1, <1>6 DEF Delivery, Alone, AtRest, ThreadsAwaited, Busy, Sending, Executing, MidStep
<1>9. /\ \A q \in Runs : MayPress(q)' => MayPress(q) /\ run'[q].app = run[q].app
      /\ \A q \in Runs : Filling(q)' => run'[q].app = run[q].app /\ Filling(q)
      /\ \A q \in Runs : Sending(q)' =>
           run'[q].app = run[q].app /\ Sending(q) /\ (Refusing(q)' => Refusing(q))
      /\ \A q \in Runs : Submitting(q)' => run'[q].app = run[q].app /\ Submitting(q)
  BY <1>1, <1>6 DEF MayPress, Filling, Sending, Submitting, Executing, Refusing
<1> QED
  BY <1>1, <1>3, <1>7, <1>8, <1>9, Quiet

LEMMA NotFilledDelivers ==
  ASSUME Delivery, NEW r \in Runs, NEW why \in {"blocked", "missing", "documents", "error"},
         NotFilled(r, why)
  PROVE  Delivery'
<1> DEFINE a == run[r].app
           to == IF why = "error" THEN "failed" ELSE "needs_user_action"
<1>1. /\ TypeOK /\ Executing(r) /\ a \in Apps /\ app[a] \in AppRow
      /\ ~denied[a] => Unsent(a)
      /\ thread[r] \notin {"open", "changed", "sent"}
  BY AtWorkAlone, RunTyped DEF NotFilled, Filling
<1>2. [app[a] EXCEPT !.blocker = why] \in AppRow /\ to \in ApplicationStatus
  BY <1>1 DEF AppRow, ApplicationStatus
<1>3. app' \in [Apps -> AppRow] /\ \A b \in Apps \ {a} : app'[b] = app[b]
  BY <1>1, <1>2, Moves DEF NotFilled
<1>4. /\ Ends(r) /\ UNCHANGED <<approval, ledger, thread, sent, denied>>
      /\ \A b \in Apps : ~denied[b] /\ Status(b) \in Out =>
           app'[b].status \in Out \/ (b = a /\ Unsent(b))
  BY <1>1, <1>3 DEF NotFilled, Status
<1> QED
  BY <1>1, <1>3, <1>4, EndsCalm

LEMMA ApprovalDelivers ==
  ASSUME Delivery, NEW r \in Runs, AskApproval(r) \/ Approved(r) \/ NotApproved(r)
  PROVE  Delivery'
<1> DEFINE a == run[r].app
<1>1. /\ TypeOK /\ Executing(r) /\ a \in Apps /\ app[a] \in AppRow /\ Busy(r)
      /\ run[r] \in RunRow /\ run[r].at = "approve"
      /\ thread[r] \notin {"open", "changed", "sent"}
      /\ approval \in [Runs -> Approvals] /\ app \in [Apps -> AppRow]
  BY AtWorkAlone, RunTyped DEF AskApproval, Approved, NotApproved, TypeOK
<1>2. CASE AskApproval(r)
  <2>1. PICK f \in Inputs, s \in {run[r].state, "waiting"} :
          run' = [run EXCEPT ![r] = [run[r] EXCEPT !.shown = f, !.state = s]]
    <3>1. app[a].form \in Inputs /\ run[r].shown \in Inputs
      BY <1>1 DEF AppRow, RunRow, Inputs
    <3> DEFINE f == IF approval[r] = "none" THEN app[a].form ELSE run[r].shown
               s == IF run[r].state = "live" THEN "waiting" ELSE run[r].state
    <3>2. run' = [run EXCEPT ![r] = [run[r] EXCEPT !.shown = f, !.state = s]]
      BY <1>1, <1>2 DEF AskApproval, TypeOK, RunRow
    <3> QED
      BY <3>1, <3>2
  <2>2. /\ [run[r] EXCEPT !.shown = f, !.state = s] \in RunRow
        /\ [run[r] EXCEPT !.shown = f, !.state = s].state = s
        /\ [run[r] EXCEPT !.shown = f, !.state = s].at = "approve"
        /\ [run[r] EXCEPT !.shown = f, !.state = s].app = a
    BY <1>1 DEF RunRow, Inputs, RunStates
  <2>3. /\ run' \in [Runs -> RunRow]
        /\ run'[r].app = a /\ run'[r].at = "approve" /\ run'[r].state \in {run[r].state, "waiting"}
        /\ \A q \in Runs \ {r} : run'[q] = run[q]
    BY <1>1, <2>1, <2>2 DEF TypeOK
  <2>4. UNCHANGED <<app, ledger, thread, sent, denied>> /\ approval' \in [Runs -> Approvals]
    BY <1>1, <1>2 DEF AskApproval, Approvals
  <2>5. TypeOK'
    BY <1>1, <2>3, <2>4 DEF TypeOK
  <2>6. Alone' /\ AtRest' /\ ThreadsAwaited'
    BY <1>1, <2>3, <2>4
       DEF Delivery, Alone, AtRest, ThreadsAwaited, Busy, Sending, Executing, MidStep, Ended
  <2>7. /\ \A q \in Runs : MayPress(q)' => MayPress(q) /\ run'[q].app = run[q].app
        /\ \A q \in Runs : Filling(q)' => run'[q].app = run[q].app /\ Filling(q)
        /\ \A q \in Runs : Sending(q)' =>
             run'[q].app = run[q].app /\ Sending(q) /\ (Refusing(q)' => Refusing(q))
        /\ \A q \in Runs : Submitting(q)' => run'[q].app = run[q].app /\ Submitting(q)
    BY <1>1, <2>3, <2>4 DEF MayPress, Filling, Sending, Submitting, Executing, Refusing
  <2> QED
    BY <1>1, <2>4, <2>5, <2>6, <2>7, Quiet DEF Status
<1>3. CASE Approved(r)
  <2>1. Puts(r, run[r].state, "submit", run[r].inputs)
    BY <1>1, <1>3, Rows, RunTyped DEF Approved, Ats
  <2>2. run[r].state \in {"live", "cancelling"} /\ run[r].state \notin {"failed", "waiting"}
    BY <1>1 DEF Executing
  <2>3. UNCHANGED <<app, approval, ledger, thread, sent, denied>>
    BY <1>3 DEF Approved
  <2>4. Calm(r, run[r].state, "submit", thread[r], ledger[r]) /\ KeepsOut(r, run[r].state)
    BY <1>1, <2>2, <2>3 DEF Calm, KeepsOut, MayPress, Status
  <2>5. run[r].state \in RunStates /\ "submit" \in Ats /\ run[r].inputs \in Inputs
    BY <1>1, RunTyped DEF Ats
  <2> QED
    BY <1>1, <2>1, <2>3, <2>4, <2>5, RowCalm
<1>4. CASE NotApproved(r)
  <2>1. app' \in [Apps -> AppRow] /\ \A b \in Apps : Status(b) \in Out => app'[b].status \in Out
    <3>1. CASE Status(a) = "awaiting_review"
      <4>1. "preparing" \in ApplicationStatus /\ app[a].status = Status(a)
        BY DEF ApplicationStatus, Status
      <4> QED
        BY <1>1, <1>4, <3>1, <4>1, Moves, StaysOut DEF NotApproved
    <3>2. CASE Status(a) # "awaiting_review"
      BY <1>1, <1>4, <3>2 DEF NotApproved, Status
    <3> QED
      BY <3>1, <3>2
  <2>2. Ends(r) /\ UNCHANGED <<approval, ledger, thread, sent, denied>>
    BY <1>4 DEF NotApproved
  <2> QED
    BY <1>1, <2>1, <2>2, EndsCalm
<1> QED
  BY <1>2, <1>3, <1>4

LEMMA SkipDelivers ==
  ASSUME Delivery, NEW r \in Runs, Doubt(r) \/ SkipSubmit(r)
  PROVE  Delivery'
<1> DEFINE a == run[r].app
<1>1. /\ TypeOK /\ Executing(r) /\ a \in Apps /\ app[a] \in AppRow
      /\ thread[r] \notin {"open", "changed", "sent"} /\ app \in [Apps -> AppRow]
  BY AtWorkAlone, RunTyped DEF Doubt, SkipSubmit, TypeOK
<1>2. Ends(r) /\ UNCHANGED <<approval, ledger, thread, sent, denied>>
  BY DEF Doubt, SkipSubmit
<1>3. app' \in [Apps -> AppRow] /\ \A b \in Apps : Status(b) \in Out => app'[b].status \in Out
  <2>1. CASE Doubt(r)
    <3>1. /\ [app[a] EXCEPT !.evidence = "none"] \in AppRow
          /\ [app[a] EXCEPT !.evidence = "none"].status = Status(a)
          /\ "submission_uncertain" \in ApplicationStatus
      BY <1>1 DEF AppRow, ApplicationStatus, Status
    <3> QED
      BY <1>1, <2>1, <3>1, Moves, StaysOut DEF Doubt
  <2>2. CASE SkipSubmit(r)
    BY <1>1, <2>2 DEF SkipSubmit, Status
  <2> QED
    BY <2>1, <2>2
<1> QED
  BY <1>1, <1>2, <1>3, EndsCalm

-----------------------------------------------------------------------------
(* The submission *)

LEMMA SubmitBeginDelivers ==
  ASSUME Delivery, NEW r \in Runs, SubmitBegin(r)
  PROVE  Delivery'
<1> DEFINE a == run[r].app
<1>1. /\ TypeOK /\ Executing(r) /\ Busy(r) /\ a \in Apps /\ app[a] \in AppRow
      /\ run[r].at = "submit" /\ thread[r] \notin {"open", "changed", "sent"}
      /\ UNCHANGED <<approval, ledger, thread, sent, denied>>
      /\ approval' \in [Runs -> Approvals] /\ app \in [Apps -> AppRow]
  BY AtWorkAlone, RunTyped DEF SubmitBegin, TypeOK
<1>2. Puts(r, run[r].state, "entering", InputsOf(a))
  BY <1>1, Rows, RunTyped DEF SubmitBegin, Ats
<1>3. Status(a) \notin Out
  BY DEF SubmitBegin, Out
<1>4. ~denied[a] => Unsent(a)
  BY <1>1, <1>3, ApplicationAssumption
     DEF Delivery, Delivered, SentRecorded, PressRecorded, Unsent, TypeOK
<1>5. /\ [app[a] EXCEPT !.status = "submitting"] \in AppRow
      /\ [app[a] EXCEPT !.status = "submitting"].status = "submitting"
      /\ app' = [app EXCEPT ![a] = [app[a] EXCEPT !.status = "submitting"]]
  BY <1>1 DEF AppRow, ApplicationStatus, SubmitBegin
<1>6. /\ app' \in [Apps -> AppRow] /\ app'[a].status \in Out
      /\ \A b \in Apps : Status(b) \in Out => app'[b].status \in Out
  BY <1>1, <1>3, <1>5 DEF Status, Out
<1>7. run[r].state \in {"live", "cancelling"} /\ run[r].state \notin {"failed", "waiting"}
  BY <1>1 DEF Executing
<1>8. Calm(r, run[r].state, "entering", thread[r], ledger[r]) /\ KeepsOut(r, run[r].state)
  BY <1>1, <1>4, <1>6, <1>7 DEF Calm, KeepsOut, MayPress
<1>9. run[r].state \in RunStates /\ "entering" \in Ats /\ InputsOf(a) \in Inputs
  BY <1>1, RunTyped DEF Ats
<1> QED
  BY <1>1, <1>2, <1>6, <1>8, <1>9, RowCalm

LEMMA SubmitCallDelivers ==
  ASSUME Delivery, NEW r \in Runs, SubmitCall(r)
  PROVE  Delivery'
<1> DEFINE a == run[r].app
<1>1. /\ TypeOK /\ Executing(r) /\ a \in Apps /\ app[a] \in AppRow /\ Busy(r)
      /\ run[r].at = "entering" /\ r \in RunsOf(a)
      /\ \A q \in RunsOf(a) : Busy(q) => q = r
      /\ thread[r] \notin {"open", "changed", "sent"}
      /\ Filling(r) /\ Submitting(r) /\ (~denied[a] => Unsent(a))
      /\ UNCHANGED <<app, approval, sent, denied>>
  BY AtWorkAlone, RunTyped DEF SubmitCall, RunsOf, Filling, Submitting
<1>2. PICK i \in Inputs, t \in {thread[r], "open", "changed"} :
        /\ run' = [run EXCEPT ![r].at = "sending", ![r].inputs = i]
        /\ thread' = [thread EXCEPT ![r] = t]
        /\ t = "open" => Calls(ledger[r])
        /\ ~Calls(ledger[r]) => t = thread[r]
  BY <1>1, PlannedTyped DEF SubmitCall
<1>3. /\ run' \in [Runs -> RunRow]
      /\ run'[r].state = run[r].state /\ run'[r].at = "sending" /\ run'[r].app = a
      /\ \A q \in Runs \ {r} : run'[q] = run[q]
  <2>1. run[r].state \in RunStates /\ "sending" \in Ats
    BY <1>1, RunTyped DEF Ats
  <2>2. Puts(r, run[r].state, "sending", i)
    BY <1>1, <1>2, <2>1, Rows
  <2> QED
    BY <1>1, <2>1, <2>2, PutsIt
<1>7. PICK l \in Ledger :
        /\ ledger' = [ledger EXCEPT ![r] = l]
        /\ l = "refused" => ~Calls(ledger[r])
  <2>1. ledger[r] \in Ledger /\ ledger' = [ledger EXCEPT ![r] = Entered(ledger[r])]
    BY <1>1 DEF SubmitCall, TypeOK
  <2>2. \A k \in Ledger : Entered(k) \in Ledger /\ (Entered(k) = "refused" => ~Calls(k))
    BY DEF Entered, Ledger, Outcomes, Calls
  <2> QED
    BY <2>1, <2>2
<1>8. /\ thread'[r] = t /\ ledger'[r] = l
      /\ \A q \in Runs \ {r} : thread'[q] = thread[q] /\ ledger'[q] = ledger[q]
  BY <1>1, <1>2, <1>7 DEF TypeOK
<1>9. TypeOK'
  BY <1>1, <1>2, <1>3, <1>7 DEF TypeOK, Threads
<1>10. Alone' /\ AtRest' /\ ThreadsAwaited'
  BY <1>1, <1>3, <1>8
     DEF Delivery, Alone, AtRest, ThreadsAwaited, Busy, Sending, Executing, MidStep, Ended
<1>11. ASSUME NEW b \in Apps, ~denied'[b] PROVE Delivered(b)'
  <2>1. Delivered(b)
    BY <1>1, <1>11 DEF Delivery
  <2>2. CASE b # a
    BY <1>1, <1>3, <1>8, <2>1, <2>2
       DEF Delivered, SentRecorded, PressRecorded, SendingRecorded, FillingUnsent, Unsent, RunsOf,
           MayPress, Sending, Filling, Submitting, Executing, Status
  <2>3. CASE b = a
    <3>1. Unsent(a) /\ Status(a)' \in Out
      BY <1>1, <1>3, <1>11, <2>1, <2>3 DEF Delivered, SendingRecorded, Status
    <3>2. \A q \in RunsOf(a)' : Executing(q)' => q = r
      BY <1>1, <1>3 DEF RunsOf, Executing, Busy, Ended
    <3>3. \A q \in RunsOf(a)' : MayPress(q)' => q = r /\ t = "open"
      BY <1>2, <1>3, <1>8, <3>1, <1>1 DEF RunsOf, MayPress, Unsent
    <3>4. ledger'[r] = "refused" \/ thread'[r] = "changed" => Unsent(a)'
      <4>1. l = "refused" \/ t = "changed" => t # "open"
        BY <1>2, <1>7
      <4>2. thread[r] # "stray"
        BY <1>1, <3>1 DEF Unsent, MayPress
      <4>3. sent'[a] = 0 /\ run'[r].app = a
        BY <1>1, <1>3, <3>1 DEF Unsent
      <4>4. l = "refused" \/ t = "changed" => \A q \in RunsOf(a)' : ~MayPress(q)'
        BY <1>8, <3>3, <4>1
      <4> QED
        BY <1>8, <4>3, <4>4 DEF Unsent
    <3>5. sent'[a] = 0
      BY <1>1, <3>1 DEF Unsent
    <3> QED
      BY <1>1, <1>3, <2>3, <3>1, <3>2, <3>3, <3>4, <3>5
         DEF Delivered, SentRecorded, PressRecorded, SendingRecorded, FillingUnsent, Sending,
             Filling, Submitting
  <2> QED
    BY <2>2, <2>3
<1> QED
  BY <1>9, <1>10, <1>11 DEF Delivery

LEMMA ClickDelivers ==
  ASSUME Delivery, NEW r \in Runs, Click(r)
  PROVE  Delivery'
<1> DEFINE a == run[r].app
<1>1. /\ TypeOK /\ a \in Apps /\ r \in RunsOf(a) /\ MayPress(r)
      /\ UNCHANGED <<app, run, approval, ledger, denied>>
      /\ sent' = [sent EXCEPT ![a] = @ + 1] /\ sent[a] \in 0..MaxSent /\ sent[a] < MaxSent
      /\ MaxSent \in Nat
  BY RunTyped, ApplicationAssumption DEF Click, Delivery, RunsOf, MayPress, TypeOK
<1>2. PICK t \in {"sent", "none"} :
        thread' = [thread EXCEPT ![r] = t] /\ (t = "sent" => thread[r] = "open")
  BY DEF Click
<1>3. thread'[r] = t /\ \A q \in Runs \ {r} : thread'[q] = thread[q]
  BY <1>1, <1>2 DEF TypeOK
<1>4. TypeOK'
  BY <1>1, <1>2 DEF TypeOK, Threads
<1>5. Alone' /\ AtRest' /\ ThreadsAwaited'
  <2>1. Alone' /\ AtRest'
    BY <1>1 DEF Delivery, Alone, AtRest, Busy
  <2>2. \A q \in Runs : thread'[q] \in {"open", "changed", "sent"} =>
          thread[q] \in {"open", "changed", "sent"}
    BY <1>2, <1>3
  <2> QED
    BY <1>1, <2>1, <2>2 DEF Delivery, ThreadsAwaited, Sending, Executing
<1>6. ASSUME NEW b \in Apps, ~denied'[b] PROVE Delivered(b)'
  <2>1. Delivered(b)
    BY <1>1, <1>6 DEF Delivery
  <2>2. CASE b # a
    <3>1. sent'[b] = sent[b] /\ app' = app /\ run' = run /\ ledger' = ledger
          /\ \A q \in RunsOf(b) : thread'[q] = thread[q]
      BY <1>1, <1>3, <2>2 DEF TypeOK, RunsOf
    <3> QED
      BY <2>1, <3>1
         DEF Delivered, SentRecorded, PressRecorded, SendingRecorded, FillingUnsent, Unsent, RunsOf,
             MayPress, Sending, Filling, Submitting, Executing, Status
  <2>3. CASE b = a
    <3>1. /\ sent[a] = 0 /\ Status(a) \in Out /\ \A q \in RunsOf(a) : MayPress(q) => q = r
          /\ ~Unsent(a)
      BY <1>1, <2>1, <2>3 DEF Delivered, PressRecorded, Unsent
    <3>2. sent'[a] = 1 /\ Status(a)' \in Out /\ RunsOf(a)' = RunsOf(a)
      BY <1>1, <3>1 DEF TypeOK, Status, RunsOf
    <3>3. \A q \in RunsOf(a) : ~MayPress(q)'
      BY <1>2, <1>3, <3>1 DEF MayPress, RunsOf
    <3>4. \A q \in RunsOf(a) : Sending(q) => ledger[q] # "refused" /\ thread[q] # "changed"
      BY <2>1, <2>3, <3>1 DEF Delivered, SendingRecorded
    <3>5. \A q \in RunsOf(a) : ~Filling(q)
      BY <2>1, <2>3, <3>1 DEF Delivered, FillingUnsent
    <3> QED
      <4>1. SentRecorded(b)' /\ PressRecorded(b)'
        BY <1>1, <2>3, <3>2, <3>3 DEF SentRecorded, PressRecorded
      <4>2. SendingRecorded(b)'
        BY <1>1, <1>2, <1>3, <2>3, <3>2, <3>4 DEF SendingRecorded, Sending, Executing, RunsOf
      <4>3. FillingUnsent(b)'
        BY <1>1, <2>3, <3>5 DEF FillingUnsent, Filling, Executing, RunsOf
      <4> QED
        BY <4>1, <4>2, <4>3 DEF Delivered
  <2> QED
    BY <2>2, <2>3
<1> QED
  BY <1>4, <1>5, <1>6 DEF Delivery

LEMMA CallDelivers ==
  ASSUME Delivery, NEW r \in Runs,
         CallRaises(r) \/ \E out \in Outcomes : CallReturns(r, out)
  PROVE  Delivery'
<1> DEFINE a == run[r].app
<1>1. /\ TypeOK /\ Executing(r) /\ Sending(r) /\ a \in Apps /\ Busy(r) /\ r \in RunsOf(a)
      /\ run[r].at = "sending" /\ thread[r] \in {"open", "changed", "sent"}
      /\ thread' = [thread EXCEPT ![r] = "none"]
      /\ UNCHANGED <<app, approval, sent, denied>>
  BY AtWorkAlone DEF CallRaises, CallReturns, Sending, RunsOf
<1>2. run[r].state \in {"live", "cancelling"} /\ run[r].state \in RunStates
  BY <1>1, RunTyped DEF Executing
<1>3. CASE CallRaises(r)
  <2>1. PICK s \in {run[r].state, "failed"} : Puts(r, s, "submit", Nothing)
    BY <1>1, <1>3, Rows, RunTyped DEF CallRaises, Ats
  <2>2. s \in RunStates /\ "submit" \in Ats /\ Nothing \in Inputs /\ ledger' = [ledger EXCEPT ![r] = "failed"]
        /\ s # "waiting" /\ "submit" \notin MidStep
    BY <1>1, <1>2, <1>3, RunTyped DEF CallRaises, Ats, MidStep
  <2>3. TypeOK'
    BY <1>1, <2>1, <2>2, PutsIt DEF TypeOK, Ledger, Threads
  <2>4. Calm(r, s, "submit", "none", "failed") /\ KeepsOut(r, s)
    BY <1>1, <2>2 DEF Calm, KeepsOut, Status
  <2>5. "none" \in Threads /\ "failed" \in Ledger
    BY DEF Threads, Ledger
  <2> QED
    BY <1>1, <2>1, <2>2, <2>3, <2>4, <2>5, PutCalm
<1>4. ASSUME NEW out \in Outcomes, CallReturns(r, out) PROVE Delivery'
  <2>1. Puts(r, run[r].state, run[r].at, run[r].inputs)
    <3>1. run' = run /\ run \in [Runs -> RunRow]
      BY <1>1, <1>4 DEF CallReturns, TypeOK
    <3>2. run' = [run EXCEPT ![r].state = run[r].state]
      BY <1>1, <3>1 DEF RunRow
    <3> QED
      BY <1>1, <1>2, <3>2, Rows, RunTyped
  <2>2. ledger' = [ledger EXCEPT ![r] = out] /\ out \in Ledger /\ run' = run
    BY <1>4 DEF CallReturns, Ledger
  <2>3. TypeOK'
    BY <1>1, <2>2 DEF TypeOK, Threads
  <2>4. out = "refused" => denied[a] \/ UnsentThen(a)
    <3>1. CASE thread[r] = "sent"
      BY <1>4, <3>1 DEF CallReturns, Reports
    <3>2. CASE thread[r] = "changed" /\ ~denied[a]
      <4>1. Unsent(a)
        BY <1>1, <3>2, AtWorkAlone DEF Refusing
      <4> QED
        BY <1>1, <4>1 DEF Unsent, UnsentThen, MayPress, TypeOK, RunsOf
    <3>3. CASE thread[r] = "open" /\ ~denied[a]
      <4>1. sent[a] = 0 /\ \A q \in RunsOf(a) : MayPress(q) => q = r
        BY <1>1, <3>3 DEF Delivery, Delivered, PressRecorded, MayPress
      <4> QED
        BY <1>1, <4>1 DEF UnsentThen, MayPress, TypeOK, RunsOf
    <3> QED
      BY <1>1, <3>1, <3>2, <3>3
  <2>5. run[r].at \in Ats /\ run[r].inputs \in Inputs
    BY <1>1, RunTyped
  <2>6. run[r].state \notin {"failed", "waiting"}
    BY <1>2
  <2>7. Calm(r, run[r].state, run[r].at, "none", out) /\ KeepsOut(r, run[r].state)
    BY <1>1, <2>4, <2>6 DEF Calm, KeepsOut, Status
  <2>8. "none" \in Threads
    BY DEF Threads
  <2> QED
    BY <1>1, <1>2, <2>1, <2>2, <2>3, <2>5, <2>7, <2>8, PutCalm
<1> QED
  BY <1>3, <1>4

LEMMA SubmitEndDelivers ==
  ASSUME Delivery, NEW r \in Runs, SubmitEnd(r)
  PROVE  Delivery'
<1> DEFINE a == run[r].app
           to == Outcome(ledger[r])
           new == IF to = "failed" THEN app[a]
                  ELSE [app[a] EXCEPT
                     !.submitted = @ \/ to = "submitted",
                     !.evidence = IF to = "submitted" THEN "observed" ELSE "none"]
<1>1. /\ TypeOK /\ Executing(r) /\ Sending(r) /\ a \in Apps /\ app[a] \in AppRow
      /\ thread[r] \notin {"open", "changed", "sent"}
      /\ Ends(r) /\ UNCHANGED <<approval, ledger, thread, sent, denied>>
      /\ Move(a, new, to)
  BY AtWorkAlone, RunTyped DEF SubmitEnd, Sending
<1>2. /\ to \in {"failed", "submitted", "submission_uncertain"} /\ to \in ApplicationStatus
      /\ to = "failed" => ledger[r] = "refused"
  BY DEF Outcome, ApplicationStatus
<1>3. new \in AppRow /\ new.status = Status(a)
  BY <1>1 DEF AppRow, Status
<1> HIDE DEF new, to
<1>4. app' \in [Apps -> AppRow] /\ app'[a].status = to /\ \A b \in Apps \ {a} : app'[b] = app[b]
  BY ZenonT(40), <1>1, <1>2, <1>3, Moves
<1>5. to = "failed" /\ ~denied[a] => Unsent(a)
  BY <1>1, <1>2, AtWorkAlone DEF Refusing
<1>6. \A b \in Apps : ~denied[b] /\ Status(b) \in Out =>
        app'[b].status \in Out \/ (b = a /\ Unsent(b))
  BY <1>1, <1>2, <1>4, <1>5 DEF Status, Out
<1> QED
  BY <1>1, <1>4, <1>6, EndsCalm

-----------------------------------------------------------------------------
(* The window, the runtime, the user *)

LEMMA AssistDelivers ==
  ASSUME Delivery, NEW r \in Runs, AssistBegin(r) \/ AssistConfirmed(r) \/ AssistEnded(r)
  PROVE  Delivery'
<1> DEFINE a == run[r].app
<1>1. /\ TypeOK /\ Executing(r) /\ a \in Apps /\ app[a] \in AppRow /\ Busy(r)
      /\ run[r].at \in {"assist", "watching"} /\ app \in [Apps -> AppRow]
      /\ approval \in [Runs -> Approvals]
      /\ thread[r] \notin {"open", "changed", "sent"}
      /\ UNCHANGED <<approval, ledger, thread, sent, denied>>
  BY AtWorkAlone, RunTyped DEF AssistBegin, AssistConfirmed, AssistEnded, TypeOK
<1>2. ASSUME Ends(r), \A b \in Apps : Status(b) \in Out => app'[b].status \in Out,
             app' \in [Apps -> AppRow]
      PROVE  Delivery'
  BY <1>1, <1>2, EndsCalm
<1>3. ASSUME UNCHANGED app PROVE \A b \in Apps : Status(b) \in Out => app'[b].status \in Out
  BY <1>3 DEF Status
<1>4. CASE AssistBegin(r)
  <2>1. CASE Status(a) \in AssistFrom
    <3>1. Puts(r, run[r].state, "watching", run[r].inputs)
      BY <1>1, <1>4, <2>1, Rows, RunTyped DEF AssistBegin, Ats
    <3>2. Works(run[r].state) /\ run[r].state \notin {"failed", "waiting"} /\ UNCHANGED app
      BY <1>1, <1>4 DEF Executing, Works, AssistBegin
    <3>3. Calm(r, run[r].state, "watching", thread[r], ledger[r]) /\ KeepsOut(r, run[r].state)
      BY <1>1, <1>3, <3>2 DEF Calm, KeepsOut, MayPress
    <3>4. run[r].state \in RunStates /\ "watching" \in Ats /\ run[r].inputs \in Inputs
      BY <1>1, RunTyped DEF Ats
    <3> QED
      BY <1>1, <3>1, <3>2, <3>3, <3>4, RowCalm
  <2>2. CASE Status(a) \notin AssistFrom
    BY <1>1, <1>2, <1>3, <1>4, <2>2 DEF AssistBegin
  <2> QED
    BY <2>1, <2>2
<1>5. CASE AssistConfirmed(r)
  <2>1. /\ [app[a] EXCEPT !.submitted = TRUE, !.evidence = "observed", !.blocker = "none"] \in AppRow
        /\ [app[a] EXCEPT !.submitted = TRUE, !.evidence = "observed",
                          !.blocker = "none"].status = Status(a)
        /\ "submitted" \in ApplicationStatus
    BY <1>1 DEF AppRow, ApplicationStatus, Status
  <2>2. app' \in [Apps -> AppRow] /\ \A b \in Apps : Status(b) \in Out => app'[b].status \in Out
    BY ZenonT(40), <1>1, <1>5, <2>1, Moves, StaysOut DEF AssistConfirmed
  <2> QED
    BY <1>2, <1>5, <2>2 DEF AssistConfirmed
<1>6. CASE AssistEnded(r)
  BY <1>1, <1>2, <1>3, <1>6 DEF AssistEnded
<1> QED
  BY <1>4, <1>5, <1>6

LEMMA SiteDelivers ==
  ASSUME Delivery, NEW r \in Runs, Site(r)
  PROVE  Delivery'
<1>1. CASE StrayEnds(r)
  <2>1. /\ UNCHANGED <<app, run, approval, ledger, sent, denied>>
        /\ \A q \in Runs : thread'[q] = thread[q] \/ thread'[q] = "none"
    BY <1>1 DEF StrayEnds, Delivery, TypeOK
  <2>2. TypeOK'
    BY <1>1 DEF StrayEnds, Delivery, TypeOK, Threads
  <2>3. Alone' /\ AtRest' /\ ThreadsAwaited'
    BY <2>1 DEF Delivery, Alone, AtRest, ThreadsAwaited, Busy, Sending, Executing
  <2>4. /\ \A q \in Runs : MayPress(q)' => MayPress(q) /\ run'[q].app = run[q].app
        /\ \A q \in Runs : Filling(q)' => run'[q].app = run[q].app /\ Filling(q)
        /\ \A q \in Runs : Sending(q)' =>
             run'[q].app = run[q].app /\ Sending(q) /\ (Refusing(q)' => Refusing(q))
        /\ \A q \in Runs : Submitting(q)' => run'[q].app = run[q].app /\ Submitting(q)
    BY <2>1 DEF MayPress, Filling, Sending, Submitting, Executing, Refusing
  <2> QED
    BY <2>1, <2>2, <2>3, <2>4, Quiet DEF Status
<1> QED
  BY <1>1, ClickDelivers DEF Site

LEMMA RuntimeDelivers ==
  ASSUME Delivery, NEW r \in Runs, RuntimeStep(r)
  PROVE  Delivery'
<1>1. /\ TypeOK /\ UNCHANGED <<app, approval, ledger, sent, denied>>
      /\ run[r].at \in Ats /\ FirstOf(run[r].at) \in Ats \ MidStep
      /\ Nothing \in Inputs /\ run[r].state \in {"live", "cancelling"} /\ Busy(r)
  BY RunTyped DEF RuntimeStep, Interrupted, Stopped, Delivery, FirstOf, Ats, MidStep, Busy, Ended
<1>2. PICK t \in {"none", Left(thread[r])} : thread' = [thread EXCEPT ![r] = t]
  BY DEF RuntimeStep, Interrupted, Stopped
<1>3. PICK s \in {"live", "failed", "cancelled"}, at \in Ats :
        Puts(r, s, at, Nothing) /\ (s # "cancelled" => at \notin MidStep)
  <2>1. CASE Interrupted(r)
    <3>1. PICK s \in {"live", "failed"} :
            run' = [run EXCEPT ![r].state = s, ![r].at = FirstOf(run[r].at), ![r].inputs = Nothing]
      BY <1>1, <2>1 DEF Interrupted, Delivery, TypeOK, RunRow
    <3>2. Puts(r, s, FirstOf(run[r].at), Nothing)
      BY <1>1, <3>1, Rows, RunTyped
    <3> QED
      BY <1>1, <3>2
  <2>2. CASE Stopped(r)
    BY <1>1, <2>2, Rows, RunTyped DEF Stopped
  <2> QED
    BY <2>1, <2>2 DEF RuntimeStep
<1>4. t \in Threads \ {"open", "changed", "sent"} /\ (t = "stray" => MayPress(r))
  BY DEF Left, Threads, MayPress
<1>5. ledger' = [ledger EXCEPT ![r] = ledger[r]] /\ ledger[r] \in Ledger /\ s \in RunStates
  BY <1>1 DEF TypeOK, RunStates
<1>6. TypeOK'
  BY <1>1, <1>2, <1>3, <1>4, <1>5, PutsIt DEF TypeOK
<1>7. Calm(r, s, at, t, ledger[r]) /\ KeepsOut(r, s)
  BY <1>1, <1>3, <1>4 DEF Calm, Works, KeepsOut, Status, Ended, MidStep
<1> QED
  BY <1>1, <1>2, <1>3, <1>4, <1>5, <1>6, <1>7, PutCalm

LEMMA UserWritesDelivers ==
  ASSUME Delivery, NEW a \in Apps, UserOnApplication(a)
  PROVE  Delivery'
<1>1. TypeOK' /\ \A b \in Apps : ~denied'[b] /\ Status(b) \in Out => app'[b].status \in Out
  BY UserTypes DEF Delivery
<1>2. /\ UNCHANGED <<run, approval, ledger, thread, sent>>
      /\ \A b \in Apps : denied[b] => denied'[b]
  BY DEF UserOnApplication, CreateApplication, UpdateApplication, RecordAnswer, ChangeStatus,
     ResolveUncertain, Delivery, TypeOK
<1>3. Alone' /\ AtRest' /\ ThreadsAwaited'
  BY <1>2 DEF Delivery, Alone, AtRest, ThreadsAwaited, Busy, Sending, Executing
<1>4. /\ \A q \in Runs : MayPress(q)' => MayPress(q) /\ run'[q].app = run[q].app
      /\ \A q \in Runs : Filling(q)' => run'[q].app = run[q].app /\ Filling(q)
      /\ \A q \in Runs : Sending(q)' =>
           run'[q].app = run[q].app /\ Sending(q) /\ (Refusing(q)' => Refusing(q))
      /\ \A q \in Runs : Submitting(q)' => run'[q].app = run[q].app /\ Submitting(q)
  BY <1>2 DEF MayPress, Filling, Sending, Submitting, Executing, Refusing
<1> QED
  BY <1>1, <1>2, <1>3, <1>4, Quiet

LEMMA ControlDelivers ==
  ASSUME Delivery, ~Overlapping, NEW r \in Runs,
         \/ Decide(r, "approved") \/ Decide(r, "rejected")
         \/ CancelRun(r) \/ RetryRun(r)
         \/ \E step \in Reruns : RerunRun(r, step)
  PROVE  Delivery'
<1>1. /\ TypeOK /\ UNCHANGED <<app, ledger, thread, sent, denied>>
      /\ run[r].at \in Ats /\ run[r].inputs \in Inputs
      /\ {"live", "cancelled", "cancelling"} \subseteq RunStates
      /\ thread[r] \in {"open", "changed", "sent"} => Works(run[r].state) /\ run[r].at = "sending"
      /\ app \in [Apps -> AppRow] /\ approval \in [Runs -> Approvals]
  BY RunTyped DEF Decide, CancelRun, RetryRun, RerunRun, Delivery, TypeOK, RunStates,
     ThreadsAwaited, Sending, Executing, Works
<1>2. approval' \in [Runs -> Approvals]
  BY <1>1 DEF Decide, CancelRun, Cancelled, RetryRun, RerunRun, Approvals
<1>3. PICK s \in {"live", "cancelled", "cancelling"}, at \in Ats :
        /\ Puts(r, s, at, run[r].inputs)
        /\ Calm(r, s, at, thread[r], ledger[r])
  <2>1. CASE Decide(r, "approved") \/ Decide(r, "rejected")
    <3>1. Puts(r, "live", run[r].at, run[r].inputs)
      BY <1>1, <2>1, Rows DEF Decide
    <3>2. run[r].state = "waiting" /\ run[r].at = "approve"
      BY <2>1 DEF Decide, Delivery, AtRest
    <3>3. Calm(r, "live", run[r].at, thread[r], ledger[r])
      BY <1>1, <3>2 DEF Calm, Busy, Ended, MayPress, Works
    <3> QED
      BY <1>1, <3>1, <3>3
  <2>2. ASSUME NEW s \in {"cancelled", "cancelling"}, NEW ap, Cancelled(s, ap, {r}),
               Works(s) => run[r].state = "live",
               ~Works(s) => run[r].at \notin MidStep
        PROVE  Puts(r, s, run[r].at, run[r].inputs) /\ Calm(r, s, run[r].at, thread[r], ledger[r])
    <3>1. run' = [run EXCEPT ![r].state = s]
      BY <1>1, <2>2 DEF Cancelled, TypeOK
    <3>2. Puts(r, s, run[r].at, run[r].inputs)
      BY <1>1, <3>1, Rows
    <3>3. Calm(r, s, run[r].at, thread[r], ledger[r])
      BY <1>1, <2>2 DEF Calm, Busy, Ended, MayPress, Works, Filling, Sending, Submitting, Executing,
         Refusing, MidStep
    <3> QED
      BY <3>2, <3>3
  <2>3. CASE CancelRun(r)
    BY <1>1, <2>2, <2>3 DEF CancelRun, Works, MidStep
  <2>4. CASE RetryRun(r)
    <3>1. Puts(r, "live", run[r].at, run[r].inputs)
      BY <1>1, <2>4, Rows DEF RetryRun
    <3>2. run[r].state = "failed" /\ run[r].at \notin MidStep /\ Apart(r)
      BY <2>4 DEF RetryRun, Delivery, AtRest, MayOverlap, Apart
    <3>3. Calm(r, "live", run[r].at, thread[r], ledger[r])
      BY <1>1, <3>2 DEF Calm, MayPress, Works, MidStep
    <3> QED
      BY <1>1, <3>1, <3>3
  <2>5. ASSUME NEW step \in Reruns, RerunRun(r, step)
        PROVE  Puts(r, "live", step, run[r].inputs) /\ Calm(r, "live", step, thread[r], ledger[r])
               /\ step \in Ats
    <3>1. step \in Ats /\ step \notin MidStep
      BY ApplicationAssumption DEF Ats, MidStep
    <3>2. Puts(r, "live", step, run[r].inputs)
      BY <1>1, <2>5, <3>1, Rows DEF RerunRun
    <3>3. ~Works(run[r].state) /\ Apart(r)
      BY <2>5 DEF RerunRun, MayOverlap, Apart, Works
    <3>4. Calm(r, "live", step, thread[r], ledger[r])
      BY <1>1, <3>1, <3>3 DEF Calm, MayPress, MidStep
    <3> QED
      BY <3>1, <3>2, <3>4
  <2> QED
    BY <2>1, <2>3, <2>4, <2>5
<1>4. KeepsOut(r, s)
  BY <1>1 DEF KeepsOut, Status
<1> QED
  BY <1>1, <1>2, <1>3, <1>4, RowCalm

\* A new run, of an application that is there or has just been created
LEMMA NewRunDelivers ==
  ASSUME Delivery, ~Overlapping, NEW r \in Runs, NEW a \in Apps, NEW kind \in {"apply", "assist"},
         NEW auto \in BOOLEAN, NewRun(r, a, kind, auto), app' \in [Apps -> AppRow],
         \A b \in Apps : Status(b) \in Out => app'[b].status \in Out,
         UNCHANGED <<thread, sent, denied>>
  PROVE  Delivery'
<1> DEFINE new == [kind |-> kind, auto |-> auto, app |-> a, state |-> "live",
                   at |-> IF kind = "apply" THEN "fill" ELSE "assist",
                   inputs |-> Nothing, digest |-> Nothing, shown |-> Nothing,
                   refilled |-> FALSE]
<1>1. /\ TypeOK /\ thread[r] = "none" /\ run[r].state \in Ended
      /\ \A q \in Runs : run[q].app = a => run[q].state \in Ended
  BY DEF Delivery, NewRun, Free, MayOverlap
<1>2. /\ new \in RunRow /\ new.app = a /\ new.state = "live"
      /\ new.at \notin MidStep /\ run' = [run EXCEPT ![r] = new]
  BY DEF NewRun, RunRow, RunStates, MidStep
<1> HIDE DEF new
<1>3. /\ run' \in [Runs -> RunRow] /\ run'[r].app = a /\ run'[r].state = "live"
      /\ run'[r].at \notin MidStep /\ \A q \in Runs \ {r} : run'[q] = run[q]
  BY <1>1, <1>2 DEF TypeOK
<1>4. /\ approval' \in [Runs -> Approvals] /\ ledger' \in [Runs -> Ledger]
      /\ \A q \in Runs \ {r} : ledger'[q] = ledger[q]
  BY <1>1 DEF NewRun, TypeOK, Approvals, Ledger
<1>5. TypeOK'
  BY <1>1, <1>3, <1>4 DEF TypeOK
<1>6. Alone' /\ AtRest' /\ ThreadsAwaited'
  BY <1>1, <1>3 DEF Delivery, Alone, AtRest, ThreadsAwaited, Busy, Sending, Executing, MidStep
<1>7. /\ \A q \in Runs : MayPress(q)' => MayPress(q) /\ run'[q].app = run[q].app
      /\ \A q \in Runs : Filling(q)' => run'[q].app = run[q].app /\ Filling(q)
      /\ \A q \in Runs : Sending(q)' =>
           run'[q].app = run[q].app /\ Sending(q) /\ (Refusing(q)' => Refusing(q))
      /\ \A q \in Runs : Submitting(q)' => run'[q].app = run[q].app /\ Submitting(q)
  BY <1>1, <1>3, <1>4 DEF MayPress, Filling, Sending, Submitting, Executing, Refusing, MidStep
<1> QED
  BY <1>5, <1>6, <1>7, Quiet

-----------------------------------------------------------------------------
(* What a step does to the forms that were shown, filled in and sent *)

\* Run r, put in state s at step at with inputs i and its thread at t, keeps to the form
\* that it filled in and showed
Steady(r, s, at, i, t) ==
  /\ s = "failed" => at \notin MidStep
  /\ s = "waiting" => at = "approve"
  /\ t \in {"open", "changed", "sent"} => Works(s) /\ at = "sending"
  /\ t \in {"open", "sent"} => i = run[r].digest
  /\ Works(s) /\ at \in {"filling", "entering"} => i # Nothing
  /\ at \in {"approve", "submit", "entering", "sending"} => run[r].digest # Nothing
  /\ approval'[r] \in {"pending", "approved"} => approval[r] \in {"pending", "approved"}
  /\ approval'[r] = "none" => approval[r] = "none"

\* The other variables are of their types, and no form is filled in
Tidy(r) ==
  /\ app' \in [Apps -> AppRow] /\ \A a \in Apps : app'[a].form = app[a].form
  /\ approval' \in [Runs -> Approvals] /\ \A q \in Runs \ {r} : approval'[q] = approval[q]
  /\ ledger' \in [Runs -> Ledger]
  /\ sent' \in [Apps -> 0..MaxSent] /\ denied' \in [Apps -> BOOLEAN]

LEMMA PutShows ==
  ASSUME Shown, NEW r \in Runs, NEW s \in RunStates, NEW at \in Ats, NEW i \in Inputs,
         NEW t \in Threads, Puts(r, s, at, i), thread' = [thread EXCEPT ![r] = t],
         Tidy(r), Steady(r, s, at, i, t)
  PROVE  Shown'
<1>1. TypeOK /\ ThreadsAwaited /\ AtRest /\ \A q \in Runs : Shows(q)
  BY DEF Shown
<1>2. /\ run' \in [Runs -> RunRow]
      /\ run'[r].state = s /\ run'[r].at = at /\ run'[r].inputs = i
      /\ run'[r].app = run[r].app /\ run'[r].kind = run[r].kind
      /\ run'[r].digest = run[r].digest /\ run'[r].shown = run[r].shown
      /\ run'[r].refilled = run[r].refilled
      /\ \A q \in Runs \ {r} : run'[q] = run[q]
  BY <1>1, PutsIt
<1>3. thread' \in [Runs -> Threads] /\ thread'[r] = t /\ \A q \in Runs \ {r} : thread'[q] = thread[q]
  BY <1>1 DEF TypeOK
<1>4. TypeOK'
  BY <1>2, <1>3 DEF TypeOK, Tidy
<1>5. AtRest'
  BY <1>1, <1>2 DEF AtRest, Steady
<1>6. ThreadsAwaited'
  BY <1>1, <1>2, <1>3 DEF ThreadsAwaited, Sending, Executing, Steady, Works
<1>7. \A q \in Runs : run[q].app \in Apps
  BY <1>1, RunTyped
<1>8. ASSUME NEW q \in Runs \ {r} PROVE Shows(q)'
  BY <1>1, <1>2, <1>3, <1>7 DEF Shows, Tidy, Filling, Executing
<1>9. Shows(r)'
  BY <1>1, <1>2, <1>3, <1>7 DEF Shows, Tidy, Steady, Filling, Executing, Works
<1> QED
  BY <1>4, <1>5, <1>6, <1>8, <1>9 DEF Shown

\* A run's step whose transaction leaves the rest alone
LEMMA RowShows ==
  ASSUME Shown, NEW r \in Runs, NEW s \in RunStates, NEW at \in Ats, NEW i \in Inputs,
         Puts(r, s, at, i), app' \in [Apps -> AppRow], \A a \in Apps : app'[a].form = app[a].form,
         UNCHANGED <<approval, ledger, thread, sent, denied>>,
         Steady(r, s, at, i, thread[r])
  PROVE  Shown'
<1>1. TypeOK
  BY DEF Shown
<1>2. thread[r] \in Threads /\ thread' = [thread EXCEPT ![r] = thread[r]] /\ Tidy(r)
  BY <1>1 DEF TypeOK, Tidy
<1> QED
  BY <1>2, PutShows

\* A run that executes and is not sending has no thread that somebody waits for
LEMMA NotWaitedFor ==
  ASSUME Shown, NEW r \in Runs
  PROVE  /\ TypeOK /\ run[r].app \in Apps /\ app[run[r].app] \in AppRow /\ Shows(r)
         /\ app \in [Apps -> AppRow] /\ approval \in [Runs -> Approvals]
         /\ run[r].at # "sending" => thread[r] \notin {"open", "changed", "sent"}
         /\ ~Executing(r) => thread[r] \notin {"open", "changed", "sent"}
BY RunTyped DEF Shown, ThreadsAwaited, Sending, TypeOK

LEMMA EndsShows ==
  ASSUME Shown, NEW r \in Runs, Ends(r), app' \in [Apps -> AppRow],
         \A a \in Apps : app'[a].form = app[a].form,
         UNCHANGED <<approval, ledger, thread, sent, denied>>,
         thread[r] \notin {"open", "changed", "sent"}
  PROVE  Shown'
<1>1. TypeOK /\ Shows(r)
  BY DEF Shown
<1>2. Puts(r, Finish(r), run[r].at, Nothing)
  BY <1>1, Rows, RunTyped
<1>3. Finish(r) \notin {"failed", "waiting"}
  BY DEF Finish
<1>4. Steady(r, Finish(r), run[r].at, Nothing, thread[r])
  BY <1>1, <1>3 DEF Steady, Shows, Works, Finish
<1>5. Finish(r) \in RunStates /\ run[r].at \in Ats /\ Nothing \in Inputs
  BY <1>1, RunTyped
<1> QED
  BY <1>2, <1>4, <1>5, RowShows

LEMMA FilledShows ==
  ASSUME Shown, NEW r \in Runs, Filled(r)
  PROVE  Shown'
<1> DEFINE a == run[r].app
<1>1. /\ TypeOK /\ Executing(r) /\ a \in Apps /\ app[a] \in AppRow /\ run[r].at = "filling"
      /\ thread[r] \notin {"open", "changed", "sent"}
      /\ ThreadsAwaited /\ AtRest /\ \A q \in Runs : Shows(q) /\ run[q].app \in Apps
      /\ UNCHANGED <<approval, ledger, thread, sent, denied>>
  BY NotWaitedFor, RunTyped DEF Filled, Shown
<1>2. PICK v \in Answers :
        /\ Move(a, [app[a] EXCEPT !.form = v, !.blocker = "none"], "awaiting_review")
        /\ run' = [q \in Runs |->
             IF q = r
               THEN [run[r] EXCEPT !.at = "approve", !.digest = v, !.inputs = Nothing,
                                   !.refilled = approval[r] # "none"]
               ELSE [run[q] EXCEPT !.refilled = @ \/ (run[q].app = a /\ approval[q] = "none")]]
  <2>1. run[r].inputs # Nothing
    BY <1>1 DEF Shows, Filling
  <2> QED
    BY <1>1, <2>1, FilledForm
<1>3. /\ app' \in [Apps -> AppRow] /\ app'[a].form = v
      /\ \A b \in Apps \ {a} : app'[b] = app[b]
  <2> DEFINE new == [app[a] EXCEPT !.form = v, !.blocker = "none"]
  <2>1. new \in AppRow /\ new.form = v /\ "awaiting_review" \in ApplicationStatus
    BY <1>1 DEF AppRow, Inputs, ApplicationStatus
  <2>2. Move(a, new, "awaiting_review")
    BY <1>2
  <2> HIDE DEF new
  <2> QED
    BY <1>1, <2>1, <2>2, Moves
<1>4. v # Nothing /\ v \in Inputs
  BY ApplicationAssumption DEF Inputs
<1>5. /\ run' \in [Runs -> RunRow]
      /\ run'[r].at = "approve" /\ run'[r].digest = v
      /\ run'[r].refilled = (approval[r] # "none")
      /\ \A q \in Runs :
           /\ run'[q].app = run[q].app /\ run'[q].state = run[q].state
           /\ run'[q].kind = run[q].kind /\ run'[q].shown = run[q].shown
      /\ \A q \in Runs \ {r} :
           /\ run'[q].at = run[q].at /\ run'[q].inputs = run[q].inputs
           /\ run'[q].digest = run[q].digest
           /\ run'[q].refilled =
                (run[q].refilled \/ (run[q].app = run[r].app /\ approval[q] = "none"))
  <2>1. run' = [q \in Runs |->
          IF q = r
            THEN [run[r] EXCEPT !.at = "approve", !.digest = v, !.inputs = Nothing,
                                !.refilled = approval[r] # "none"]
            ELSE [run[q] EXCEPT !.refilled =
                    @ \/ (run[q].app = run[r].app /\ approval[q] = "none")]]
    BY <1>2
  <2> QED
    BY ZenonT(60), <1>1, <1>4, <2>1, FilledRows
<1>6. TypeOK'
  BY <1>1, <1>3, <1>5 DEF TypeOK
<1>7. ThreadsAwaited' /\ AtRest'
  BY <1>1, <1>5 DEF ThreadsAwaited, AtRest, Sending, Executing, MidStep
<1>8. Shows(r)'
  BY <1>1, <1>3, <1>4, <1>5 DEF Shows, Filling
<1>9. ASSUME NEW q \in Runs \ {r} PROVE Shows(q)'
  <2>1. Shows(q) /\ run[q].app \in Apps /\ run'[q].app = run[q].app
    BY <1>1, <1>5
  <2>2. ~run'[q].refilled => ~run[q].refilled /\ (approval[q] = "none" => app'[run[q].app] = app[run[q].app])
    BY <1>1, <1>3, <1>5, <2>1
  <2> QED
    BY <1>1, <1>5, <2>1, <2>2 DEF Shows, Filling, Executing
<1> QED
  BY <1>6, <1>7, <1>8, <1>9 DEF Shown

LEMMA FillShows ==
  ASSUME Shown, NEW r \in Runs,
         FillBegin(r) \/ \E why \in {"blocked", "missing", "documents", "error"} : NotFilled(r, why)
  PROVE  Shown'
<1> DEFINE a == run[r].app
<1>1. /\ TypeOK /\ Executing(r) /\ a \in Apps /\ app[a] \in AppRow /\ app \in [Apps -> AppRow]
      /\ thread[r] \notin {"open", "changed", "sent"}
      /\ UNCHANGED <<approval, ledger, thread, sent, denied>>
  BY NotWaitedFor DEF FillBegin, NotFilled
<1>2. CASE FillBegin(r) /\ Status(a) \in BrowserStart
  <2>1. Puts(r, run[r].state, "filling", InputsOf(a))
    BY <1>1, <1>2, Rows, RunTyped DEF FillBegin, Ats
  <2>2. app' = [app EXCEPT ![a] = [app[a] EXCEPT !.status = "preparing"]]
    BY <1>2 DEF FillBegin
  <2>3. /\ [app[a] EXCEPT !.status = "preparing"] \in AppRow
        /\ [app[a] EXCEPT !.status = "preparing"].form = app[a].form
    BY <1>1 DEF AppRow, ApplicationStatus
  <2>4. app' \in [Apps -> AppRow] /\ \A b \in Apps : app'[b].form = app[b].form
    BY <1>1, <2>2, <2>3
  <2>5. InputsOf(a) # Nothing /\ run[r].state \notin {"failed", "waiting"}
    BY <1>1, ApplicationAssumption DEF InputsOf, AppRow, Executing
  <2>6. Steady(r, run[r].state, "filling", InputsOf(a), thread[r])
    BY <1>1, <2>5 DEF Steady
  <2>7. run[r].state \in RunStates /\ "filling" \in Ats /\ InputsOf(a) \in Inputs
    BY <1>1, RunTyped DEF Ats
  <2> QED
    BY <1>1, <2>1, <2>4, <2>6, <2>7, RowShows
<1>3. CASE FillBegin(r) /\ Status(a) \notin BrowserStart
  BY <1>1, <1>3, EndsShows DEF FillBegin
<1>4. ASSUME NEW why \in {"blocked", "missing", "documents", "error"}, NotFilled(r, why)
      PROVE  Shown'
  <2> DEFINE to == IF why = "error" THEN "failed" ELSE "needs_user_action"
             new == [app[a] EXCEPT !.blocker = why]
  <2>1. new \in AppRow /\ new.form = app[a].form /\ to \in ApplicationStatus /\ Move(a, new, to)
    BY <1>1, <1>4 DEF AppRow, ApplicationStatus, NotFilled
  <2> HIDE DEF new, to
  <2>2. app' \in [Apps -> AppRow] /\ app'[a].form = app[a].form /\ \A b \in Apps \ {a} : app'[b] = app[b]
    BY <1>1, <2>1, Moves
  <2>3. \A b \in Apps : app'[b].form = app[b].form
    BY <2>2
  <2> QED
    BY <1>1, <1>4, <2>2, <2>3, EndsShows DEF NotFilled
<1> QED
  BY <1>2, <1>3, <1>4

LEMMA ApprovalShows ==
  ASSUME Shown, NEW r \in Runs, AskApproval(r) \/ Approved(r) \/ NotApproved(r)
  PROVE  Shown'
<1> DEFINE a == run[r].app
<1>1. /\ TypeOK /\ Executing(r) /\ a \in Apps /\ app[a] \in AppRow /\ app \in [Apps -> AppRow]
      /\ run[r] \in RunRow /\ run[r].at = "approve" /\ Shows(r)
      /\ approval \in [Runs -> Approvals]
      /\ thread[r] \notin {"open", "changed", "sent"}
  BY NotWaitedFor, RunTyped DEF AskApproval, Approved, NotApproved
<1>2. CASE AskApproval(r)
  <2> DEFINE f == IF approval[r] = "none" THEN app[a].form ELSE run[r].shown
             s == IF run[r].state = "live" THEN "waiting" ELSE run[r].state
             new == [run[r] EXCEPT !.shown = f, !.state = s]
  <2>1. app[a].form \in Inputs /\ run[r].shown \in Inputs
    BY <1>1 DEF AppRow, RunRow, Inputs
  <2>2. run' = [run EXCEPT ![r] = new]
    BY <1>1, <1>2 DEF AskApproval, TypeOK, RunRow
  <2>3. /\ new \in RunRow /\ new.state = s /\ new.at = "approve" /\ new.app = a
        /\ new.kind = run[r].kind /\ new.inputs = run[r].inputs /\ new.digest = run[r].digest
        /\ new.refilled = run[r].refilled /\ new.shown = f
    BY ZenonT(40), <1>1, <2>1 DEF RunRow, Inputs, RunStates
  <2> HIDE DEF new, f, s
  <2>4. /\ run' \in [Runs -> RunRow] /\ run'[r] = new
        /\ \A q \in Runs \ {r} : run'[q] = run[q]
    BY <1>1, <2>2, <2>3 DEF TypeOK
  <2>5. /\ UNCHANGED <<app, ledger, thread, sent, denied>> /\ approval' \in [Runs -> Approvals]
        /\ approval'[r] = "pending" /\ approval[r] \in {"none", "pending"}
        /\ \A q \in Runs \ {r} : approval'[q] = approval[q]
    BY <1>1, <1>2 DEF AskApproval, Approvals
  <2>6. TypeOK'
    BY <1>1, <2>4, <2>3, <2>5 DEF TypeOK
  <2>7. s \in {run[r].state, "waiting"}
    BY DEF s
  <2>8. ThreadsAwaited' /\ AtRest'
    BY <1>1, <2>3, <2>4, <2>5, <2>7
       DEF Shown, AtRest, ThreadsAwaited, Sending, Executing, MidStep
  <2>9. run[r].digest # Nothing /\ ~run[r].refilled => f = run[r].digest
    BY <1>1, <2>5 DEF Shows, f
  <2>10. Shows(r)'
    BY <1>1, <2>3, <2>4, <2>5, <2>9 DEF Shows, Filling
  <2>11. ASSUME NEW q \in Runs \ {r} PROVE Shows(q)'
    BY <2>4, <2>5 DEF Shown, Shows, Filling, Executing
  <2> QED
    BY <2>6, <2>8, <2>10, <2>11 DEF Shown
<1>3. CASE Approved(r)
  <2>1. Puts(r, run[r].state, "submit", run[r].inputs)
    BY <1>1, <1>3, Rows, RunTyped DEF Approved, Ats
  <2>2. run[r].state \notin {"failed", "waiting"}
    BY <1>1 DEF Executing
  <2>3. UNCHANGED <<app, approval, ledger, thread, sent, denied>>
    BY <1>3 DEF Approved
  <2>4. Steady(r, run[r].state, "submit", run[r].inputs, thread[r])
    BY <1>1, <2>2, <2>3 DEF Steady, Shows
  <2>5. run[r].state \in RunStates /\ "submit" \in Ats /\ run[r].inputs \in Inputs
    BY <1>1, RunTyped DEF Ats
  <2> QED
    BY <1>1, <2>1, <2>3, <2>4, <2>5, RowShows
<1>4. CASE NotApproved(r)
  <2>1. app' \in [Apps -> AppRow] /\ \A b \in Apps : app'[b].form = app[b].form
    <3>1. CASE Status(a) = "awaiting_review"
      <4>1. "preparing" \in ApplicationStatus /\ Move(a, app[a], "preparing")
        BY <1>4, <3>1 DEF ApplicationStatus, NotApproved
      <4>2. app' \in [Apps -> AppRow] /\ app'[a].form = app[a].form /\ \A b \in Apps \ {a} : app'[b] = app[b]
        BY <1>1, <4>1, Moves
      <4> QED
        BY <4>2
    <3>2. CASE Status(a) # "awaiting_review"
      BY <1>1, <1>4, <3>2 DEF NotApproved
    <3> QED
      BY <3>1, <3>2
  <2>2. Ends(r) /\ UNCHANGED <<approval, ledger, thread, sent, denied>>
    BY <1>4 DEF NotApproved
  <2> QED
    BY <1>1, <2>1, <2>2, EndsShows
<1> QED
  BY <1>2, <1>3, <1>4

LEMMA SubmitShows ==
  ASSUME Shown, NEW r \in Runs, \/ Doubt(r) \/ SkipSubmit(r)
                              \/ SubmitBegin(r) \/ SubmitCall(r)
  PROVE  Shown'
<1> DEFINE a == run[r].app
<1>1. /\ TypeOK /\ Executing(r) /\ a \in Apps /\ app[a] \in AppRow /\ app \in [Apps -> AppRow]
      /\ run[r].at \in {"submit", "entering"} /\ Shows(r)
      /\ thread[r] \notin {"open", "changed", "sent"}
  BY NotWaitedFor DEF Doubt, SkipSubmit, SubmitBegin, SubmitCall
<1>2. CASE Doubt(r)
  <2> DEFINE new == [app[a] EXCEPT !.evidence = "none"]
  <2>1. /\ new \in AppRow /\ new.form = app[a].form /\ "submission_uncertain" \in ApplicationStatus
        /\ Move(a, new, "submission_uncertain")
    BY <1>1, <1>2 DEF AppRow, ApplicationStatus, Doubt
  <2> HIDE DEF new
  <2>2. app' \in [Apps -> AppRow] /\ app'[a].form = app[a].form /\ \A b \in Apps \ {a} : app'[b] = app[b]
    BY <1>1, <2>1, Moves
  <2>3. \A b \in Apps : app'[b].form = app[b].form
    BY <2>2
  <2> QED
    BY <1>1, <1>2, <2>2, <2>3, EndsShows DEF Doubt
<1>3. CASE SkipSubmit(r)
  BY <1>1, <1>3, EndsShows DEF SkipSubmit
<1>4. CASE SubmitBegin(r)
  <2>1. Puts(r, run[r].state, "entering", InputsOf(a)) /\ run[r].at = "submit"
    BY <1>1, <1>4, Rows, RunTyped DEF SubmitBegin, Ats
  <2>2. app' = [app EXCEPT ![a] = [app[a] EXCEPT !.status = "submitting"]]
    BY <1>4 DEF SubmitBegin
  <2>3. /\ [app[a] EXCEPT !.status = "submitting"] \in AppRow
        /\ [app[a] EXCEPT !.status = "submitting"].form = app[a].form
    BY <1>1 DEF AppRow, ApplicationStatus
  <2>4. app' \in [Apps -> AppRow] /\ \A b \in Apps : app'[b].form = app[b].form
    BY <1>1, <2>2, <2>3
  <2>5. UNCHANGED <<approval, ledger, thread, sent, denied>>
    BY <1>4 DEF SubmitBegin
  <2>6. run[r].state \notin {"failed", "waiting"} /\ InputsOf(a) # Nothing
    BY <1>1, ApplicationAssumption DEF InputsOf, AppRow, Executing
  <2>7. Steady(r, run[r].state, "entering", InputsOf(a), thread[r])
    BY <1>1, <2>1, <2>5, <2>6 DEF Steady, Shows
  <2>8. run[r].state \in RunStates /\ "entering" \in Ats /\ InputsOf(a) \in Inputs
    BY <1>1, RunTyped DEF Ats
  <2> QED
    BY <1>1, <2>1, <2>4, <2>5, <2>7, <2>8, RowShows
<1>5. CASE SubmitCall(r)
  <2>1. PICK i \in Inputs, t \in {thread[r], "open", "changed"} :
          /\ run' = [run EXCEPT ![r].at = "sending", ![r].inputs = i]
          /\ thread' = [thread EXCEPT ![r] = t]
          /\ t = "open" => i = run[r].digest
    <3>1. Plannable(r) \subseteq Inputs
      BY <1>1, RunTyped DEF Plannable
    <3>2. thread[r] # "open"
      BY <1>1
    <3> QED
      BY <1>5, <3>1, <3>2 DEF SubmitCall, SamePlan
  <2>2. /\ run[r].state \in RunStates /\ "sending" \in Ats /\ t \in Threads
        /\ run[r].at = "entering"
    BY <1>1, <1>5, RunTyped DEF Ats, Threads, TypeOK, SubmitCall
  <2>3. Puts(r, run[r].state, "sending", i)
    BY <1>1, <2>1, <2>2, Rows
  <2>4. ledger' \in [Runs -> Ledger]
    <3>1. ledger' = [ledger EXCEPT ![r] = Entered(ledger[r])] /\ ledger \in [Runs -> Ledger]
      BY <1>1, <1>5 DEF SubmitCall, TypeOK
    <3>2. Entered(ledger[r]) \in Ledger
      BY <3>1 DEF Entered, Ledger, Outcomes
    <3> QED
      BY <3>1, <3>2
  <2>5. UNCHANGED <<app, approval, sent, denied>>
    BY <1>5 DEF SubmitCall
  <2>6. Tidy(r)
    BY <1>1, <2>4, <2>5 DEF Tidy, TypeOK
  <2>7. run[r].state \in {"live", "cancelling"} /\ run[r].state \notin {"failed", "waiting"}
    BY <1>1 DEF Executing
  <2>8. Steady(r, run[r].state, "sending", i, t)
    BY <1>1, <2>1, <2>2, <2>5, <2>7 DEF Steady, Shows, Works
  <2> QED
    BY <2>1, <2>2, <2>3, <2>6, <2>8, PutShows
<1> QED
  BY <1>2, <1>3, <1>4, <1>5

LEMMA CallShows ==
  ASSUME Shown, NEW r \in Runs,
         CallRaises(r) \/ \E out \in Outcomes : CallReturns(r, out)
  PROVE  Shown'
<1>1. /\ TypeOK /\ Executing(r) /\ run[r].at = "sending" /\ Shows(r)
      /\ thread' = [thread EXCEPT ![r] = "none"] /\ "none" \in Threads
      /\ UNCHANGED <<app, approval, sent, denied>>
      /\ run[r].state \in RunStates /\ run[r].at \in Ats /\ run[r].inputs \in Inputs
      /\ run[r].state \notin {"failed", "waiting"}
  BY NotWaitedFor, RunTyped DEF CallRaises, CallReturns, Threads, Executing
<1>2. PICK l \in Ledger : ledger' = [ledger EXCEPT ![r] = l]
  BY DEF CallRaises, CallReturns, Ledger
<1>3. Tidy(r)
  BY <1>1, <1>2 DEF Tidy, TypeOK
<1>4. CASE CallRaises(r)
  <2>1. PICK s \in {run[r].state, "failed"} : Puts(r, s, "submit", Nothing)
    BY <1>1, <1>4, Rows, RunTyped DEF CallRaises, Ats
  <2>2. s \in RunStates /\ "submit" \in Ats /\ Nothing \in Inputs
    BY <1>1, RunTyped DEF Ats
  <2>3. Steady(r, s, "submit", Nothing, "none")
    BY <1>1 DEF Steady, Shows, MidStep
  <2> QED
    BY <1>1, <1>3, <2>1, <2>2, <2>3, PutShows
<1>5. ASSUME NEW out \in Outcomes, CallReturns(r, out) PROVE Shown'
  <2>1. run' = [run EXCEPT ![r].state = run[r].state]
    BY <1>1, <1>5 DEF CallReturns, TypeOK, RunRow
  <2>2. Puts(r, run[r].state, run[r].at, run[r].inputs)
    BY <1>1, <2>1, Rows
  <2>3. Steady(r, run[r].state, run[r].at, run[r].inputs, "none")
    BY <1>1 DEF Steady, Shows
  <2> QED
    BY <1>1, <1>3, <2>2, <2>3, PutShows
<1> QED
  BY <1>4, <1>5

LEMMA SubmitEndShows ==
  ASSUME Shown, NEW r \in Runs, SubmitEnd(r)
  PROVE  Shown'
<1> DEFINE a == run[r].app
           to == Outcome(ledger[r])
           new == IF to = "failed" THEN app[a]
                  ELSE [app[a] EXCEPT
                     !.submitted = @ \/ to = "submitted",
                     !.evidence = IF to = "submitted" THEN "observed" ELSE "none"]
<1>1. /\ TypeOK /\ a \in Apps /\ app[a] \in AppRow /\ thread[r] \notin {"open", "changed", "sent"}
      /\ Ends(r) /\ UNCHANGED <<approval, ledger, thread, sent, denied>>
      /\ Move(a, new, to)
  BY NotWaitedFor DEF SubmitEnd
<1>2. to \in ApplicationStatus
  BY DEF Outcome, ApplicationStatus
<1>3. new \in AppRow /\ new.form = app[a].form
  BY <1>1 DEF AppRow
<1> HIDE DEF new, to
<1>4. app' \in [Apps -> AppRow] /\ app'[a].form = app[a].form /\ \A b \in Apps \ {a} : app'[b] = app[b]
  BY <1>1, <1>2, <1>3, Moves
<1>5. \A b \in Apps : app'[b].form = app[b].form
  BY <1>4
<1> QED
  BY <1>1, <1>4, <1>5, EndsShows

LEMMA AssistShows ==
  ASSUME Shown, NEW r \in Runs, AssistBegin(r) \/ AssistConfirmed(r) \/ AssistEnded(r)
  PROVE  Shown'
<1> DEFINE a == run[r].app
<1>1. /\ TypeOK /\ Executing(r) /\ a \in Apps /\ app[a] \in AppRow /\ app \in [Apps -> AppRow]
      /\ run[r].at \in {"assist", "watching"} /\ Shows(r)
      /\ thread[r] \notin {"open", "changed", "sent"}
      /\ UNCHANGED <<approval, ledger, thread, sent, denied>>
  BY NotWaitedFor DEF AssistBegin, AssistConfirmed, AssistEnded
<1>2. CASE AssistBegin(r) /\ Status(a) \in AssistFrom
  <2>1. Puts(r, run[r].state, "watching", run[r].inputs)
    BY <1>1, <1>2, Rows, RunTyped DEF AssistBegin, Ats
  <2>2. run[r].state \notin {"failed", "waiting"} /\ UNCHANGED app
    BY <1>1, <1>2 DEF Executing, AssistBegin
  <2>3. Steady(r, run[r].state, "watching", run[r].inputs, thread[r])
    BY <1>1, <2>2 DEF Steady
  <2>4. run[r].state \in RunStates /\ "watching" \in Ats /\ run[r].inputs \in Inputs
    BY <1>1, RunTyped DEF Ats
  <2> QED
    BY <1>1, <2>1, <2>2, <2>3, <2>4, RowShows
<1>3. CASE AssistBegin(r) /\ Status(a) \notin AssistFrom
  BY <1>1, <1>3, EndsShows DEF AssistBegin
<1>4. CASE AssistConfirmed(r)
  <2> DEFINE new == [app[a] EXCEPT !.submitted = TRUE, !.evidence = "observed", !.blocker = "none"]
  <2>1. new \in AppRow /\ new.form = app[a].form /\ "submitted" \in ApplicationStatus
        /\ Move(a, new, "submitted")
    BY <1>1, <1>4 DEF AppRow, ApplicationStatus, AssistConfirmed
  <2> HIDE DEF new
  <2>2. app' \in [Apps -> AppRow] /\ app'[a].form = app[a].form /\ \A b \in Apps \ {a} : app'[b] = app[b]
    BY <1>1, <2>1, Moves
  <2>3. \A b \in Apps : app'[b].form = app[b].form
    BY <2>2
  <2> QED
    BY <1>1, <1>4, <2>2, <2>3, EndsShows DEF AssistConfirmed
<1>5. CASE AssistEnded(r)
  BY <1>1, <1>5, EndsShows DEF AssistEnded
<1> QED
  BY <1>2, <1>3, <1>4, <1>5

LEMMA SiteShows ==
  ASSUME Shown, NEW r \in Runs, Site(r)
  PROVE  Shown'
<1>1. TypeOK /\ run[r].app \in Apps
  BY NotWaitedFor
<1>2. UNCHANGED <<app, run, approval, ledger, denied>>
  BY DEF Site, Click, StrayEnds
<1>3. sent' \in [Apps -> 0..MaxSent]
  <2>1. sent[run[r].app] \in 0..MaxSent /\ MaxSent \in Nat /\ sent \in [Apps -> 0..MaxSent]
    BY <1>1, ApplicationAssumption DEF TypeOK
  <2>2. CASE Click(r)
    <3>1. sent[run[r].app] + 1 \in 0..MaxSent
      BY <2>1, <2>2 DEF Click
    <3> QED
      BY <1>1, <2>1, <2>2, <3>1 DEF Click, TypeOK
  <2>3. CASE StrayEnds(r)
    BY <1>1, <2>3 DEF StrayEnds, TypeOK
  <2> QED
    BY <2>2, <2>3 DEF Site
<1>4. /\ thread' \in [Runs -> Threads]
      /\ \A q \in Runs : \/ thread'[q] = thread[q]
                         \/ thread'[q] = "sent" /\ thread[q] = "open"
                         \/ thread'[q] = "none"
  BY <1>1 DEF Site, Click, StrayEnds, TypeOK, Threads
<1>5. TypeOK'
  BY <1>1, <1>2, <1>3, <1>4 DEF TypeOK
<1>6. AtRest' /\ ThreadsAwaited'
  BY <1>2, <1>4 DEF Shown, AtRest, ThreadsAwaited, Sending, Executing
<1>7. \A q \in Runs : Shows(q)'
  BY <1>2, <1>4 DEF Shown, Shows, Filling, Executing
<1> QED
  BY <1>5, <1>6, <1>7 DEF Shown

LEMMA RuntimeShows ==
  ASSUME Shown, NEW r \in Runs, RuntimeStep(r)
  PROVE  Shown'
<1>1. /\ TypeOK /\ UNCHANGED <<app, approval, ledger, sent, denied>> /\ Shows(r)
      /\ run[r].at \in Ats /\ FirstOf(run[r].at) \in Ats \ MidStep /\ Nothing \in Inputs
      /\ FirstOf(run[r].at) \in {"approve", "submit", "entering", "sending"} =>
           run[r].at \in {"approve", "submit", "entering", "sending"}
  BY NotWaitedFor, RunTyped DEF RuntimeStep, Interrupted, Stopped, FirstOf, Ats, MidStep
<1>2. PICK t \in {"none", Left(thread[r])} : thread' = [thread EXCEPT ![r] = t]
  BY DEF RuntimeStep, Interrupted, Stopped
<1>3. t \in Threads \ {"open", "changed", "sent"}
  BY DEF Left, Threads
<1>4. Tidy(r)
  BY <1>1 DEF Tidy, TypeOK
<1>5. CASE Interrupted(r)
  <2>1. PICK s \in {"live", "failed"} :
          run' = [run EXCEPT ![r].state = s, ![r].at = FirstOf(run[r].at), ![r].inputs = Nothing]
    BY <1>1, <1>5 DEF Interrupted, TypeOK, RunRow
  <2>2. Puts(r, s, FirstOf(run[r].at), Nothing) /\ s \in RunStates
    BY <1>1, <2>1, Rows, RunTyped
  <2>3. Steady(r, s, FirstOf(run[r].at), Nothing, t)
    BY <1>1, <1>3 DEF Steady, Shows, MidStep
  <2> QED
    BY <1>1, <1>2, <1>3, <1>4, <2>2, <2>3, PutShows
<1>6. CASE Stopped(r)
  <2>1. Puts(r, "cancelled", run[r].at, Nothing) /\ "cancelled" \in RunStates
    BY <1>1, <1>6, Rows, RunTyped DEF Stopped
  <2>2. Steady(r, "cancelled", run[r].at, Nothing, t)
    BY <1>1, <1>3 DEF Steady, Shows, Works
  <2> QED
    BY <1>1, <1>2, <1>3, <1>4, <2>1, <2>2, PutShows
<1> QED
  BY <1>5, <1>6 DEF RuntimeStep

LEMMA UserWritesShows ==
  ASSUME Shown, NEW a \in Apps, UserOnApplication(a)
  PROVE  Shown'
<1>1. /\ TypeOK /\ \A r \in Runs : run[r].app \in Apps
      /\ UNCHANGED <<run, approval, ledger, thread, sent>>
  BY NotWaitedFor DEF Shown, UserOnApplication, CreateApplication, UpdateApplication, RecordAnswer,
     ChangeStatus, ResolveUncertain
<1>2. TypeOK' /\ \A b \in Apps : app'[b].form = app[b].form
  BY <1>1, UserTypes, UserKeepsForms
<1>3. AtRest' /\ ThreadsAwaited'
  BY <1>1 DEF Shown, AtRest, ThreadsAwaited, Sending, Executing
<1>4. \A r \in Runs : Shows(r)'
  BY <1>1, <1>2 DEF Shown, Shows, Filling, Executing
<1> QED
  BY <1>2, <1>3, <1>4 DEF Shown

LEMMA ControlShows ==
  ASSUME Shown, NEW r \in Runs,
         \/ Decide(r, "approved") \/ Decide(r, "rejected")
         \/ CancelRun(r) \/ RetryRun(r)
         \/ \E step \in Reruns : RerunRun(r, step)
  PROVE  Shown'
<1>1. /\ TypeOK /\ UNCHANGED <<app, ledger, thread, sent, denied>> /\ Shows(r)
      /\ run[r].at \in Ats /\ run[r].inputs \in Inputs /\ approval \in [Runs -> Approvals]
      /\ {"live", "cancelled", "cancelling"} \subseteq RunStates
      /\ thread[r] \in {"open", "changed", "sent"} => Works(run[r].state) /\ run[r].at = "sending"
      /\ thread[r] \in Threads /\ thread' = [thread EXCEPT ![r] = thread[r]]
      /\ run[r].state = "failed" => run[r].at \notin MidStep
      /\ run[r].state = "waiting" => run[r].at = "approve"
  BY RunTyped DEF Decide, CancelRun, RetryRun, RerunRun, Shown, TypeOK, RunStates,
     ThreadsAwaited, AtRest, Sending, Executing, Works
<1>2. ASSUME approval' \in [Runs -> Approvals], \A q \in Runs \ {r} : approval'[q] = approval[q]
      PROVE  Tidy(r)
  BY <1>1, <1>2 DEF Tidy, TypeOK
<1>3. CASE Decide(r, "approved") \/ Decide(r, "rejected")
  <2>1. Puts(r, "live", run[r].at, run[r].inputs)
    BY <1>1, <1>3, Rows DEF Decide
  <2>2. /\ run[r].state = "waiting" /\ approval' \in [Runs -> Approvals]
        /\ \A q \in Runs \ {r} : approval'[q] = approval[q]
        /\ approval[r] = "pending" /\ approval'[r] \in {"approved", "rejected"}
    BY <1>1, <1>3 DEF Decide, Approvals
  <2>3. Steady(r, "live", run[r].at, run[r].inputs, thread[r])
    BY <1>1, <2>2 DEF Steady, Works, Shows
  <2> QED
    BY <1>1, <1>2, <2>1, <2>2, <2>3, PutShows
<1>4. ASSUME NEW s \in {"cancelled", "cancelling"}, NEW ap \in {"pending", "cancelled"},
             Cancelled(s, ap, {r}), run[r].state \in {"live", "waiting"},
             Works(s) => run[r].state = "live", ~Works(s) => run[r].at \notin MidStep
      PROVE  Shown'
  <2>1. run' = [run EXCEPT ![r].state = s]
    BY <1>1, <1>4 DEF Cancelled, TypeOK
  <2>2. Puts(r, s, run[r].at, run[r].inputs)
    BY <1>1, <2>1, Rows
  <2>3. /\ approval' \in [Runs -> Approvals]
        /\ \A q \in Runs \ {r} : approval'[q] = approval[q]
        /\ approval'[r] = approval[r] \/ (approval[r] = "pending" /\ approval'[r] = ap)
    BY <1>1, <1>4 DEF Cancelled, Approvals
  <2>4. Steady(r, s, run[r].at, run[r].inputs, thread[r])
    BY <1>1, <1>4, <2>3 DEF Steady, Works, Shows, Filling, Executing, MidStep
  <2> QED
    BY <1>1, <1>2, <2>2, <2>3, <2>4, PutShows
<1>5. CASE CancelRun(r)
  BY <1>4, <1>5 DEF CancelRun, Works, MidStep
<1>6. CASE RetryRun(r)
  <2>1. Puts(r, "live", run[r].at, run[r].inputs) /\ UNCHANGED approval
    BY <1>1, <1>6, Rows DEF RetryRun
  <2>2. run[r].state = "failed"
    BY <1>6 DEF RetryRun
  <2>3. Steady(r, "live", run[r].at, run[r].inputs, thread[r])
    BY <1>1, <2>1, <2>2 DEF Steady, Works, MidStep, Shows
  <2> QED
    BY <1>1, <1>2, <2>1, <2>3, PutShows
<1>7. ASSUME NEW step \in Reruns, RerunRun(r, step) PROVE Shown'
  <2>1. step \in Ats /\ step \notin MidStep /\ step \in {"fill", "approve", "submit"}
    BY ApplicationAssumption DEF Ats, MidStep
  <2>2. Puts(r, "live", step, run[r].inputs) /\ UNCHANGED approval
    BY <1>1, <1>7, <2>1, Rows DEF RerunRun
  <2>3. ~Works(run[r].state) /\ (step # "fill" => run[r].digest # Nothing)
    BY <1>7 DEF RerunRun, Works
  <2>4. Steady(r, "live", step, run[r].inputs, thread[r])
    BY <1>1, <2>1, <2>2, <2>3 DEF Steady, MidStep
  <2> QED
    BY <1>1, <1>2, <2>1, <2>2, <2>4, PutShows
<1> QED
  BY <1>3, <1>5, <1>6, <1>7

LEMMA NewRunShows ==
  ASSUME Shown, NEW r \in Runs, NEW a \in Apps, NEW kind \in {"apply", "assist"},
         NEW auto \in BOOLEAN, NewRun(r, a, kind, auto), app' \in [Apps -> AppRow],
         \A b \in Apps : app'[b].form = app[b].form,
         UNCHANGED <<thread, sent, denied>>
  PROVE  Shown'
<1> DEFINE new == [kind |-> kind, auto |-> auto, app |-> a, state |-> "live",
                   at |-> IF kind = "apply" THEN "fill" ELSE "assist",
                   inputs |-> Nothing, digest |-> Nothing, shown |-> Nothing,
                   refilled |-> FALSE]
<1>1. TypeOK /\ thread[r] = "none" /\ \A q \in Runs : run[q].app \in Apps
  BY NotWaitedFor DEF Shown, NewRun, Free
<1>2. /\ new \in RunRow /\ new.state = "live" /\ new.digest = Nothing
      /\ new.at \in {"fill", "assist"} /\ new.at \notin MidStep
      /\ run' = [run EXCEPT ![r] = new]
  BY DEF NewRun, RunRow, RunStates, MidStep
<1> HIDE DEF new
<1>3. /\ run' \in [Runs -> RunRow] /\ run'[r] = new /\ \A q \in Runs \ {r} : run'[q] = run[q]
  BY <1>1, <1>2 DEF TypeOK
<1>4. /\ approval' \in [Runs -> Approvals] /\ ledger' \in [Runs -> Ledger]
      /\ \A q \in Runs \ {r} : approval'[q] = approval[q]
  BY <1>1 DEF NewRun, TypeOK, Approvals, Ledger
<1>5. TypeOK'
  BY <1>1, <1>3, <1>4 DEF TypeOK
<1>6. AtRest' /\ ThreadsAwaited'
  BY <1>1, <1>2, <1>3 DEF Shown, AtRest, ThreadsAwaited, Sending, Executing
<1>7. Shows(r)'
  BY <1>1, <1>2, <1>3 DEF Shows, Filling
<1>8. ASSUME NEW q \in Runs \ {r} PROVE Shows(q)'
  BY <1>1, <1>3, <1>4 DEF Shown, Shows, Filling, Executing
<1> QED
  BY <1>5, <1>6, <1>7, <1>8 DEF Shown

LEMMA ShownStarts == Init => Shown
BY TypeStarts DEF Init, Shown, ThreadsAwaited, AtRest, Shows, Filling, Executing, MidStep

LEMMA StepShows ==
  ASSUME Shown, NEW r \in Runs, Step(r)
  PROVE  Shown'
BY FillShows, FilledShows, ApprovalShows, SubmitShows, CallShows, SubmitEndShows, AssistShows
   DEF Step

LEMMA ShownStays == Shown /\ [Next]_vars => Shown'
<1> SUFFICES ASSUME Shown, [Next]_vars PROVE Shown'
  OBVIOUS
<1>1. ASSUME NEW r \in Runs, Step(r) PROVE Shown'
  BY <1>1, StepShows
<1>2. ASSUME NEW r \in Runs, Site(r) \/ RuntimeStep(r) PROVE Shown'
  BY <1>2, SiteShows, RuntimeShows
<1>3. ASSUME NEW r \in Runs, UserOnRun(r) PROVE Shown'
  <2>1. ASSUME NEW a \in Apps, StartBrowser(r, a, FALSE) \/ StartAssist(r, a) PROVE Shown'
    <3>1. PICK kind \in {"apply", "assist"} : NewRun(r, a, kind, FALSE)
      BY <2>1 DEF StartBrowser, StartAssist
    <3>2. UNCHANGED <<app, thread, sent, denied>> /\ app \in [Apps -> AppRow]
      BY <2>1, NotWaitedFor DEF StartBrowser, StartAssist
    <3> QED
      BY <3>1, <3>2, NewRunShows
  <2> QED
    BY <1>3, <2>1, ControlShows DEF UserOnRun
<1>4. ASSUME NEW a \in Apps, UserOnApplication(a) PROVE Shown'
  BY <1>4, UserWritesShows
<1>5. CASE UNCHANGED vars
  BY <1>5 DEF vars, Shown, TypeOK, ThreadsAwaited, AtRest, Shows, Filling, Sending, Executing
<1> QED
  BY <1>1, <1>2, <1>3, <1>4, <1>5 DEF Next

\* The rows of the applications and of their browser runs are what their columns admit,
\* however runs overlap.
THEOREM ApplicationTypes == Spec => []TypeOK
<1>1. Shown => TypeOK
  BY DEF Shown
<1> QED
  BY <1>1, ShownStarts, ShownStays, PTL DEF Spec

\* The form that the user approved is the form that is sent (browser_apply.py, submit:
\* the digest of the plan is compared again before the button), for any number of
\* applications and runs and however they overlap, unless the form was filled in again
\* before the request was made or under it.
THEOREM ApprovedIsSent == Spec => []SendsWhatWasApproved
<1>1. Shown => SendsWhatWasApproved
  <2> SUFFICES ASSUME Shown, NEW r \in Runs, thread[r] = "sent", approval[r] = "approved",
                      ~run[r].refilled
               PROVE  run[r].inputs = run[r].shown
    BY DEF SendsWhatWasApproved, Shown, TypeOK, RunRow
  <2>1. run[r].inputs = run[r].digest
    BY DEF Shown, Shows
  <2> QED
    BY <2>1 DEF Shown, Shows, ThreadsAwaited, Sending
<1> QED
  BY <1>1, ShownStarts, ShownStays, PTL DEF Spec

-----------------------------------------------------------------------------
(* One submission *)

LEMMA DeliveryStarts == Init => Delivery
<1> SUFFICES ASSUME Init PROVE Delivery
  OBVIOUS
<1>1. \A r \in Runs : thread[r] = "none" /\ run[r].state = "absent" /\ run[r].at = "fill"
  BY DEF Init
<1>2. Alone /\ AtRest /\ ThreadsAwaited
  BY <1>1 DEF Alone, AtRest, ThreadsAwaited, Busy, Ended, MidStep
<1>3. \A a \in Apps : Unsent(a)
  BY <1>1 DEF Init, Unsent, RunsOf, MayPress
<1>4. ASSUME NEW a \in Apps PROVE Delivered(a)
  BY <1>1, <1>3 DEF Delivered, SentRecorded, PressRecorded, SendingRecorded, FillingUnsent, RunsOf,
     Filling, Sending, Submitting, Executing, MayPress, Unsent
<1> QED
  BY <1>2, <1>4, TypeStarts DEF Delivery

LEMMA StepDelivers ==
  ASSUME Delivery, NEW r \in Runs, Step(r)
  PROVE  Delivery'
BY FillBeginDelivers, FilledDelivers, NotFilledDelivers, ApprovalDelivers, SkipDelivers,
   SubmitBeginDelivers, SubmitCallDelivers, CallDelivers, SubmitEndDelivers, AssistDelivers DEF Step

\* A step that writes none of these variables
LEMMA RestDelivers ==
  ASSUME Delivery, UNCHANGED vars
  PROVE  Delivery'
<1>1. TypeOK' /\ Alone' /\ AtRest' /\ ThreadsAwaited'
  BY DEF vars, Delivery, TypeOK, Alone, AtRest, ThreadsAwaited, Busy, Sending, Executing
<1> QED
  BY <1>1, Quiet DEF vars, MayPress, Filling, Sending, Submitting, Executing, Refusing, Status

LEMMA DeliveryStays == ~Overlapping /\ Delivery /\ [Next]_vars => Delivery'
<1> SUFFICES ASSUME ~Overlapping, Delivery, [Next]_vars PROVE Delivery'
  OBVIOUS
<1>1. ASSUME NEW r \in Runs, Step(r) PROVE Delivery'
  BY <1>1, StepDelivers
<1>2. ASSUME NEW r \in Runs, Site(r) \/ RuntimeStep(r) PROVE Delivery'
  BY <1>2, SiteDelivers, RuntimeDelivers
<1>3. ASSUME NEW r \in Runs, UserOnRun(r) PROVE Delivery'
  <2>1. ASSUME NEW a \in Apps, StartBrowser(r, a, FALSE) \/ StartAssist(r, a) PROVE Delivery'
    <3>1. PICK kind \in {"apply", "assist"} : NewRun(r, a, kind, FALSE)
      BY <2>1 DEF StartBrowser, StartAssist
    <3>2. UNCHANGED <<app, thread, sent, denied>> /\ app \in [Apps -> AppRow]
      BY <2>1 DEF StartBrowser, StartAssist, Delivery, TypeOK
    <3>3. app' \in [Apps -> AppRow] /\ \A b \in Apps : Status(b) \in Out => app'[b].status \in Out
      BY <3>2 DEF Status
    <3> QED
      BY <3>1, <3>2, <3>3, NewRunDelivers
  <2> QED
    BY <1>3, <2>1, ControlDelivers DEF UserOnRun
<1>4. ASSUME NEW a \in Apps, UserOnApplication(a) PROVE Delivery'
  BY <1>4, UserWritesDelivers
<1>5. CASE UNCHANGED vars
  BY <1>5, RestDelivers
<1> QED
  BY <1>1, <1>2, <1>3, <1>4, <1>5 DEF Next

LEMMA DeliveryPromises == Delivery => SubmittedOnce /\ NothingSentIsForgotten
BY DEF Delivery, Delivered, SentRecorded, SubmittedOnce, NothingSentIsForgotten, TypeOK

\* The employer receives a form once (browser_apply.py, submit): the
\* application leaves the statuses of a submission only when nothing was pressed, and the
\* thread of a run that is gone presses for a run that is recorded.  Runs of one
\* application that overlap break it; nothing in the code keeps them apart.
THEOREM FormSentOnce == ~Overlapping => (Spec => []SubmittedOnce)
<1> SUFFICES ASSUME ~Overlapping PROVE Spec => []SubmittedOnce
  OBVIOUS
<1>1. Delivery /\ [Next]_vars => Delivery'
  BY DeliveryStays
<1> QED
  BY <1>1, DeliveryStarts, DeliveryPromises, PTL DEF Spec

\* What was sent stays recorded as sent or in doubt, from where no browser run starts.
THEOREM SentStaysRecorded == ~Overlapping => (Spec => []NothingSentIsForgotten)
<1> SUFFICES ASSUME ~Overlapping PROVE Spec => []NothingSentIsForgotten
  OBVIOUS
<1>1. Delivery /\ [Next]_vars => Delivery'
  BY DeliveryStays
<1> QED
  BY <1>1, DeliveryStarts, DeliveryPromises, PTL DEF Spec

-----------------------------------------------------------------------------
(* A run that is told to stop *)

\* It stops, or goes on being told so, whatever its step does meanwhile
CancelHolds(r) == run[r].state = "cancelling" => run'[r].state \in Ended \cup {"cancelling"}

LEMMA PutCancelHolds ==
  ASSUME TypeOK, NEW q \in Runs, NEW s \in RunStates, NEW at \in Ats, NEW i \in Inputs,
         Puts(q, s, at, i), run[q].state = "cancelling" => s \in Ended \cup {"cancelling"}
  PROVE  \A r \in Runs : CancelHolds(r)
<1>1. run'[q].state = s /\ \A r \in Runs \ {q} : run'[r] = run[r]
  BY PutsIt
<1> QED
  BY <1>1 DEF CancelHolds

LEMMA EndsCancelHolds ==
  ASSUME TypeOK, NEW q \in Runs, Ends(q)
  PROVE  \A r \in Runs : CancelHolds(r)
<1>1. Puts(q, Finish(q), run[q].at, Nothing)
  BY Rows, RunTyped
<1>2. Finish(q) \in Ended
  BY DEF Finish, Ended
<1> QED
  BY <1>1, <1>2, PutCancelHolds, RunTyped

LEMMA StepCancelHolds ==
  ASSUME TypeOK, NEW q \in Runs, Step(q)
  PROVE  \A r \in Runs : CancelHolds(r)
<1> USE RunTyped
<1>1. CASE \/ \E why \in {"blocked", "missing", "documents", "error"} : NotFilled(q, why)
           \/ NotApproved(q) \/ Doubt(q) \/ SkipSubmit(q) \/ SubmitEnd(q)
           \/ AssistConfirmed(q) \/ AssistEnded(q)
  BY <1>1, EndsCancelHolds
     DEF NotFilled, NotApproved, Doubt, SkipSubmit, SubmitEnd, AssistConfirmed, AssistEnded
<1>2. CASE FillBegin(q)
  <2>1. Ends(q) \/ Puts(q, run[q].state, "filling", InputsOf(run[q].app))
    BY <1>2, Rows DEF FillBegin, Ats
  <2>2. "filling" \in Ats
    BY DEF Ats
  <2> QED
    BY <2>1, <2>2, EndsCancelHolds, PutCancelHolds
<1>3. CASE Filled(q)
  <2>1. PICK v \in Inputs :
          run' = [r \in Runs |->
            IF r = q
              THEN [run[q] EXCEPT !.at = "approve", !.digest = v, !.inputs = Nothing,
                                  !.refilled = approval[q] # "none"]
              ELSE [run[r] EXCEPT !.refilled =
                      @ \/ (run[r].app = run[q].app /\ approval[r] = "none")]]
    BY <1>3, PlannedTyped DEF Filled
  <2> QED
    BY <2>1, FilledRows DEF CancelHolds
<1>4. CASE AskApproval(q)
  <2> DEFINE f == IF approval[q] = "none" THEN app[run[q].app].form ELSE run[q].shown
             s == IF run[q].state = "live" THEN "waiting" ELSE run[q].state
             new == [run[q] EXCEPT !.shown = f, !.state = s]
  <2>1. run[q] \in RunRow /\ run \in [Runs -> RunRow]
    BY DEF TypeOK
  <2>2. run' = [run EXCEPT ![q] = new]
    BY <1>4, <2>1 DEF AskApproval, RunRow
  <2>3. new.state = s
    BY <2>1 DEF RunRow
  <2>4. run[q].state = "cancelling" => s = "cancelling"
    OBVIOUS
  <2> HIDE DEF new, f, s
  <2>5. run'[q] = new /\ \A r \in Runs \ {q} : run'[r] = run[r]
    BY <2>1, <2>2
  <2> QED
    BY <2>3, <2>4, <2>5 DEF CancelHolds
<1>5. CASE Approved(q)
  <2>1. Puts(q, run[q].state, "submit", run[q].inputs) /\ "submit" \in Ats
    BY <1>5, Rows DEF Approved, Ats
  <2> QED
    BY <2>1, PutCancelHolds
<1>6. CASE SubmitBegin(q)
  <2>1. Puts(q, run[q].state, "entering", InputsOf(run[q].app)) /\ "entering" \in Ats
    BY <1>6, Rows DEF SubmitBegin, Ats
  <2> QED
    BY <2>1, PutCancelHolds
<1>7. CASE \E out \in Outcomes : CallReturns(q, out)
  BY <1>7 DEF CallReturns, CancelHolds
<1>8. CASE CallRaises(q)
  <2>1. PICK s \in {run[q].state, "failed"} :
          run' = [run EXCEPT ![q].at = "submit", ![q].state = s, ![q].inputs = Nothing]
    BY <1>8 DEF CallRaises
  <2>2. s \in RunStates /\ "submit" \in Ats /\ (run[q].state = "cancelling" => s \in Ended \cup {"cancelling"})
    BY <2>1 DEF Ats, Ended
  <2>3. Puts(q, s, "submit", Nothing)
    BY <2>1, <2>2, Rows
  <2> QED
    BY <2>2, <2>3, PutCancelHolds
<1>9. CASE AssistBegin(q)
  <2>1. Ends(q) \/ Puts(q, run[q].state, "watching", run[q].inputs)
    BY <1>9, Rows DEF AssistBegin, Ats
  <2>2. "watching" \in Ats
    BY DEF Ats
  <2> QED
    BY <2>1, <2>2, EndsCancelHolds, PutCancelHolds
<1>10. CASE SubmitCall(q)
  <2>1. PICK i \in Inputs : run' = [run EXCEPT ![q].at = "sending", ![q].inputs = i]
    BY <1>10, PlannedTyped DEF SubmitCall
  <2>2. Puts(q, run[q].state, "sending", i) /\ "sending" \in Ats
    BY <2>1, Rows DEF Ats
  <2> QED
    BY <2>2, PutCancelHolds
<1> QED
  BY <1>1, <1>2, <1>3, <1>4, <1>5, <1>6, <1>7, <1>8, <1>9, <1>10 DEF Step

LEMMA NewRunCancelHolds ==
  ASSUME TypeOK, NEW q \in Runs, NEW a \in Apps, NEW kind, NEW auto, NewRun(q, a, kind, auto)
  PROVE  \A r \in Runs : CancelHolds(r)
<1> DEFINE new == [kind |-> kind, auto |-> auto, app |-> a, state |-> "live",
                   at |-> IF kind = "apply" THEN "fill" ELSE "assist",
                   inputs |-> Nothing, digest |-> Nothing, shown |-> Nothing,
                   refilled |-> FALSE]
<1>1. run' = [run EXCEPT ![q] = new] /\ run[q].state \in Ended
  BY DEF NewRun, Free
<1> HIDE DEF new
<1>2. \A r \in Runs \ {q} : run'[r] = run[r]
  BY <1>1 DEF TypeOK
<1> QED
  BY <1>1, <1>2 DEF CancelHolds, Ended

LEMMA CancelStands ==
  ASSUME TypeOK, [Next]_vars
  PROVE  \A r \in Runs : CancelHolds(r)
<1>1. ASSUME NEW q \in Runs, RuntimeStep(q) PROVE \A r \in Runs : CancelHolds(r)
  <2>1. CASE Interrupted(q)
    <3>1. PICK s \in {"live", "failed"} :
            run' = [run EXCEPT ![q].state = s, ![q].at = FirstOf(@), ![q].inputs = Nothing]
      BY <2>1 DEF Interrupted
    <3>2. run[q].state = "live" /\ \A r \in Runs \ {q} : run'[r] = run[r]
      BY <2>1, <3>1 DEF TypeOK, Interrupted
    <3> QED
      BY <3>2 DEF CancelHolds
  <2>2. CASE Stopped(q)
    <3>1. Puts(q, "cancelled", run[q].at, Nothing) /\ "cancelled" \in Ended
      BY <2>2, Rows, RunTyped DEF Stopped, Ended
    <3> QED
      BY <3>1, PutCancelHolds, RunTyped
  <2> QED
    BY <1>1, <2>1, <2>2 DEF RuntimeStep
<1>2. ASSUME NEW q \in Runs, UserOnRun(q) PROVE \A r \in Runs : CancelHolds(r)
  <2>1. ASSUME NEW a \in Apps, StartBrowser(q, a, FALSE) \/ StartAssist(q, a)
        PROVE  \A r \in Runs : CancelHolds(r)
    BY <2>1, NewRunCancelHolds DEF StartBrowser, StartAssist
  <2>2. ASSUME NEW s \in {"cancelled", "cancelling"}, NEW ap, Cancelled(s, ap, {q}),
               run[q].state # "cancelling"
        PROVE  \A r \in Runs : CancelHolds(r)
    BY <2>2 DEF Cancelled, CancelHolds
  <2>3. CASE CancelRun(q)
    BY <2>2, <2>3 DEF CancelRun
  <2>4. CASE Decide(q, "approved") \/ Decide(q, "rejected") \/ RetryRun(q)
             \/ \E step \in Reruns : RerunRun(q, step)
    <3>1. run[q].state # "cancelling" /\ \A r \in Runs \ {q} : run'[r] = run[r]
      BY <2>4 DEF Decide, RetryRun, RerunRun, TypeOK
    <3> QED
      BY <3>1 DEF CancelHolds
  <2> QED
    BY <1>2, <2>1, <2>3, <2>4 DEF UserOnRun
<1>3. ASSUME UNCHANGED run PROVE \A r \in Runs : CancelHolds(r)
  BY <1>3 DEF CancelHolds
<1>4. ASSUME NEW q \in Runs, Site(q) PROVE UNCHANGED run
  BY <1>4 DEF Site, Click, StrayEnds
<1>5. ASSUME NEW a \in Apps, UserOnApplication(a) PROVE UNCHANGED run
  BY <1>5 DEF UserOnApplication, CreateApplication, UpdateApplication, RecordAnswer,
     ChangeStatus, ResolveUncertain
<1> QED
  BY <1>1, <1>2, <1>3, <1>4, <1>5, StepCancelHolds DEF Next, vars

-----------------------------------------------------------------------------
(* What is recorded as submitted *)

Sent == {"submitted", "tracking", "completed", "rejected", "withdrawn"}

\* The statuses after a submission have its time, which no step takes back
Dated     == \A a \in Apps : app[a].status \in Sent => app[a].submitted
KeepsDate == \A a \in Apps : app[a].submitted => app'[a].submitted

LEMMA MoveDated ==
  ASSUME TypeOK, Dated, NEW a \in Apps, NEW new \in AppRow, NEW t \in ApplicationStatus,
         Move(a, new, t), new.status = app[a].status, app[a].submitted => new.submitted,
         t = "submitted" => new.submitted
  PROVE  Dated' /\ KeepsDate
<1>1. /\ app'[a] = [new EXCEPT !.status = t] /\ app'[a].status = t
      /\ \A b \in Apps \ {a} : app'[b] = app[b]
      /\ CanMove(new.status, t)
  BY Moves
<1>2. app'[a].submitted = new.submitted
  BY <1>1 DEF AppRow
<1>3. t \in Sent /\ t # "submitted" => new.status \in Sent
  BY <1>1 DEF Sent, CanMove, ApplicationMoves, ActivePreSubmit
<1>4. t \in Sent => new.submitted
  BY <1>3 DEF Dated
<1> QED
  BY <1>1, <1>2, <1>4 DEF Dated, KeepsDate

LEMMA SetDated ==
  ASSUME TypeOK, Dated, NEW a \in Apps, NEW new, app' = [app EXCEPT ![a] = new],
         new.status \notin Sent \/ new.status = app[a].status, new.submitted = app[a].submitted
  PROVE  Dated' /\ KeepsDate
<1>1. app'[a] = new /\ \A b \in Apps \ {a} : app'[b] = app[b]
  BY DEF TypeOK
<1> QED
  BY <1>1 DEF Dated, KeepsDate

LEMMA StepDates ==
  ASSUME TypeOK, Dated, NEW r \in Runs, Step(r)
  PROVE  Dated' /\ KeepsDate
<1> DEFINE a == run[r].app
<1>1. a \in Apps /\ app[a] \in AppRow /\ run[r].inputs \in Inputs
  BY RunTyped
<1>2. CASE UNCHANGED app
  BY <1>2 DEF Dated, KeepsDate
<1>3. CASE FillBegin(r) /\ Status(a) \in BrowserStart
  <2>1. app' = [app EXCEPT ![a] = [app[a] EXCEPT !.status = "preparing"]]
    BY <1>1, <1>3 DEF FillBegin, TypeOK, AppRow
  <2>2. /\ [app[a] EXCEPT !.status = "preparing"].status = "preparing"
        /\ [app[a] EXCEPT !.status = "preparing"].submitted = app[a].submitted
    BY <1>1 DEF AppRow
  <2>3. "preparing" \notin Sent
    BY DEF Sent
  <2> QED
    BY <1>1, <2>1, <2>2, <2>3, SetDated
<1>4. CASE Filled(r)
  <2>1. PICK v \in Inputs :
          Move(a, [app[a] EXCEPT !.form = v, !.blocker = "none"], "awaiting_review")
    BY <1>4, PlannedTyped DEF Filled
  <2> DEFINE new == [app[a] EXCEPT !.form = v, !.blocker = "none"]
  <2>2. new \in AppRow /\ new.status = app[a].status /\ new.submitted = app[a].submitted
        /\ "awaiting_review" \in ApplicationStatus
    BY <1>1, <2>1 DEF AppRow, ApplicationStatus, Inputs
  <2>3. Move(a, new, "awaiting_review")
    BY <2>1
  <2> HIDE DEF new
  <2> QED
    BY <1>1, <2>2, <2>3, MoveDated
<1>5. ASSUME NEW why \in {"blocked", "missing", "documents", "error"}, NotFilled(r, why)
      PROVE  Dated' /\ KeepsDate
  <2> DEFINE new == [app[a] EXCEPT !.blocker = why]
             to  == IF why = "error" THEN "failed" ELSE "needs_user_action"
  <2>1. Move(a, new, to)
    BY <1>5 DEF NotFilled
  <2>2. new \in AppRow /\ new.status = app[a].status /\ new.submitted = app[a].submitted
        /\ to \in ApplicationStatus /\ to # "submitted"
    BY <1>1 DEF AppRow, ApplicationStatus
  <2> HIDE DEF new, to
  <2> QED
    BY <1>1, <2>1, <2>2, MoveDated
<1>6. CASE NotApproved(r) /\ Status(a) = "awaiting_review"
  <2>1. Move(a, app[a], "preparing") /\ "preparing" \in ApplicationStatus
    BY <1>6 DEF NotApproved, ApplicationStatus
  <2> QED
    BY <1>1, <2>1, MoveDated
<1>7. CASE Doubt(r)
  <2> DEFINE new == [app[a] EXCEPT !.evidence = "none"]
  <2>1. Move(a, new, "submission_uncertain") /\ "submission_uncertain" \in ApplicationStatus
    BY <1>7 DEF Doubt, ApplicationStatus
  <2>2. new \in AppRow /\ new.status = app[a].status /\ new.submitted = app[a].submitted
    BY <1>1 DEF AppRow
  <2> HIDE DEF new
  <2> QED
    BY <1>1, <2>1, <2>2, MoveDated
<1>8. CASE SubmitBegin(r)
  <2>1. app' = [app EXCEPT ![a] = [app[a] EXCEPT !.status = "submitting"]]
    BY <1>1, <1>8 DEF SubmitBegin, TypeOK, AppRow
  <2>2. /\ [app[a] EXCEPT !.status = "submitting"].status = "submitting"
        /\ [app[a] EXCEPT !.status = "submitting"].submitted = app[a].submitted
    BY <1>1 DEF AppRow
  <2>3. "submitting" \notin Sent
    BY DEF Sent
  <2> QED
    BY <1>1, <2>1, <2>2, <2>3, SetDated
<1>9. CASE SubmitEnd(r)
  <2> DEFINE to  == Outcome(ledger[r])
             new == IF to = "failed" THEN app[a]
                    ELSE [app[a] EXCEPT
                       !.submitted = @ \/ to = "submitted",
                       !.evidence = IF to = "submitted" THEN "observed" ELSE "none"]
  <2>1. Move(a, new, to)
    BY <1>9 DEF SubmitEnd
  <2>2. to \in {"failed", "submitted", "submission_uncertain"} /\ to \in ApplicationStatus
    BY DEF Outcome, ApplicationStatus
  <2>3. new \in AppRow /\ new.status = app[a].status /\ (app[a].submitted => new.submitted)
        /\ (to = "submitted" => new.submitted)
    <3>1. CASE to = "failed"
      BY <1>1, <3>1
    <3>2. CASE to # "failed"
      <4> DEFINE was == (app[a].submitted \/ to = "submitted")
                 ev  == (IF to = "submitted" THEN "observed" ELSE "none")
      <4>1. was \in BOOLEAN /\ ev \in {"none", "user", "observed"}
        OBVIOUS
      <4>2. (app[a].submitted => was) /\ (to = "submitted" => was)
        OBVIOUS
      <4>3. new = [app[a] EXCEPT !.submitted = was, !.evidence = ev]
        BY <1>1, <3>2 DEF AppRow
      <4> HIDE DEF was, ev, to, new
      <4> QED
        BY <1>1, <4>1, <4>2, <4>3 DEF AppRow
    <3> QED
      BY <3>1, <3>2
  <2> HIDE DEF new, to
  <2> QED
    BY <1>1, <2>1, <2>2, <2>3, MoveDated
<1>10. CASE AssistConfirmed(r)
  <2> DEFINE new == [app[a] EXCEPT !.submitted = TRUE, !.evidence = "observed", !.blocker = "none"]
  <2>1. Move(a, new, "submitted") /\ "submitted" \in ApplicationStatus
    BY <1>10 DEF AssistConfirmed, ApplicationStatus
  <2>2. new \in AppRow /\ new.status = app[a].status /\ new.submitted
    BY <1>1 DEF AppRow
  <2> HIDE DEF new
  <2> QED
    BY <1>1, <2>1, <2>2, MoveDated
<1>11. CASE \/ FillBegin(r) /\ Status(a) \notin BrowserStart
            \/ NotApproved(r) /\ Status(a) # "awaiting_review"
            \/ AskApproval(r) \/ Approved(r) \/ SkipSubmit(r) \/ SubmitCall(r) \/ CallRaises(r)
            \/ \E out \in Outcomes : CallReturns(r, out)
            \/ AssistBegin(r) \/ AssistEnded(r)
  BY <1>2, <1>11 DEF FillBegin, NotApproved, AskApproval, Approved, SkipSubmit, SubmitCall, CallRaises,
     CallReturns, AssistBegin, AssistEnded
<1> QED
  BY <1>3, <1>4, <1>5, <1>6, <1>7, <1>8, <1>9, <1>10, <1>11 DEF Step

LEMMA UserDates ==
  ASSUME TypeOK, Dated, NEW a \in Apps, UserOnApplication(a)
  PROVE  Dated' /\ KeepsDate
<1>1. app[a] \in AppRow
  BY DEF TypeOK
<1>2. CASE CreateApplication(a)
  <2>1. PICK u \in BOOLEAN, v \in Answers :
          app' = [app EXCEPT ![a].status = "preparing", ![a].url = u, ![a].answers = v]
    BY <1>2 DEF CreateApplication
  <2> DEFINE new == [app[a] EXCEPT !.status = "preparing", !.url = u, !.answers = v]
  <2>2. app' = [app EXCEPT ![a] = new]
    BY <1>1, <2>1 DEF TypeOK, AppRow
  <2>3. new.status = "preparing" /\ new.submitted = app[a].submitted /\ "preparing" \notin Sent
    BY <1>1 DEF AppRow, Sent
  <2> HIDE DEF new
  <2> QED
    BY <2>2, <2>3, SetDated
<1>3. CASE UpdateApplication(a) \/ RecordAnswer(a)
  <2>1. \/ \E v \in Answers : app' = [app EXCEPT ![a].answers = v]
        \/ \E u \in BOOLEAN : app' = [app EXCEPT ![a].url = u]
    BY <1>3 DEF UpdateApplication, RecordAnswer
  <2>2. \A b \in Apps : app'[b].status = app[b].status /\ app'[b].submitted = app[b].submitted
    BY SMTT(30), <1>1, <2>1 DEF TypeOK, AppRow
  <2> QED
    BY <2>2 DEF Dated, KeepsDate
<1>4. ASSUME NEW t \in UserTargets, ChangeStatus(a, t)
      PROVE  Dated' /\ KeepsDate
  <2> DEFINE was == ((t = "submitted") \/ app[a].submitted)
             ev  == IF t = "submitted" THEN "user" ELSE app[a].evidence
             bl  == IF t = "paused" THEN app[a].blocker ELSE "none"
             new == [app[a] EXCEPT !.submitted = was, !.evidence = ev, !.blocker = bl]
  <2>1. t \in ApplicationStatus
    BY DEF UserTargets, ApplicationStatus
  <2>2. /\ was \in BOOLEAN /\ (app[a].submitted => was) /\ (t = "submitted" => was)
        /\ ev \in {"none", "user", "observed"}
        /\ bl \in {"none", "blocked", "missing", "documents", "error"}
    BY <1>1 DEF AppRow
  <2>3. Move(a, new, t)
    BY <1>4 DEF ChangeStatus
  <2>4. new \in AppRow /\ new.status = app[a].status /\ new.submitted = was
    BY ZenonT(40), <1>1, <2>2 DEF AppRow
  <2> HIDE DEF new, was, ev, bl
  <2> QED
    BY <2>1, <2>2, <2>3, <2>4, MoveDated
<1>5. ASSUME NEW arrived \in BOOLEAN, ResolveUncertain(a, arrived)
      PROVE  Dated' /\ KeepsDate
  <2>1. CASE arrived
    <3> DEFINE new == [app[a] EXCEPT !.submitted = TRUE, !.evidence = "user"]
    <3>1. Move(a, new, "submitted") /\ "submitted" \in ApplicationStatus
      BY <1>5, <2>1 DEF ResolveUncertain, ApplicationStatus
    <3>2. new \in AppRow /\ new.status = app[a].status /\ new.submitted
      BY <1>1 DEF AppRow
    <3> HIDE DEF new
    <3> QED
      BY <3>1, <3>2, MoveDated
  <2>2. CASE ~arrived
    <3>1. Move(a, app[a], "approved") /\ "approved" \in ApplicationStatus
      BY <1>5, <2>2 DEF ResolveUncertain, ApplicationStatus
    <3> QED
      BY <1>1, <3>1, MoveDated
  <2> QED
    BY <2>1, <2>2
<1> QED
  BY <1>2, <1>3, <1>4, <1>5 DEF UserOnApplication

LEMMA DatedStarts == Init => Dated
BY DEF Init, Dated, Sent

LEMMA DatedStays ==
  ASSUME TypeOK, Dated, [Next]_vars
  PROVE  Dated' /\ KeepsDate
<1>1. ASSUME UNCHANGED app PROVE Dated' /\ KeepsDate
  BY <1>1 DEF Dated, KeepsDate
<1>2. ASSUME NEW r \in Runs, Site(r) \/ RuntimeStep(r) \/ UserOnRun(r)
      PROVE  UNCHANGED app
  BY <1>2 DEF Site, Click, StrayEnds, RuntimeStep, Interrupted, Stopped, UserOnRun,
     StartBrowser, StartAssist, Decide, CancelRun, RetryRun, RerunRun
<1> QED
  BY <1>1, <1>2, StepDates, UserDates DEF Next, vars
=============================================================================
