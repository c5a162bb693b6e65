---------------------------- MODULE Applications ----------------------------
(***************************************************************************)
(* Job applications: the rows, what a user does to them by hand, and the    *)
(* browser runs that fill in, ask for an approval of, and submit a form     *)
(* (workflow browser_apply), or hold a window open in which the person      *)
(* submits (workflow browser_assist).                                       *)
(*                                                                          *)
(* One action is one database transaction, or what happens at the site      *)
(* between two of them.  A browser call is made in a thread that outlives   *)
(* the job when the job is cancelled.  The runtime under the runs is        *)
(* RunRuntime; here it appears as what it does to a step: run it, run it    *)
(* again from its start, cancel it, give it up.                             *)
(*                                                                          *)
(* What a form is filled with (answers, contact details, documents) is one  *)
(* value of Answers; Gap is a form with a required question no one has      *)
(* answered.  The digest of a plan is the value it was made from.  A user's *)
(* request carries the version of the row it was made on and is refused if  *)
(* the row has changed: a request below is one made on the current row.     *)
(***************************************************************************)
EXTENDS Naturals, FiniteSets, ApplicationMachine

CONSTANTS
  Apps,     \* the positions applied to
  Runs,     \* browser runs there can be at a time; a finished one's place is used again
  Answers,  \* what a form can be filled with
  Gap,      \* a form that asks for something not answered
  Nothing,
  Reruns,   \* the steps users run again
  Overlapping, \* whether two runs of one application are ever at work together
  MaxSent   \* bound: how often the employer receives one form

ASSUME ApplicationAssumption ==
  /\ Apps # {}
  /\ Gap \in Answers
  /\ Nothing \notin Answers
  /\ Reruns \subseteq {"fill", "approve", "submit"}
  /\ Overlapping \in BOOLEAN
  /\ MaxSent \in Nat \ {0}

VARIABLES
  app,       \* applications: status, form contents, evidence
  run,       \* browser runs: where they are and what their step remembers
  approval,  \* the approval request of each run's approve step
  ledger,    \* the tool_executions row of each run's submit step
  thread,    \* the browser thread of each run's submit step
  sent,      \* how often the employer received the form from NexScout
  denied     \* the user told NexScout that a form it sent had not arrived

vars == <<app, run, approval, ledger, thread, sent, denied>>

-----------------------------------------------------------------------------
(* State *)

\* applications; "absent" is a position without an application yet
AppRow == [ status    : ApplicationStatus \cup {"absent"},
            answers   : Answers,
            url       : BOOLEAN,
            blocker   : {"none", "blocked", "missing", "documents", "error"},
            evidence  : {"none", "user", "observed"},
            submitted : BOOLEAN,                 \* submitted_at is set
            form      : Answers \cup {Nothing} ] \* the newest form_filled event

RunStates == {"absent", "live", "waiting", "cancelling",
              "cancelled", "succeeded", "failed"}
Ended     == {"absent", "cancelled", "succeeded", "failed"}

\* A run, its step, the answers the fill step has read (inputs), the digest of
\* the form it filled, and the form its approval request showed; refilled: the form
\* was filled in again, by another run before that request or by this run after it.
RunRow == [ kind   : {"apply", "assist"},
            auto   : BOOLEAN,
            app    : Apps,
            state  : RunStates,
            at     : {"fill", "filling", "approve", "submit", "entering", "sending",
                      "assist", "watching"},
            inputs : Answers \cup {Nothing},
            digest : Answers \cup {Nothing},
            shown  : Answers \cup {Nothing},
            refilled : BOOLEAN ]

Approvals == {"none", "pending", "approved", "policy", "rejected", "cancelled"}
Outcomes  == {"refused", "unconfirmed", "confirmed"}
Ledger    == {"none", "started", "failed", "uncertain"} \cup Outcomes
\* A thread has the form open, the same ("open") or another one ("changed"), or
\* has sent it; nobody waits for a "stray" one any more.
Threads   == {"none", "open", "changed", "sent", "stray"}

TypeOK ==
  /\ app \in [Apps -> AppRow]
  /\ run \in [Runs -> RunRow]
  /\ approval \in [Runs -> Approvals]
  /\ ledger \in [Runs -> Ledger]
  /\ thread \in [Runs -> Threads]
  /\ sent \in [Apps -> 0..MaxSent]
  /\ denied \in [Apps -> BOOLEAN]

Init ==
  /\ app = [a \in Apps |-> [status |-> "absent", answers |-> Gap,
                            url |-> FALSE, blocker |-> "none",
                            evidence |-> "none", submitted |-> FALSE,
                            form |-> Nothing]]
  /\ run = [r \in Runs |-> [kind |-> "apply", auto |-> FALSE,
                            app |-> CHOOSE a \in Apps : TRUE,
                            state |-> "absent", at |-> "fill",
                            inputs |-> Nothing, digest |-> Nothing,
                            shown |-> Nothing, refilled |-> FALSE]]
  /\ approval = [r \in Runs |-> "none"]
  /\ ledger = [r \in Runs |-> "none"]
  /\ thread = [r \in Runs |-> "none"]
  /\ sent = [a \in Apps |-> 0]
  /\ denied = [a \in Apps |-> FALSE]

BrowserStart == {"preparing", "needs_user_action", "failed",
                 "awaiting_review", "approved"}
UserTargets  == {"preparing", "submitted", "tracking", "completed",
                 "rejected", "withdrawn", "cancelled", "paused"}
AssistFrom   == {"needs_user_action", "preparing", "failed"}

Exists(a)    == app[a].status # "absent"
Status(a)    == app[a].status
Executing(r) == run[r].state \in {"live", "cancelling"}
Free(r)      == run[r].state \in Ended /\ thread[r] = "none"

\* applications.move: the row `new`, moved to `target` if that is declared
Move(a, new, target) ==
  /\ CanMove(new.status, target)
  /\ app' = [app EXCEPT ![a] = [new EXCEPT !.status = target]]

-----------------------------------------------------------------------------
(* What the user does *)

CreateApplication(a) ==
  /\ ~Exists(a)
  /\ \E url \in BOOLEAN, v \in Answers :
       app' = [app EXCEPT ![a].status = "preparing", ![a].url = url,
                          ![a].answers = v]
  /\ UNCHANGED <<run, approval, ledger, thread, sent, denied>>

UpdateApplication(a) ==
  /\ Exists(a)
  /\ \/ \E v \in Answers : app' = [app EXCEPT ![a].answers = v]
     \/ \E url \in BOOLEAN : app' = [app EXCEPT ![a].url = url]
  /\ app' # app
  /\ UNCHANGED <<run, approval, ledger, thread, sent, denied>>

\* An answer to a question of the form, given in the app or in a chat
RecordAnswer(a) ==
  /\ Exists(a)
  /\ app[a].answers = Gap
  /\ \E v \in Answers \ {Gap} : app' = [app EXCEPT ![a].answers = v]
  /\ UNCHANGED <<run, approval, ledger, thread, sent, denied>>

ChangeStatus(a, target) ==
  /\ target \in UserTargets
  /\ Move(a, [app[a] EXCEPT
                !.submitted = (target = "submitted") \/ @,
                !.evidence = IF target = "submitted" THEN "user" ELSE @,
                !.blocker = IF target = "paused" THEN @ ELSE "none"], target)
  /\ UNCHANGED <<run, approval, ledger, thread, sent, denied>>

ResolveUncertain(a, arrived) ==
  /\ Status(a) = "submission_uncertain"
  /\ IF arrived
       THEN Move(a, [app[a] EXCEPT !.submitted = TRUE, !.evidence = "user"],
                 "submitted")
       ELSE Move(a, app[a], "approved")
  /\ denied' = [denied EXCEPT ![a] = @ \/ ~arrived]
  /\ UNCHANGED <<run, approval, ledger, thread, sent>>

\* Nothing in the code keeps two runs of one application apart; people mostly do
MayOverlap(a) ==
  Overlapping \/ \A r \in Runs : run[r].app = a => run[r].state \in Ended

\* runs.start_run for one of the two browser workflows, in a free place
NewRun(r, a, kind, auto) ==
  /\ Free(r)
  /\ MayOverlap(a)
  /\ run' = [run EXCEPT ![r] =
               [kind |-> kind, auto |-> auto, app |-> a, state |-> "live",
                at |-> IF kind = "apply" THEN "fill" ELSE "assist",
                inputs |-> Nothing, digest |-> Nothing, shown |-> Nothing,
                refilled |-> FALSE]]
  /\ approval' = [approval EXCEPT ![r] = "none"]
  /\ ledger' = [ledger EXCEPT ![r] = "none"]

StartBrowser(r, a, auto) ==
  /\ Status(a) \in BrowserStart
  /\ app[a].url
  /\ NewRun(r, a, "apply", auto)
  /\ UNCHANGED <<app, thread, sent, denied>>

StartAssist(r, a) ==
  /\ Status(a) \in AssistFrom
  /\ app[a].url
  /\ NewRun(r, a, "assist", FALSE)
  /\ UNCHANGED <<app, thread, sent, denied>>

\* runs.decide: the decision resumes the waiting run
Decide(r, d) ==
  /\ approval[r] = "pending"
  /\ run[r].state = "waiting"
  /\ approval' = [approval EXCEPT ![r] = d]
  /\ run' = [run EXCEPT ![r].state = "live"]
  /\ UNCHANGED <<app, ledger, thread, sent, denied>>

\* runs.control "cancel": at once for a run no worker holds (one that waits, or
\* is queued at the start of a step), by the worker otherwise
Cancelled(s, ap, rs) ==
  /\ run' = [r \in Runs |-> IF r \in rs THEN [run[r] EXCEPT !.state = s] ELSE run[r]]
  /\ approval' = [r \in Runs |-> IF r \in rs /\ approval[r] = "pending" THEN ap
                                 ELSE approval[r]]

CancelRun(r) ==
  /\ \/ /\ run[r].state \in {"live", "waiting"}
        /\ run[r].at \notin {"filling", "entering", "sending", "watching"}
        /\ Cancelled("cancelled", "cancelled", {r})
     \/ /\ run[r].state = "live"
        /\ Cancelled("cancelling", "pending", {r})
  /\ UNCHANGED <<app, ledger, thread, sent, denied>>

RetryRun(r) ==
  /\ run[r].state = "failed"
  /\ MayOverlap(run[r].app)
  /\ run' = [run EXCEPT ![r].state = "live"]
  /\ UNCHANGED <<app, approval, ledger, thread, sent, denied>>

\* runs.control "rerun": from a step the run has reached, with its approval
\* request and its ledger row as they are
RerunRun(r, step) ==
  /\ step \in Reruns
  /\ run[r].state \in {"failed", "succeeded"}
  /\ run[r].kind = "apply"
  /\ MayOverlap(run[r].app)
  /\ step # "fill" => run[r].digest # Nothing
  /\ run' = [run EXCEPT ![r].state = "live", ![r].at = step]
  /\ UNCHANGED <<app, approval, ledger, thread, sent, denied>>

-----------------------------------------------------------------------------
(* The steps of browser_apply *)

\* The step ended the run.  A run told to stop ends as cancelled.
Finish(r) == IF run[r].state = "cancelling" THEN "cancelled" ELSE "succeeded"
Ends(r)   == run' = [run EXCEPT ![r].state = Finish(r), ![r].inputs = Nothing]

\* What the applicant's data is built from: read in a transaction, used after it
InputsOf(a) == app[a].answers
\* What the form is planned from then: what that transaction read, or, of the contact
\* details and documents, what there is by now
Plannable(r) == {run[r].inputs, InputsOf(run[r].app)}

\* fill, first transaction: back to preparing, and the values read
FillBegin(r) ==
  LET a == run[r].app IN
  /\ Executing(r)
  /\ run[r].at = "fill"
  /\ IF Status(a) \in BrowserStart
       THEN /\ app' = [app EXCEPT ![a].status = "preparing"]
            /\ run' = [run EXCEPT ![r].at = "filling",
                                  ![r].inputs = InputsOf(a)]
       ELSE /\ Ends(r)
            /\ UNCHANGED app
  /\ UNCHANGED <<approval, ledger, thread, sent, denied>>

\* plan_form leaves required questions missing, or plans every field
Fillable(v) == v # Gap

\* Documents that cannot be made ready, a page with a CAPTCHA or a sign-in, one
\* that fails, or the form filled in as planned
FillOutcomes(v) == {"documents", "blocked", "error"} \cup
                   (IF Fillable(v) THEN {"filled"} ELSE {"missing"})

\* fill, second transaction, after the browser filled the form in
Filled(r) ==
  LET a == run[r].app IN
  /\ Executing(r)
  /\ run[r].at = "filling"
  /\ \E v \in Plannable(r) :
       /\ "filled" \in FillOutcomes(v)
       /\ Move(a, [app[a] EXCEPT !.form = v, !.blocker = "none"], "awaiting_review")
       /\ run' = [q \in Runs |->
            IF q = r
              THEN [run[r] EXCEPT !.at = "approve", !.digest = v, !.inputs = Nothing,
                                  !.refilled = approval[r] # "none"]
              ELSE [run[q] EXCEPT !.refilled = @ \/ (run[q].app = a /\ approval[q] = "none")]]
  /\ UNCHANGED <<approval, ledger, thread, sent, denied>>

\* fill, second transaction, after anything else
NotFilled(r, why) ==
  LET a == run[r].app IN
  /\ Executing(r)
  /\ run[r].at = "filling"
  /\ \E v \in Plannable(r) : why \in FillOutcomes(v) \ {"filled"}
  /\ Move(a, [app[a] EXCEPT !.blocker = why],
          IF why = "error" THEN "failed" ELSE "needs_user_action")
  /\ Ends(r)
  /\ UNCHANGED <<approval, ledger, thread, sent, denied>>

\* approve: the request is created once per run and shows the newest
\* form_filled event of the application
AskApproval(r) ==
  /\ Executing(r)
  /\ run[r].at = "approve"
  /\ approval[r] \in {"none", "pending"}
  /\ approval' = [approval EXCEPT ![r] = "pending"]
  /\ run' = [run EXCEPT
       ![r].shown = IF approval[r] = "none" THEN app[run[r].app].form ELSE @,
       ![r].state = IF @ = "live" THEN "waiting" ELSE @]
  /\ run[r].state = "live" \/ approval[r] = "none"
  /\ UNCHANGED <<app, ledger, thread, sent, denied>>

\* approve, once decided
Approved(r) ==
  /\ Executing(r)
  /\ run[r].at = "approve"
  /\ approval[r] \in {"approved", "policy"}
  /\ run' = [run EXCEPT ![r].at = "submit"]
  /\ UNCHANGED <<app, approval, ledger, thread, sent, denied>>

NotApproved(r) ==
  LET a == run[r].app IN
  /\ Executing(r)
  /\ run[r].at = "approve"
  /\ approval[r] \in {"rejected", "cancelled"}
  /\ IF Status(a) = "awaiting_review"
       THEN Move(a, app[a], "preparing")
       ELSE UNCHANGED app
  /\ Ends(r)
  /\ UNCHANGED <<approval, ledger, thread, sent, denied>>

\* submit on an application that is being submitted: taken for an attempt of
\* this run that was interrupted
Doubt(r) ==
  LET a == run[r].app IN
  /\ Executing(r)
  /\ run[r].at = "submit"
  /\ Status(a) = "submitting"
  /\ Move(a, [app[a] EXCEPT !.evidence = "none"], "submission_uncertain")
  /\ Ends(r)
  /\ UNCHANGED <<approval, ledger, thread, sent, denied>>

SkipSubmit(r) ==
  /\ Executing(r)
  /\ run[r].at = "submit"
  /\ Status(run[r].app) \notin {"submitting", "awaiting_review"}
  /\ Ends(r)
  /\ UNCHANGED <<app, approval, ledger, thread, sent, denied>>

\* RunContext.side_effect before the call: the row it leaves, and whether it
\* calls
Entered(l) == CASE l \in {"none", "failed"} -> "started"
                [] l \in {"started", "uncertain"} -> "uncertain"
                [] OTHER -> l
Calls(l)   == l \in {"none", "failed"}

\* Mutant of SamePlan: the form is submitted as it is planned now
MutantSamePlan(planned, filled) == TRUE
\* _submit_sync goes on only with the plan that was filled in
SamePlan(planned, filled) == planned = filled

\* submit, first transaction: approved and submitting, and the values read
SubmitBegin(r) ==
  LET a == run[r].app IN
  /\ Executing(r)
  /\ run[r].at = "submit"
  /\ Status(a) = "awaiting_review"
  /\ app' = [app EXCEPT ![a].status = "submitting"]
  /\ run' = [run EXCEPT ![r].at = "entering", ![r].inputs = InputsOf(a)]
  /\ UNCHANGED <<approval, ledger, thread, sent, denied>>

\* side_effect: the ledger's row is committed before the browser is opened, in a
\* transaction of its own.  The form is planned again, after it.
SubmitCall(r) ==
  /\ Executing(r)
  /\ run[r].at = "entering"
  /\ ledger' = [ledger EXCEPT ![r] = Entered(@)]
  /\ \E planned \in Plannable(r) :
       /\ run' = [run EXCEPT ![r].at = "sending", ![r].inputs = planned]
       /\ thread' = [thread EXCEPT ![r] =
                       IF ~Calls(ledger[r]) THEN @
                       ELSE IF SamePlan(planned, run[r].digest) THEN "open"
                       ELSE "changed"]
  /\ UNCHANGED <<app, approval, sent, denied>>

\* The browser thread presses the button
Click(r) ==
  /\ thread[r] \in {"open", "stray"}
  /\ sent[run[r].app] < MaxSent
  /\ sent' = [sent EXCEPT ![run[r].app] = @ + 1]
  /\ thread' = [thread EXCEPT ![r] = IF @ = "open" THEN "sent" ELSE "none"]
  /\ UNCHANGED <<app, run, approval, ledger, denied>>

\* A stray thread that does not press it (another form, a blocker, an error)
StrayEnds(r) ==
  /\ thread[r] = "stray"
  /\ thread' = [thread EXCEPT ![r] = "none"]
  /\ UNCHANGED <<app, run, approval, ledger, sent, denied>>

\* What the call may report: nothing pressed, or pressed with or without a
\* confirmation; a button that would not be pressed counts as pressed
Reports(r) == CASE thread[r] = "sent" -> {"unconfirmed", "confirmed"}
                [] thread[r] = "open" -> {"refused", "unconfirmed"}
                [] OTHER -> {"refused"}

CallReturns(r, out) ==
  /\ Executing(r)
  /\ run[r].at = "sending"
  /\ thread[r] \in {"open", "changed", "sent"}
  /\ out \in Reports(r)
  /\ ledger' = [ledger EXCEPT ![r] = out]
  /\ thread' = [thread EXCEPT ![r] = "none"]
  /\ UNCHANGED <<app, run, approval, sent, denied>>

\* The call raises, before the button or after it (the screenshot cannot be
\* stored): the ledger takes it for a failure and the step is given up
CallRaises(r) ==
  /\ Executing(r)
  /\ run[r].at = "sending"
  /\ thread[r] \in {"open", "changed", "sent"}
  /\ ledger' = [ledger EXCEPT ![r] = "failed"]
  /\ thread' = [thread EXCEPT ![r] = "none"]
  /\ \E s \in {run[r].state, "failed"} :
       run' = [run EXCEPT ![r].at = "submit", ![r].state = s,
                          ![r].inputs = Nothing]
  /\ UNCHANGED <<app, approval, sent, denied>>

\* Mutant of Outcome: not confirmed is failed
MutantOutcome(l) == IF l = "confirmed" THEN "submitted"
                    ELSE IF l \in {"refused", "unconfirmed"} THEN "failed"
                    ELSE "submission_uncertain"
\* What a result, or the lack of one, makes of the application
Outcome(l) == CASE l = "refused"   -> "failed"
                [] l = "confirmed" -> "submitted"
                [] OTHER           -> "submission_uncertain"

\* submit, second transaction: what the ledger or the call answered
SubmitEnd(r) ==
  LET a == run[r].app IN
  /\ Executing(r)
  /\ run[r].at = "sending"
  /\ thread[r] \in {"none", "stray"}
  /\ LET status == Outcome(ledger[r]) IN
       Move(a, IF status = "failed" THEN app[a]
               ELSE [app[a] EXCEPT
                 !.submitted = @ \/ status = "submitted",
                 !.evidence = IF status = "submitted" THEN "observed" ELSE "none"],
            status)
  /\ Ends(r)
  /\ UNCHANGED <<approval, ledger, thread, sent, denied>>

-----------------------------------------------------------------------------
(* The step of browser_assist *)

AssistBegin(r) ==
  /\ Executing(r)
  /\ run[r].at = "assist"
  /\ IF Status(run[r].app) \in AssistFrom
       THEN run' = [run EXCEPT ![r].at = "watching"]
       ELSE Ends(r)
  /\ UNCHANGED <<app, approval, ledger, thread, sent, denied>>

\* The person at the window submitted, it shows the site's confirmation, and the
\* application may still be finished this way: recorded, if the move is declared
AssistConfirmed(r) ==
  LET a == run[r].app IN
  /\ Executing(r)
  /\ run[r].at = "watching"
  /\ Status(a) \in AssistFrom
  /\ Move(a, [app[a] EXCEPT !.submitted = TRUE, !.evidence = "observed",
                            !.blocker = "none"], "submitted")
  /\ Ends(r)
  /\ UNCHANGED <<approval, ledger, thread, sent, denied>>

\* The window was closed, timed out or failed, whether or not the person had submitted
\* in it before; or another status came first
AssistEnded(r) ==
  /\ Executing(r)
  /\ run[r].at = "watching"
  /\ Ends(r)
  /\ UNCHANGED <<app, approval, ledger, thread, sent, denied>>

-----------------------------------------------------------------------------
(* The runtime under a step *)

FirstOf(at) == CASE at = "filling" -> "fill"
                 [] at \in {"entering", "sending"} -> "submit"
                 [] at = "watching" -> "assist"
                 [] OTHER -> at

\* What is left of a thread whose job is gone while its process lives
Left(t) == IF t \in {"open", "stray"} THEN "stray" ELSE "none"

\* The job ends in the middle of its step (a crash, a lost lease, a transaction
\* that raised): the task is tried again from the start of the step, or the run
\* has failed.  Only a crash takes the browser with it.
Interrupted(r) ==
  /\ run[r].state = "live"
  /\ \E s \in {"live", "failed"} :
       run' = [run EXCEPT ![r].state = s, ![r].at = FirstOf(@),
                          ![r].inputs = Nothing]
  /\ run' # run
  /\ \E t \in {"none", Left(thread[r])} : thread' = [thread EXCEPT ![r] = t]
  /\ UNCHANGED <<app, approval, ledger, sent, denied>>

\* The worker stops the job of a run that is cancelled; the thread goes on
Stopped(r) ==
  /\ run[r].state = "cancelling"
  /\ run' = [run EXCEPT ![r].state = "cancelled", ![r].inputs = Nothing]
  /\ thread' = [thread EXCEPT ![r] = Left(@)]
  /\ UNCHANGED <<app, approval, ledger, sent, denied>>

-----------------------------------------------------------------------------
Step(r) ==
  \/ FillBegin(r) \/ Filled(r)
  \/ \E why \in {"blocked", "missing", "documents", "error"} : NotFilled(r, why)
  \/ AskApproval(r) \/ Approved(r) \/ NotApproved(r)
  \/ Doubt(r) \/ SkipSubmit(r) \/ SubmitBegin(r) \/ SubmitCall(r)
  \/ \E out \in Outcomes : CallReturns(r, out)
  \/ CallRaises(r) \/ SubmitEnd(r)
  \/ AssistBegin(r) \/ AssistConfirmed(r) \/ AssistEnded(r)

Site(r) == Click(r) \/ StrayEnds(r)

RuntimeStep(r) == Interrupted(r) \/ Stopped(r)

UserOnRun(r) ==
  \/ \E a \in Apps : StartBrowser(r, a, FALSE) \/ StartAssist(r, a)
  \/ Decide(r, "approved") \/ Decide(r, "rejected")
  \/ CancelRun(r) \/ RetryRun(r)
  \/ \E step \in Reruns : RerunRun(r, step)

UserOnApplication(a) ==
  \/ CreateApplication(a) \/ UpdateApplication(a) \/ RecordAnswer(a)
  \/ \E target \in UserTargets : ChangeStatus(a, target)
  \/ \E arrived \in BOOLEAN : ResolveUncertain(a, arrived)

Next ==
  \/ \E r \in Runs : Step(r) \/ Site(r) \/ RuntimeStep(r) \/ UserOnRun(r)
  \/ \E a \in Apps : UserOnApplication(a)

Spec == Init /\ [][Next]_vars

-----------------------------------------------------------------------------
(* Properties *)

\* Statuses of an application that the employer has, or may have, received
Out == {"submitting", "submission_uncertain", "submitted", "tracking",
        "completed", "rejected", "withdrawn"}

\* The employer never receives a form twice from NexScout, whatever runs,
\* reruns, crashes and stray browser threads there are, unless the user said
\* that the first one had not arrived.
SubmittedOnce == \A a \in Apps : sent[a] > 1 => denied[a]

\* A form that was sent is never forgotten: the application stays among the
\* statuses from which the browser workflow cannot start again, unless the user
\* said that it had not arrived.
NothingSentIsForgotten ==
  \A a \in Apps : sent[a] > 0 /\ ~denied[a] => Status(a) \in Out

\* What the user approved is what is sent: the form that the approval request
\* of the run showed, whatever was edited, rerun or interrupted since, unless the
\* form was filled in again, by another run before the request was made (which
\* then shows the other's form) or by the run itself under its old request.
SendsWhatWasApproved ==
  \A r \in Runs :
    thread[r] = "sent" /\ approval[r] = "approved" =>
      run[r].inputs = run[r].shown \/ run[r].refilled
=============================================================================
