------------------------------ MODULE Autopilot ------------------------------
(***************************************************************************)
(* The autopilot of one case on top of Applications: the policy, the cycle  *)
(* that shortlists positions, the items the reconciler moves from research  *)
(* over documents to an application and its browser run, the gate that may  *)
(* approve a submission in the user's place, and STOP.                      *)
(*                                                                          *)
(* An item has at most one browser run at work; research, drafting and      *)
(* rendering runs are its work, which is going on, done or failed.  The     *)
(* reconciler holds the item's row from AdvanceBegin to the end of its      *)
(* transaction, and has read the policy without locking it.                 *)
(***************************************************************************)
EXTENDS Applications

CONSTANTS
  PolicyChoices, \* what users set the policy to
  DailyCap,      \* the policy's daily_submit_cap
  UserRuns,      \* the kinds of browser runs users start beside the autopilot
  Targets        \* the statuses users set by hand

MAX_FILL_ATTEMPTS == 3

ASSUME AutopilotAssumption ==
  /\ PolicyChoices \subseteq
       [on : BOOLEAN, auto : BOOLEAN,
        steps : SUBSET {"discover", "research", "documents", "fill"}]
  /\ Nothing \notin PolicyChoices
  /\ DailyCap \in Nat
  /\ UserRuns \subseteq {"apply", "assist"}
  /\ Targets \subseteq UserTargets

VARIABLES
  policy, \* the saved policy; auto: auto_submit, its consent and the submit step
  cycle,  \* the autopilot_cycle run, by the step it is at
  item,   \* the item of each position
  held,   \* the policy and the item the reconciler has read, while it holds the row
  gate    \* what the gate answered in the approve step of a browser run

own     == <<policy, cycle, item, held, gate>>
allVars == <<vars, own>>

ActiveStages == {"queued", "researching", "drafting", "rendering",
                 "needs_input", "applying", "waiting_approval",
                 "needs_user_action"}
EndStages    == {"submitted", "manual", "skipped", "failed", "stopped"}

\* docs: the documents the item needs are missing, have placeholders, have no
\* PDF, do not meet the posting, or are ready
ItemRow == [ stage : ActiveStages \cup EndStages \cup {"none"},
             run   : Runs \cup {Nothing},
             work  : {"none", "working", "failed"},
             docs  : {"none", "gaps", "unprinted", "blocked", "ready"},
             tries : 0..MAX_FILL_ATTEMPTS ]

AutopilotTypeOK ==
  /\ TypeOK
  /\ policy \in PolicyChoices
  /\ cycle \in {"none", "discover", "shortlist", "report", "stopping"}
  /\ item \in [Apps -> ItemRow]
  /\ held \in [Apps -> [policy : PolicyChoices, item : ItemRow] \cup {Nothing}]
  /\ gate \in [Runs -> {"none", "allowed", "ask"}]

AutopilotInit ==
  /\ Init
  /\ policy \in {p \in PolicyChoices : ~p.on}
  /\ cycle = "none"
  /\ item = [a \in Apps |-> [stage |-> "none", run |-> Nothing,
                             work |-> "none", docs |-> "none", tries |-> 0]]
  /\ held = [a \in Apps |-> Nothing]
  /\ gate = [r \in Runs |-> "none"]

Active(a)   == item[a].stage \in ActiveStages
It(a)       == held[a].item
Allows(a, step) == step \in held[a].policy.steps

\* Items whose browser run's place is used again have no run of theirs left
Without(r, items) ==
  [a \in Apps |-> IF items[a].run = r THEN [items[a] EXCEPT !.run = Nothing]
                  ELSE items[a]]

\* The same for what the reconciler has read
Reread(r) ==
  [a \in Apps |-> IF held[a] # Nothing /\ It(a).run = r
                  THEN [held[a] EXCEPT !.item.run = Nothing]
                  ELSE held[a]]

-----------------------------------------------------------------------------
(* Policy, cycle and STOP *)

SavePolicy(p) ==
  /\ p # policy
  /\ policy' = p
  /\ UNCHANGED <<vars, cycle, item, held, gate>>

New(a) == item[a].stage = "none" /\ ~Exists(a)

\* A cycle that is due, or that the user asks for; one at a time.  One with no
\* position to find changes nothing below and is left out.
StartCycle ==
  /\ policy.on
  /\ cycle = "none"
  /\ \E a \in Apps : New(a)
  /\ cycle' = "discover"
  /\ UNCHANGED <<vars, policy, item, held, gate>>

Discover ==
  /\ cycle = "discover"
  /\ cycle' = IF policy.on THEN "shortlist" ELSE "none"
  /\ UNCHANGED <<vars, policy, item, held, gate>>

\* Positions with neither an item nor an application, if the policy is still on
Shortlist ==
  /\ cycle \in {"shortlist", "stopping"}
  /\ \E picked \in SUBSET {a \in Apps : policy.on /\ New(a)} :
       item' = [a \in Apps |-> IF a \in picked
                               THEN [item[a] EXCEPT !.stage = "queued"]
                               ELSE item[a]]
  /\ cycle' = IF cycle = "stopping" THEN "none" ELSE "report"
  /\ UNCHANGED <<vars, policy, held, gate>>

\* The report is sent, or the cycle fails or is cancelled at any step
CycleEnds ==
  /\ cycle # "none"
  /\ cycle' = "none"
  /\ UNCHANGED <<vars, policy, item, held, gate>>

MutantUnheld(items) == TRUE \* Mutant of Unheld: the select without FOR UPDATE
\* The rows of the items are locked before anything is read from them
Unheld(items) == \A a \in items : held[a] = Nothing

\* Mutant of Reached: only the runs of items that wait for an approval
MutantReached(items) ==
  {item[a].run : a \in {b \in items : item[b].stage = "waiting_approval"}}
    \cap {r \in Runs : run[r].state \in {"live", "waiting"}}
Reached(items) == {item[a].run : a \in items} \cap
                  {r \in Runs : run[r].state \in {"live", "waiting"}}

\* STOP: the policy off, the runs of the active items and the cycle cancelled,
\* the items stopped, in one transaction.  A worker at a run cancels it later.
StopAll ==
  LET stopped == {a \in Apps : Active(a)}
      runs    == Reached(stopped)
      working == {r \in runs : run[r].state = "live"}
  IN
  /\ Unheld(stopped)
  /\ \E off \in {p \in PolicyChoices : ~p.on} : policy' = off
  /\ \E later \in SUBSET working :
       /\ {r \in working : run[r].at \in {"filling", "entering", "sending"}} \subseteq later
       /\ run' = [r \in Runs |->
            IF r \notin runs THEN run[r]
            ELSE [run[r] EXCEPT !.state = IF r \in later THEN "cancelling"
                                          ELSE "cancelled"]]
       /\ approval' = [r \in Runs |->
            IF r \in runs \ later /\ approval[r] = "pending" THEN "cancelled"
            ELSE approval[r]]
  /\ item' = [a \in Apps |-> IF a \in stopped
                THEN [item[a] EXCEPT !.stage = "stopped", !.work = "none"]
                ELSE item[a]]
  /\ cycle' \in IF cycle = "none" THEN {"none"} ELSE {"none", "stopping"}
  /\ UNCHANGED <<app, ledger, thread, sent, denied, held, gate>>

-----------------------------------------------------------------------------
(* The reconciler *)

\* The row is locked (skipped if another worker holds it) and looked at again
AdvanceBegin(a) ==
  /\ held[a] = Nothing
  /\ Active(a)
  /\ policy.on
  /\ held' = [held EXCEPT ![a] = [policy |-> policy, item |-> item[a]]]
  /\ UNCHANGED <<vars, policy, cycle, item, gate>>

AtWork(a, states) == It(a).run # Nothing /\ run[It(a).run].state \in states
Asking(a)   == AtWork(a, {"waiting"})
Working(a)  == It(a).work = "working" \/ AtWork(a, RunStates \ Ended)
Settled(a)  == held[a] # Nothing /\ ~Working(a)
At(a, st)   == Settled(a) /\ It(a).stage \in st

\* The end of the reconciler's transaction: the item as it leaves it
Leaves(a, it) ==
  /\ item' = [item EXCEPT ![a] = it]
  /\ held' = [held EXCEPT ![a] = Nothing]
  /\ UNCHANGED <<policy, cycle, gate>>

Stays(a, stage) == Leaves(a, [It(a) EXCEPT !.stage = stage]) /\ UNCHANGED vars

\* A run waits for the user, or something is still working
AdvanceWaits(a) ==
  /\ held[a] # Nothing
  /\ Working(a)
  /\ Stays(a, IF Asking(a) THEN "waiting_approval" ELSE It(a).stage)

BeginResearch(a) ==
  /\ At(a, {"queued"})
  /\ Allows(a, "research")
  /\ Leaves(a, [It(a) EXCEPT !.stage = "researching", !.work = "working"])
  /\ UNCHANGED vars

\* Drafts of the document types there is no document of
BeginDrafts(a) ==
  /\ \/ At(a, {"researching"})
     \/ At(a, {"queued"}) /\ ~Allows(a, "research")
  /\ IF Allows(a, "documents")
       THEN \E w \in {"working", "none"} :
              /\ w = "none" => It(a).docs # "none"
              /\ Leaves(a, [It(a) EXCEPT !.stage = "drafting", !.work = w])
       ELSE Leaves(a, [It(a) EXCEPT !.stage = "needs_input", !.work = "none",
                                      !.run = Nothing])
  /\ UNCHANGED vars

DraftFailed(a) ==
  /\ At(a, {"drafting"})
  /\ It(a).work = "failed"
  /\ Stays(a, "failed")

DocumentStages == {"drafting", "rendering", "needs_input"}
Drafted(a) == At(a, DocumentStages) /\
              ~(It(a).stage = "drafting" /\ It(a).work = "failed")

\* Placeholders filled in from what is known, or a PDF that is missing: rendered
Render(a) ==
  /\ Drafted(a)
  /\ It(a).docs \in {"gaps", "unprinted"}
  /\ Leaves(a, [It(a) EXCEPT !.stage = "rendering", !.docs = "unprinted",
                               !.work = "working"])
  /\ UNCHANGED vars

AskForInput(a) ==
  /\ Drafted(a)
  /\ It(a).docs \in {"none", "gaps", "blocked"}
  /\ Stays(a, "needs_input")

\* The position's application, created when there is none
Created(a, u, v) == [app[a] EXCEPT !.status = "preparing", !.url = u, !.answers = v]
Application(a) ==
  IF Exists(a) THEN {app[a]} ELSE {Created(a, u, v) : u \in BOOLEAN, v \in Answers}

\* _apply: left to the user (no form, a site whose verdict is manual, filling in turned
\* off), put off while the site was opened lately, refused by start_browser (the status,
\* no CV among the application's documents, one that does not meet the posting), or run
ApplyFor(a) ==
  \E new \in Application(a) :
    /\ app' = [app EXCEPT ![a] = new]
    /\ \/ /\ Leaves(a, [It(a) EXCEPT !.stage = "manual"])
          /\ UNCHANGED <<run, approval, ledger>>
       \/ /\ new.url /\ Allows(a, "fill")
          /\ \/ /\ \E b \in Apps : item[b].tries > 0
                /\ Leaves(a, It(a))
             \/ Leaves(a, [It(a) EXCEPT !.stage = "failed"])
          /\ UNCHANGED <<run, approval, ledger>>
       \/ /\ new.url /\ Allows(a, "fill")
          /\ new.status \in BrowserStart
          /\ \E r \in Runs :
               /\ NewRun(r, a, "apply", TRUE)
               /\ gate' = [gate EXCEPT ![r] = "none"]
               /\ item' = [Without(r, item) EXCEPT
                    ![a] = [It(a) EXCEPT !.run = r, !.stage = "applying",
                            !.work = "none", !.tries = @ + 1]]
               /\ held' = [Reread(r) EXCEPT ![a] = Nothing]
          /\ UNCHANGED <<policy, cycle>>
    /\ UNCHANGED <<thread, sent, denied>>

ApplyDocuments(a) == Drafted(a) /\ It(a).docs = "ready" /\ ApplyFor(a)

AppliedTo(a, statuses) ==
  At(a, {"applying", "waiting_approval", "needs_user_action"}) /\
  Status(a) \in statuses

\* Mutant of SubmittedStatuses: every status after the button was pressed
MutantSubmittedStatuses ==
  {"submitted", "tracking", "completed", "submission_uncertain"}
\* Mutant of NotSentStatuses: whatever is not confirmed was not sent
MutantNotSentStatuses == {"preparing", "submission_uncertain"}
SubmittedStatuses == {"submitted", "tracking", "completed"}
ReviewStatuses    == {"awaiting_review", "approved"}
NotSentStatuses   == {"preparing"}
ActStatuses       == {"submission_uncertain"}
OtherStatuses     == ApplicationStatus \
  (SubmittedStatuses \cup ReviewStatuses \cup NotSentStatuses \cup ActStatuses
     \cup {"needs_user_action", "failed"})

\* Where the application has got to, without its browser run at work
AfterFill(a) ==
  \/ AppliedTo(a, SubmittedStatuses) /\ Stays(a, "submitted")
  \/ AppliedTo(a, ReviewStatuses) /\ Stays(a, "waiting_approval")
  \/ AppliedTo(a, NotSentStatuses) /\ Stays(a, "skipped")
  \/ AppliedTo(a, ActStatuses) /\ Stays(a, "needs_user_action")
  \/ AppliedTo(a, OtherStatuses) /\ Stays(a, It(a).stage)

MutantGivesUp(tries) == tries > MAX_FILL_ATTEMPTS \* Mutant of GivesUp: off by one
GivesUp(tries)       == tries >= MAX_FILL_ATTEMPTS

\* Every question of the last fill has an answer; a question that the blocker's
\* text cuts short is never recognised
Refill(a) ==
  /\ AppliedTo(a, {"needs_user_action"})
  /\ app[a].blocker = "missing"
  /\ Fillable(app[a].answers)
  /\ IF GivesUp(It(a).tries) THEN Stays(a, "failed")
     ELSE ApplyFor(a)

NeedsUser(a) ==
  /\ AppliedTo(a, {"needs_user_action"})
  /\ Stays(a, "needs_user_action")

FillFailed(a) ==
  /\ AppliedTo(a, {"failed"})
  /\ IF It(a).tries < 2 THEN ApplyFor(a) ELSE Stays(a, "failed")

Result(it) == CASE it.stage = "drafting"  -> {"gaps", "unprinted"}
                [] it.stage = "rendering" -> {"ready", "blocked"}
                [] OTHER                  -> {it.docs}

\* Research, drafting or rendering ends, in whatever way
WorkEnds(a) ==
  /\ item[a].work = "working"
  /\ held[a] = Nothing
  /\ \E w \in {"none", "failed"}, d \in Result(item[a]) :
       item' = [item EXCEPT ![a].work = w,
                 ![a].docs = IF w = "failed" THEN @
                             ELSE d]
  /\ UNCHANGED <<vars, policy, cycle, held, gate>>

\* The user writes, edits or renders the documents the item waits for
EditDocuments(a) ==
  /\ item[a].stage = "needs_input"
  /\ held[a] = Nothing
  /\ \E d \in {"gaps", "unprinted", "blocked", "ready"} :
       /\ d # item[a].docs
       /\ item' = [item EXCEPT ![a].docs = d]
  /\ UNCHANGED <<vars, policy, cycle, held, gate>>

-----------------------------------------------------------------------------
(* The gate of the approve step *)

\* submitted_at of today; the count is taken before the submission, unlocked
Today == {a \in Apps : app[a].submitted}

\* may_auto_submit: the settings, the limit, and the site, the form's
\* declarations and the documents
GateReads(r) ==
  /\ Executing(r)
  /\ run[r].at = "approve"
  /\ run[r].auto
  /\ approval[r] = "none"
  /\ gate[r] = "none"
  /\ \E rest \in BOOLEAN, today \in SUBSET Today :
       gate' = [gate EXCEPT ![r] =
                  IF policy.on /\ policy.auto /\ Cardinality(today) < DailyCap
                     /\ rest THEN "allowed" ELSE "ask"]
  /\ UNCHANGED <<vars, policy, cycle, item, held>>

\* The standing approval, recorded as the user's
RecordPolicyApproval(r) ==
  /\ Executing(r)
  /\ run[r].at = "approve"
  /\ approval[r] = "none"
  /\ gate[r] = "allowed"
  /\ approval' = [approval EXCEPT ![r] = "policy"]
  /\ UNCHANGED <<app, run, ledger, thread, sent, denied, own>>

-----------------------------------------------------------------------------
(* What the browser runs and the user do, as in Applications *)

\* A step that starts anew asks the gate anew
KeepsGate(r) ==
  /\ gate' = IF run'[r].at = "approve" /\ run'[r].state # "failed" THEN gate
             ELSE [gate EXCEPT ![r] = "none"]
  /\ UNCHANGED <<policy, cycle, item, held>>

RunStep(r) ==
  /\ run[r].at = "approve" /\ run[r].auto /\ approval[r] = "none"
       => gate[r] = "ask"
  /\ Step(r)
  /\ KeepsGate(r)

RunInterrupted(r) ==
  /\ RuntimeStep(r)
  /\ gate' = [gate EXCEPT ![r] = "none"]
  /\ UNCHANGED <<policy, cycle, item, held>>

\* The approve step interrupted after the gate's answer, and started again
GateForgotten(r) ==
  /\ gate[r] # "none"
  /\ gate' = [gate EXCEPT ![r] = "none"]
  /\ UNCHANGED <<vars, policy, cycle, item, held>>

AtSite(r) == Site(r) /\ UNCHANGED own

UserStarts(r, a) ==
  /\ \/ "apply" \in UserRuns /\ StartBrowser(r, a, FALSE)
     \/ "assist" \in UserRuns /\ StartAssist(r, a)
  /\ item' = Without(r, item)
  /\ held' = Reread(r)
  /\ gate' = [gate EXCEPT ![r] = "none"]
  /\ UNCHANGED <<policy, cycle>>

UserControls(r) ==
  /\ \/ Decide(r, "approved") \/ Decide(r, "rejected")
     \/ CancelRun(r) \/ RetryRun(r)
     \/ \E step \in Reruns : RerunRun(r, step)
  /\ UNCHANGED own

UserWrites(a) ==
  /\ \/ RecordAnswer(a)
     \/ \E target \in Targets : ChangeStatus(a, target)
     \/ \E arrived \in BOOLEAN : ResolveUncertain(a, arrived)
  /\ UNCHANGED own

AutopilotNext ==
  \/ \E p \in PolicyChoices : SavePolicy(p)
  \/ StartCycle \/ Discover \/ Shortlist \/ CycleEnds \/ StopAll
  \/ \E a \in Apps :
       \/ AdvanceBegin(a) \/ AdvanceWaits(a)
       \/ BeginResearch(a) \/ BeginDrafts(a) \/ DraftFailed(a)
       \/ Render(a) \/ AskForInput(a) \/ ApplyDocuments(a)
       \/ AfterFill(a) \/ Refill(a) \/ NeedsUser(a) \/ FillFailed(a)
       \/ WorkEnds(a) \/ EditDocuments(a) \/ UserWrites(a)
  \/ \E r \in Runs :
       \/ GateReads(r) \/ RecordPolicyApproval(r)
       \/ RunStep(r) \/ RunInterrupted(r) \/ GateForgotten(r) \/ AtSite(r)
       \/ UserControls(r) \/ \E a \in Apps : UserStarts(r, a)

AutopilotSpec == AutopilotInit /\ [][AutopilotNext]_allVars

-----------------------------------------------------------------------------
(* Properties *)

\* STOP is final, and so is every other end of an item: the reconciler, which
\* may be starting the item's next run while the user presses STOP, never takes
\* it up again.
StopIsFinal ==
  [][\A a \in Apps : item[a].stage \in EndStages =>
       item'[a].stage = item[a].stage]_allVars

\* STOP leaves no browser run of the items it stops at work or waiting, also
\* none that was started or resumed meanwhile; only a run that had ended is
\* seen at work again, when the user retries it.
AtWorkForStopped(a) ==
  /\ item[a].stage = "stopped"
  /\ item[a].run # Nothing
  /\ run[item[a].run].state \in {"live", "waiting"}
StopReachesRuns ==
  [][\A a \in Apps : AtWorkForStopped(a)' =>
       AtWorkForStopped(a) \/ run[item[a].run].state \in Ended]_allVars

\* The user is told that nothing was sent (stage "skipped") only when nothing
\* was, or when the user said so.
SkippedMeansNotSent ==
  [][\A a \in Apps : item'[a].stage = "skipped" /\ item[a].stage # "skipped" =>
       sent[a] = 0 \/ denied[a]]_allVars

\* The user is told "submitted" only of an application that is recorded as
\* submitted, on the site's evidence or on the user's word.
SubmittedIsRecorded ==
  \A a \in Apps : item[a].stage = "submitted" => app[a].submitted
=============================================================================
