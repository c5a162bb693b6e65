---------------------------- MODULE AutopilotProofs ----------------------------
(***************************************************************************)
(* What the autopilot promises, for any number of positions, browser runs   *)
(* and policies: STOP is final and reaches the runs, and what the user is   *)
(* told of an application is so.                                            *)
(*                                                                          *)
(* It rests on the lock of the item's row (Held): the reconciler holds it   *)
(* while it looks and moves, so that what it has read of the item is the    *)
(* item, and STOP waits for it.  What it does to applications and browser   *)
(* runs are steps of Applications but for three: STOP, the standing         *)
(* approval and the start of a run.                                         *)
(***************************************************************************)
EXTENDS Autopilot, ApplicationsProofs

\* Before its first browser run an item has none of its attempts used
Early == {"none", "queued", "researching"} \cup DocumentStages
Items == {i \in ItemRow : i.stage \in Early => i.tries = 0}

Readings == [policy : PolicyChoices, item : Items]

\* What the reconciler has read of an item is the item, and it is active
Held ==
  /\ policy \in PolicyChoices
  /\ cycle \in {"none", "discover", "shortlist", "report", "stopping"}
  /\ gate \in [Runs -> {"none", "allowed", "ask"}]
  /\ item \in [Apps -> Items]
  /\ held \in [Apps -> Readings \cup {Nothing}]
  /\ \A a \in Apps : held[a] # Nothing => held[a].item = item[a] /\ item[a].stage \in ActiveStages

\* An item may come to stage s, by what its application is then
Told(a, s) ==
  \/ s \in ActiveStages \cup {"manual", "failed"}
  \/ s = "skipped" /\ Status(a) \in NotSentStatuses
  \/ s = "submitted" /\ Status(a) \in SubmittedStatuses

\* What a step makes of an item: an end it had stands, and an end it comes to is true
EndsTruly(a) ==
  /\ item[a].stage \in EndStages => /\ item'[a].stage = item[a].stage
                                    /\ item'[a].run \in {item[a].run, Nothing}
  /\ item[a].stage \notin EndStages =>
       \/ item'[a].stage = "none" \/ Told(a, item'[a].stage)
       \/ item'[a].stage = "stopped" /\ StopAll

LEMMA StagesApart == \A s \in ActiveStages : s \notin EndStages /\ s # "none"
BY DEF ActiveStages, EndStages

LEMMA ItemTyped ==
  ASSUME NEW i \in Items
  PROVE  /\ i \in ItemRow /\ i.tries \in 0..3
         /\ i.stage \in ActiveStages \cup EndStages \cup {"none"} /\ i.run \in Runs \cup {Nothing}
         /\ i.docs \in {"none", "gaps", "unprinted", "blocked", "ready"}
         /\ i.work \in {"none", "working", "failed"}
         /\ i.stage \in Early => i.tries = 0
BY DEF Items, ItemRow, MAX_FILL_ATTEMPTS

\* Items made from an item
LEMMA StageSet ==
  ASSUME NEW i \in Items, NEW s \in ActiveStages \cup EndStages, s \in Early => i.tries = 0
  PROVE  /\ [i EXCEPT !.stage = s] \in Items /\ [i EXCEPT !.stage = s].stage = s
         /\ [i EXCEPT !.stage = s].run = i.run
BY DEF Items, ItemRow

LEMMA StageAndWorkSet ==
  ASSUME NEW i \in Items, NEW s \in ActiveStages \cup EndStages, s \in Early => i.tries = 0,
         NEW w \in {"none", "working", "failed"}
  PROVE  /\ [i EXCEPT !.stage = s, !.work = w] \in Items
         /\ [i EXCEPT !.stage = s, !.work = w].stage = s
         /\ [i EXCEPT !.stage = s, !.work = w].run = i.run
BY DEF Items, ItemRow

LEMMA WorkSet ==
  ASSUME NEW i \in Items, NEW w \in {"none", "working", "failed"},
         NEW d \in {"none", "gaps", "unprinted", "blocked", "ready"}
  PROVE  /\ [i EXCEPT !.work = w, !.docs = d] \in Items
         /\ [i EXCEPT !.work = w, !.docs = d].stage = i.stage
         /\ [i EXCEPT !.work = w, !.docs = d].run = i.run
         /\ [i EXCEPT !.docs = d] \in Items /\ [i EXCEPT !.docs = d].stage = i.stage
         /\ [i EXCEPT !.docs = d].run = i.run
BY ZenonT(40) DEF Items, ItemRow

LEMMA HeldStarts == AutopilotInit => Held
<1> SUFFICES ASSUME AutopilotInit PROVE Held
  OBVIOUS
<1>1. [stage |-> "none", run |-> Nothing, work |-> "none", docs |-> "none", tries |-> 0] \in Items
  BY DEF Items, ItemRow, MAX_FILL_ATTEMPTS
<1> QED
  BY <1>1 DEF AutopilotInit, Held

-----------------------------------------------------------------------------
(* The end of the reconciler's transaction *)

\* What the reconciler holds is as it says, and the other items are left alone
LEMMA ReadIt ==
  ASSUME Held, NEW a \in Apps, held[a] # Nothing
  PROVE  /\ It(a) = item[a] /\ It(a) \in Items /\ item[a].stage \in ActiveStages
         /\ item[a].stage \notin EndStages
BY StagesApart DEF Held, It

LEMMA LeavesIt ==
  ASSUME Held, NEW a \in Apps, NEW it \in Items, held[a] # Nothing, Leaves(a, it),
         Told(a, it.stage)
  PROVE  Held' /\ \A b \in Apps : EndsTruly(b)
<1>1. /\ item' = [item EXCEPT ![a] = it] /\ held' = [held EXCEPT ![a] = Nothing]
      /\ UNCHANGED <<policy, cycle, gate>>
  BY DEF Leaves
<1>2. Held'
  BY <1>1 DEF Held
<1>3. \A b \in Apps \ {a} : item'[b] = item[b] /\ item[b].stage \in ActiveStages \cup EndStages \cup {"none"}
  BY <1>1, ItemTyped DEF Held
<1>4. item'[a] = it /\ item[a].stage \notin EndStages
  BY <1>1, ReadIt DEF Held
<1>5. \A b \in Apps : EndsTruly(b)
  BY <1>3, <1>4 DEF EndsTruly, Told
<1> QED
  BY <1>2, <1>5

LEMMA StaysIt ==
  ASSUME Held, NEW a \in Apps, NEW s \in ActiveStages \cup EndStages, held[a] # Nothing,
         Stays(a, s), Told(a, s), s \in Early => It(a).tries = 0
  PROVE  Held' /\ \A b \in Apps : EndsTruly(b)
<1>1. [It(a) EXCEPT !.stage = s] \in Items /\ [It(a) EXCEPT !.stage = s].stage = s
  BY ReadIt, StageSet
<1> QED
  BY <1>1, LeavesIt DEF Stays

\* The place of a run that is over is used again
LEMMA PlaceAgain ==
  ASSUME Held, NEW r \in Runs
  PROVE  /\ Without(r, item) \in [Apps -> Items]
         /\ \A a \in Apps : Without(r, item)[a].stage = item[a].stage
         /\ \A a \in Apps : Without(r, item)[a].run \in {item[a].run, Nothing}
         /\ Reread(r) \in [Apps -> Readings \cup {Nothing}]
         /\ \A a \in Apps : Reread(r)[a] # Nothing =>
              held[a] # Nothing /\ Reread(r)[a].item = Without(r, item)[a]
<1>1. \A a \in Apps : /\ [item[a] EXCEPT !.run = Nothing] \in Items
                      /\ [item[a] EXCEPT !.run = Nothing].stage = item[a].stage
                      /\ [item[a] EXCEPT !.run = Nothing].run = Nothing
  BY DEF Held, Items, ItemRow
<1>2. ASSUME NEW a \in Apps, held[a] # Nothing
      PROVE  /\ [held[a] EXCEPT !.item.run = Nothing] \in Readings
             /\ [held[a] EXCEPT !.item.run = Nothing].item = [item[a] EXCEPT !.run = Nothing]
             /\ It(a) = item[a] /\ held[a] \in Readings /\ held[a].item = item[a]
  <2>1. held[a] \in Readings /\ held[a].item = item[a]
    BY <1>2 DEF Held
  <2> QED
    BY <1>1, <2>1 DEF Readings, It
<1>3. /\ Without(r, item) \in [Apps -> Items]
      /\ \A a \in Apps : Without(r, item)[a].stage = item[a].stage
      /\ \A a \in Apps : Without(r, item)[a].run \in {item[a].run, Nothing}
  BY <1>1 DEF Without, Held
<1>4. Reread(r) \in [Apps -> Readings \cup {Nothing}]
  <2>1. \A a \in Apps : held[a] \in Readings \cup {Nothing}
    BY DEF Held
  <2>2. \A a \in Apps : (IF held[a] # Nothing /\ It(a).run = r
                         THEN [held[a] EXCEPT !.item.run = Nothing] ELSE held[a])
                        \in Readings \cup {Nothing}
    BY <1>2, <2>1
  <2> QED
    BY <2>2 DEF Reread
<1>5. ASSUME NEW a \in Apps, Reread(r)[a] # Nothing
      PROVE  held[a] # Nothing /\ Reread(r)[a].item = Without(r, item)[a]
  BY <1>2, <1>5 DEF Reread, Without
<1> QED
  BY <1>3, <1>4, <1>5

\* The start of a browser run takes one of the item's attempts
LEMMA ApplyForIt ==
  ASSUME Held, NEW a \in Apps, held[a] # Nothing, ApplyFor(a), It(a).tries < MAX_FILL_ATTEMPTS
  PROVE  Held' /\ \A b \in Apps : EndsTruly(b)
<1>1. It(a) \in Items /\ It(a).stage \in ActiveStages /\ item[a].stage \notin EndStages
  BY ReadIt
<1>2. /\ [It(a) EXCEPT !.stage = "manual"] \in Items
      /\ [It(a) EXCEPT !.stage = "failed"] \in Items
      /\ Told(a, [It(a) EXCEPT !.stage = "manual"].stage) /\ Told(a, It(a).stage)
      /\ Told(a, [It(a) EXCEPT !.stage = "failed"].stage)
  BY <1>1 DEF Items, ItemRow, EndStages, Early, DocumentStages, Told
<1>3. ASSUME NEW r \in Runs,
             item' = [Without(r, item) EXCEPT
                        ![a] = [It(a) EXCEPT !.run = r, !.stage = "applying",
                                !.work = "none", !.tries = @ + 1]],
             held' = [Reread(r) EXCEPT ![a] = Nothing], UNCHANGED <<policy, cycle>>,
             gate' = [gate EXCEPT ![r] = "none"]
      PROVE  Held' /\ \A b \in Apps : EndsTruly(b)
  <2> DEFINE it == [It(a) EXCEPT !.run = r, !.stage = "applying", !.work = "none", !.tries = @ + 1]
  <2>1. It(a).tries + 1 \in 0..MAX_FILL_ATTEMPTS
    BY <1>1, ItemTyped DEF MAX_FILL_ATTEMPTS
  <2>2. it \in Items /\ it.stage = "applying"
    <3>1. ASSUME NEW i \in Items, NEW t \in 0..MAX_FILL_ATTEMPTS
          PROVE  /\ [i EXCEPT !.run = r, !.stage = "applying", !.work = "none", !.tries = t] \in Items
                 /\ [i EXCEPT !.run = r, !.stage = "applying", !.work = "none", !.tries = t].stage = "applying"
      BY DEF Items, ItemRow, ActiveStages, Early, DocumentStages
    <3> QED
      BY <1>1, <2>1, <3>1
  <2> HIDE DEF it
  <2>3. item' = [Without(r, item) EXCEPT ![a] = it]
    BY <1>3 DEF it
  <2>4. /\ item' \in [Apps -> Items] /\ item'[a] = it
        /\ \A b \in Apps \ {a} : item'[b] = Without(r, item)[b]
    BY <2>2, <2>3, PlaceAgain
  <2>5. /\ held' \in [Apps -> Readings \cup {Nothing}] /\ held'[a] = Nothing
        /\ \A b \in Apps \ {a} : held'[b] = Reread(r)[b]
    BY <1>3, PlaceAgain
  <2>6. gate' \in [Runs -> {"none", "allowed", "ask"}]
    BY <1>3 DEF Held
  <2>7. ASSUME NEW b \in Apps, held'[b] # Nothing
        PROVE  held'[b].item = item'[b] /\ item'[b].stage \in ActiveStages
    <3>1. b # a /\ held[b] # Nothing /\ held'[b].item = item'[b]
      BY <2>4, <2>5, <2>7, PlaceAgain
    <3>2. item'[b].stage = item[b].stage
      BY <2>4, <3>1, PlaceAgain
    <3> QED
      BY <3>1, <3>2 DEF Held
  <2>8. Held'
    BY <1>3, <2>4, <2>5, <2>6, <2>7 DEF Held
  <2>9. EndsTruly(a)
    BY <1>1, <2>2, <2>4 DEF EndsTruly, Told, ActiveStages
  <2>10. ASSUME NEW b \in Apps \ {a} PROVE EndsTruly(b)
    <3>1. item'[b].stage = item[b].stage /\ item'[b].run \in {item[b].run, Nothing}
      BY <2>4, PlaceAgain
    <3>2. item[b].stage \in ActiveStages \cup EndStages \cup {"none"}
      BY ItemTyped DEF Held
    <3> QED
      BY <3>1, <3>2 DEF EndsTruly, Told
  <2> QED
    BY <2>8, <2>9, <2>10
<1>4. \/ Leaves(a, [It(a) EXCEPT !.stage = "manual"])
      \/ Leaves(a, It(a))
      \/ Leaves(a, [It(a) EXCEPT !.stage = "failed"])
      \/ \E r \in Runs :
           /\ item' = [Without(r, item) EXCEPT
                        ![a] = [It(a) EXCEPT !.run = r, !.stage = "applying",
                                !.work = "none", !.tries = @ + 1]]
           /\ held' = [Reread(r) EXCEPT ![a] = Nothing] /\ UNCHANGED <<policy, cycle>>
           /\ gate' = [gate EXCEPT ![r] = "none"]
  BY Zenon DEF ApplyFor
<1> QED
  BY <1>1, <1>2, <1>3, <1>4, LeavesIt

LEMMA Elsewhere ==
  ASSUME Held, UNCHANGED <<item, held>>, policy' \in PolicyChoices,
         cycle' \in {"none", "discover", "shortlist", "report", "stopping"},
         gate' \in [Runs -> {"none", "allowed", "ask"}]
  PROVE  Held' /\ \A b \in Apps : EndsTruly(b)
<1>1. \A b \in Apps : item[b].stage \in ActiveStages \cup EndStages \cup {"none"}
  BY ItemTyped DEF Held
<1> QED
  BY <1>1 DEF Held, EndsTruly, Told

LEMMA Reconciles ==
  ASSUME Held, NEW a \in Apps,
         \/ AdvanceBegin(a) \/ AdvanceWaits(a)
         \/ BeginResearch(a) \/ BeginDrafts(a) \/ DraftFailed(a)
         \/ Render(a) \/ AskForInput(a) \/ ApplyDocuments(a)
         \/ AfterFill(a) \/ Refill(a) \/ NeedsUser(a) \/ FillFailed(a)
  PROVE  Held' /\ \A b \in Apps : EndsTruly(b)
<1>1. CASE AdvanceBegin(a)
  <2>1. [policy |-> policy, item |-> item[a]] \in Readings
        /\ [policy |-> policy, item |-> item[a]].item = item[a]
    BY DEF Held, Readings
  <2>2. /\ held' = [held EXCEPT ![a] = [policy |-> policy, item |-> item[a]]]
        /\ UNCHANGED <<policy, cycle, item, gate>> /\ item[a].stage \in ActiveStages
    BY <1>1 DEF AdvanceBegin, Active
  <2>3. Held'
    BY <2>1, <2>2 DEF Held
  <2>4. \A b \in Apps : item[b].stage \in ActiveStages \cup EndStages \cup {"none"}
    BY ItemTyped DEF Held
  <2> QED
    BY <2>2, <2>3, <2>4 DEF EndsTruly, Told
<1>2. ASSUME held[a] # Nothing
      PROVE  /\ It(a) \in Items /\ It(a).stage \in ActiveStages
             /\ It(a).stage \in Early => It(a).tries = 0
             /\ It(a).stage \notin {"none"}
  BY <1>2, ReadIt, ItemTyped, StagesApart
<1>3. ASSUME NEW s \in ActiveStages, held[a] # Nothing, Stays(a, s),
             s \in Early => It(a).stage \in Early
      PROVE  Held' /\ \A b \in Apps : EndsTruly(b)
  BY <1>2, <1>3, StaysIt DEF Told
<1>4. ASSUME NEW st, At(a, st)
      PROVE  held[a] # Nothing /\ It(a).stage \in st
  BY <1>4 DEF At, Settled
<1>5. CASE AdvanceWaits(a)
  <2>1. held[a] # Nothing
    BY <1>5 DEF AdvanceWaits
  <2>2. CASE Asking(a)
    <3>1. Stays(a, "waiting_approval") /\ "waiting_approval" \in ActiveStages \ Early
      BY <1>5, <2>2 DEF AdvanceWaits, ActiveStages, Early, DocumentStages
    <3> QED
      BY <1>3, <2>1, <3>1
  <2>3. CASE ~Asking(a)
    BY <1>2, <1>3, <1>5, <2>1, <2>3 DEF AdvanceWaits
  <2> QED
    BY <2>2, <2>3
<1>6. CASE BeginResearch(a)
  <2>1. /\ held[a] # Nothing /\ It(a) \in Items /\ It(a).tries = 0
        /\ Leaves(a, [It(a) EXCEPT !.stage = "researching", !.work = "working"])
    BY <1>2, <1>4, <1>6 DEF BeginResearch, Early
  <2>2. "researching" \in ActiveStages
    BY DEF ActiveStages
  <2>3. [It(a) EXCEPT !.stage = "researching", !.work = "working"] \in Items
        /\ [It(a) EXCEPT !.stage = "researching", !.work = "working"].stage = "researching"
    BY <2>1, <2>2, StageAndWorkSet
  <2> QED
    BY <2>1, <2>2, <2>3, LeavesIt DEF Told
<1>7. CASE BeginDrafts(a)
  <2>1. held[a] # Nothing /\ It(a) \in Items /\ It(a).tries = 0
    BY <1>2, <1>4, <1>7 DEF BeginDrafts, Early
  <2>2. {"drafting", "needs_input"} \subseteq ActiveStages
    BY DEF ActiveStages
  <2>3. PICK it \in Items : Leaves(a, it) /\ it.stage \in {"drafting", "needs_input"}
    <3>1. CASE Allows(a, "documents")
      <4>1. PICK w \in {"working", "none"} : Leaves(a, [It(a) EXCEPT !.stage = "drafting", !.work = w])
        BY <1>7, <3>1 DEF BeginDrafts
      <4>2. /\ [It(a) EXCEPT !.stage = "drafting", !.work = w] \in Items
            /\ [It(a) EXCEPT !.stage = "drafting", !.work = w].stage = "drafting"
        BY <2>1, <2>2 DEF Items, ItemRow
      <4> QED
        BY <4>1, <4>2
    <3>2. CASE ~Allows(a, "documents")
      <4>1. Leaves(a, [It(a) EXCEPT !.stage = "needs_input", !.work = "none", !.run = Nothing])
        BY <1>7, <3>2 DEF BeginDrafts
      <4>2. /\ [It(a) EXCEPT !.stage = "needs_input", !.work = "none", !.run = Nothing] \in Items
            /\ [It(a) EXCEPT !.stage = "needs_input", !.work = "none",
                             !.run = Nothing].stage = "needs_input"
        BY <2>1, <2>2 DEF Items, ItemRow
      <4> QED
        BY <4>1, <4>2
    <3> QED
      BY <3>1, <3>2
  <2> QED
    BY <2>1, <2>2, <2>3, LeavesIt DEF Told
<1>8. CASE AskForInput(a)
  <2>1. held[a] # Nothing /\ It(a).stage \in Early /\ Stays(a, "needs_input")
    BY <1>4, <1>8 DEF AskForInput, Drafted, Early
  <2>2. "needs_input" \in ActiveStages
    BY DEF ActiveStages
  <2> QED
    BY <1>3, <2>1, <2>2
<1>9. ASSUME held[a] # Nothing, Stays(a, "failed")
      PROVE  Held' /\ \A b \in Apps : EndsTruly(b)
  <2>1. "failed" \in EndStages \ Early /\ Told(a, "failed")
    BY DEF EndStages, Early, DocumentStages, Told
  <2> QED
    BY <1>9, <2>1, StaysIt
<1>10. CASE DraftFailed(a)
  BY <1>4, <1>9, <1>10 DEF DraftFailed
<1>11. CASE Render(a)
  <2>1. /\ held[a] # Nothing /\ It(a) \in Items /\ It(a).tries = 0
        /\ Leaves(a, [It(a) EXCEPT !.stage = "rendering", !.docs = "unprinted", !.work = "working"])
    BY <1>2, <1>4, <1>11 DEF Render, Drafted, Early
  <2>2. "rendering" \in ActiveStages
    BY DEF ActiveStages
  <2> DEFINE it == [It(a) EXCEPT !.stage = "rendering", !.docs = "unprinted", !.work = "working"]
  <2>3. it \in Items /\ it.stage = "rendering"
    BY <2>1, <2>2 DEF Items, ItemRow
  <2> HIDE DEF it
  <2>4. Leaves(a, it)
    BY <2>1 DEF it
  <2> QED
    BY <2>1, <2>2, <2>3, <2>4, LeavesIt DEF Told
<1>12. CASE ApplyDocuments(a)
  <2>1. held[a] # Nothing /\ It(a).tries = 0 /\ ApplyFor(a)
    BY <1>2, <1>4, <1>12 DEF ApplyDocuments, Drafted, Early
  <2> QED
    BY <2>1, ApplyForIt DEF MAX_FILL_ATTEMPTS
<1>13. ASSUME NEW statuses, AppliedTo(a, statuses)
       PROVE  held[a] # Nothing /\ Status(a) \in statuses
  BY <1>4, <1>13 DEF AppliedTo
<1>14. CASE AfterFill(a)
  <2>1. CASE AppliedTo(a, SubmittedStatuses) /\ Stays(a, "submitted")
    <3>1. "submitted" \in EndStages \ Early /\ Told(a, "submitted") /\ held[a] # Nothing
      BY <1>13, <2>1 DEF EndStages, Early, DocumentStages, Told
    <3> QED
      BY <2>1, <3>1, StaysIt
  <2>2. CASE AppliedTo(a, ReviewStatuses) /\ Stays(a, "waiting_approval")
    <3>1. "waiting_approval" \in ActiveStages \ Early /\ held[a] # Nothing
      BY <1>13, <2>2 DEF ActiveStages, Early, DocumentStages
    <3> QED
      BY <1>3, <2>2, <3>1
  <2>3. CASE AppliedTo(a, NotSentStatuses) /\ Stays(a, "skipped")
    <3>1. "skipped" \in EndStages \ Early /\ Told(a, "skipped") /\ held[a] # Nothing
      BY <1>13, <2>3 DEF EndStages, Early, DocumentStages, Told
    <3> QED
      BY <2>3, <3>1, StaysIt
  <2>4. CASE AppliedTo(a, ActStatuses) /\ Stays(a, "needs_user_action")
    <3>1. "needs_user_action" \in ActiveStages \ Early /\ held[a] # Nothing
      BY <1>13, <2>4 DEF ActiveStages, Early, DocumentStages
    <3> QED
      BY <1>3, <2>4, <3>1
  <2>5. CASE AppliedTo(a, OtherStatuses) /\ Stays(a, It(a).stage)
    BY <1>2, <1>3, <1>13, <2>5
  <2> QED
    BY <1>14, <2>1, <2>2, <2>3, <2>4, <2>5 DEF AfterFill
<1>15. CASE NeedsUser(a)
  <2>1. "needs_user_action" \in ActiveStages \ Early /\ held[a] # Nothing
    BY <1>13, <1>15 DEF ActiveStages, Early, DocumentStages, NeedsUser
  <2> QED
    BY <1>3, <1>15, <2>1 DEF NeedsUser
<1>16. CASE Refill(a)
  <2>1. held[a] # Nothing /\ It(a).tries \in 0..3
    BY <1>2, <1>13, <1>16, ItemTyped DEF Refill
  <2> QED
    BY <1>9, <1>16, <2>1, ApplyForIt DEF Refill, GivesUp, MAX_FILL_ATTEMPTS
<1>17. CASE FillFailed(a)
  <2>1. held[a] # Nothing /\ It(a).tries \in 0..3
    BY <1>2, <1>13, <1>17, ItemTyped DEF FillFailed
  <2> QED
    BY <1>9, <1>17, <2>1, ApplyForIt DEF FillFailed, MAX_FILL_ATTEMPTS
<1> QED
  BY <1>1, <1>5, <1>6, <1>7, <1>8, <1>10, <1>11, <1>12, <1>14, <1>15, <1>16, <1>17

-----------------------------------------------------------------------------
(* Everyone else *)

\* Positions are shortlisted that have no item yet
LEMMA ShortlistsNew ==
  ASSUME Held, Shortlist
  PROVE  Held' /\ \A b \in Apps : EndsTruly(b)
<1> PICK picked \in SUBSET {a \in Apps : policy.on /\ New(a)} :
      item' = [a \in Apps |-> IF a \in picked THEN [item[a] EXCEPT !.stage = "queued"]
                              ELSE item[a]]
  BY DEF Shortlist
<1>1. /\ UNCHANGED <<policy, held, gate>>
      /\ cycle' \in {"none", "discover", "shortlist", "report", "stopping"}
  BY DEF Shortlist
<1>2. \A a \in picked : item[a].stage = "none" /\ item[a].tries = 0 /\ item[a] \in Items
  BY ItemTyped DEF New, Held, Early
<1>3. "queued" \in ActiveStages
  BY DEF ActiveStages
<1>4. \A a \in picked : /\ [item[a] EXCEPT !.stage = "queued"] \in Items
                        /\ [item[a] EXCEPT !.stage = "queued"].stage = "queued"
  BY <1>2, <1>3, StageSet
<1>5. /\ item' \in [Apps -> Items]
      /\ \A a \in picked : item'[a].stage = "queued"
      /\ \A a \in Apps \ picked : item'[a] = item[a]
  BY <1>4 DEF Held
<1>6. \A a \in Apps : held[a] # Nothing => a \notin picked
  BY <1>2, StagesApart DEF Held
<1>7. Held'
  BY <1>1, <1>5, <1>6 DEF Held
<1>8. \A a \in Apps : item[a].stage \in ActiveStages \cup EndStages \cup {"none"}
  BY ItemTyped DEF Held
<1>9. \A a \in picked : item[a].stage \notin EndStages
  BY <1>2 DEF EndStages
<1> QED
  BY <1>3, <1>5, <1>7, <1>8, <1>9 DEF EndsTruly, Told

\* STOP takes only rows that nobody holds
LEMMA StopsUnheld ==
  ASSUME Held, StopAll
  PROVE  Held' /\ \A b \in Apps : EndsTruly(b)
<1> DEFINE stopped == {a \in Apps : Active(a)}
<1>1. /\ policy' \in PolicyChoices /\ UNCHANGED <<held, gate>>
      /\ cycle' \in {"none", "discover", "shortlist", "report", "stopping"}
      /\ \A a \in stopped : held[a] = Nothing
      /\ item' = [a \in Apps |-> IF a \in stopped
                    THEN [item[a] EXCEPT !.stage = "stopped", !.work = "none"] ELSE item[a]]
  BY DEF StopAll, Unheld
<1>2. \A a \in Apps : /\ [item[a] EXCEPT !.stage = "stopped", !.work = "none"] \in Items
                      /\ [item[a] EXCEPT !.stage = "stopped", !.work = "none"].stage = "stopped"
  <2>1. "stopped" \in EndStages \ Early
    BY DEF EndStages, Early, DocumentStages
  <2> QED
    BY ZenonT(40), <2>1, StageAndWorkSet DEF Held
<1>3. \A a \in stopped : item[a].stage \notin EndStages
  BY StagesApart DEF Active
<1>4. \A a \in Apps : item[a].stage \in ActiveStages \cup EndStages \cup {"none"}
  BY ItemTyped DEF Held
<1> HIDE DEF stopped
<1>5. /\ item' \in [Apps -> Items]
      /\ \A a \in Apps : a \in stopped => item'[a].stage = "stopped"
      /\ \A a \in Apps : a \notin stopped => item'[a] = item[a]
  BY <1>1, <1>2 DEF Held
<1>6. Held'
  BY <1>1, <1>5 DEF Held
<1> QED
  BY <1>3, <1>4, <1>5, <1>6 DEF EndsTruly, Told

LEMMA WorkGoesOn ==
  ASSUME Held, NEW a \in Apps, WorkEnds(a) \/ EditDocuments(a)
  PROVE  Held' /\ \A b \in Apps : EndsTruly(b)
<1>1. item[a] \in Items /\ item \in [Apps -> Items] /\ held[a] = Nothing
      /\ UNCHANGED <<policy, cycle, held, gate>>
  BY DEF Held, WorkEnds, EditDocuments
<1>2. PICK it \in Items : /\ item' = [item EXCEPT ![a] = it]
                          /\ it.stage = item[a].stage /\ it.run = item[a].run
  <2>1. CASE WorkEnds(a)
    <3>1. PICK w \in {"none", "failed"}, d \in Result(item[a]) :
            item' = [item EXCEPT ![a].work = w, ![a].docs = IF w = "failed" THEN @ ELSE d]
      BY <2>1 DEF WorkEnds
    <3>2. d \in {"none", "gaps", "unprinted", "blocked", "ready"}
      BY <1>1, ItemTyped DEF Result
    <3>3. PICK e \in {item[a].docs, d} : item' = [item EXCEPT ![a].work = w, ![a].docs = e]
      BY <1>1, <3>1 DEF Items, ItemRow
    <3>4. e \in {"none", "gaps", "unprinted", "blocked", "ready"}
      BY <1>1, <3>2, ItemTyped
    <3>5. item' = [item EXCEPT ![a] = [item[a] EXCEPT !.work = w, !.docs = e]]
      BY <3>3 DEF Held
    <3> DEFINE new == [item[a] EXCEPT !.work = w, !.docs = e]
    <3>6. new \in Items /\ new.stage = item[a].stage /\ new.run = item[a].run
      BY <1>1, <3>4 DEF Items, ItemRow
    <3> HIDE DEF new
    <3>7. item' = [item EXCEPT ![a] = new]
      BY <3>5 DEF new
    <3> QED
      BY <3>6, <3>7
  <2>2. CASE EditDocuments(a)
    <3>1. PICK d \in {"gaps", "unprinted", "blocked", "ready"} : item' = [item EXCEPT ![a].docs = d]
      BY <2>2 DEF EditDocuments
    <3>2. item' = [item EXCEPT ![a] = [item[a] EXCEPT !.docs = d]]
      BY <1>1, <3>1
    <3> QED
      BY ZenonT(40), <1>1, <3>2, WorkSet
  <2> QED
    BY <2>1, <2>2
<1>3. \A b \in Apps : /\ item'[b].stage = item[b].stage /\ item'[b].run = item[b].run
                      /\ b # a => item'[b] = item[b]
  BY <1>1, <1>2
<1>4. Held'
  BY <1>1, <1>2, <1>3 DEF Held
<1>5. \A b \in Apps : item[b].stage \in ActiveStages \cup EndStages \cup {"none"}
  BY ItemTyped DEF Held
<1> QED
  BY <1>3, <1>4, <1>5 DEF EndsTruly, Told

\* The place of a run that is over is used again by the user
LEMMA UserStartsRun ==
  ASSUME Held, NEW a \in Apps, NEW r \in Runs, UserStarts(r, a)
  PROVE  Held' /\ \A b \in Apps : EndsTruly(b)
<1>1. /\ item' = Without(r, item) /\ held' = Reread(r) /\ UNCHANGED <<policy, cycle>>
      /\ gate' = [gate EXCEPT ![r] = "none"]
  BY DEF UserStarts
<1>2. /\ item' \in [Apps -> Items] /\ held' \in [Apps -> Readings \cup {Nothing}]
      /\ \A b \in Apps : item'[b].stage = item[b].stage
      /\ \A b \in Apps : item'[b].run \in {item[b].run, Nothing}
      /\ \A b \in Apps : held'[b] # Nothing => held[b] # Nothing /\ held'[b].item = item'[b]
  BY <1>1, PlaceAgain
<1>3. gate' \in [Runs -> {"none", "allowed", "ask"}]
  BY <1>1 DEF Held
<1>4. Held'
  BY <1>1, <1>2, <1>3 DEF Held
<1>5. \A b \in Apps : item[b].stage \in ActiveStages \cup EndStages \cup {"none"}
  BY ItemTyped DEF Held
<1> QED
  BY <1>2, <1>4, <1>5 DEF EndsTruly, Told

LEMMA HeldStays ==
  ASSUME Held, [AutopilotNext]_allVars
  PROVE  Held' /\ \A b \in Apps : EndsTruly(b)
<1>1. ASSUME \/ \E p \in PolicyChoices : SavePolicy(p)
             \/ StartCycle \/ Discover \/ CycleEnds
             \/ \E a \in Apps : UserWrites(a)
             \/ \E r \in Runs : AtSite(r) \/ UserControls(r) \/ RecordPolicyApproval(r)
             \/ UNCHANGED allVars
      PROVE  /\ UNCHANGED <<item, held, gate>> /\ policy' \in PolicyChoices
             /\ cycle' \in {"none", "discover", "shortlist", "report", "stopping"}
  BY <1>1 DEF SavePolicy, StartCycle, Discover, CycleEnds, UserWrites,
     RecordPolicyApproval, AtSite, UserControls, own, allVars, Held
<1>2. ASSUME NEW r \in Runs, GateReads(r) \/ RunStep(r) \/ RunInterrupted(r) \/ GateForgotten(r)
      PROVE  /\ UNCHANGED <<policy, cycle, item, held>>
             /\ \E g \in {"none", "allowed", "ask"} : gate' \in {gate, [gate EXCEPT ![r] = g]}
  BY <1>2 DEF GateReads, RunStep, KeepsGate, RunInterrupted, GateForgotten
<1>3. ASSUME NEW r \in Runs, GateReads(r) \/ RunStep(r) \/ RunInterrupted(r) \/ GateForgotten(r)
      PROVE  /\ UNCHANGED <<item, held>> /\ policy' \in PolicyChoices
             /\ cycle' \in {"none", "discover", "shortlist", "report", "stopping"}
             /\ gate' \in [Runs -> {"none", "allowed", "ask"}]
  BY <1>2, <1>3 DEF Held
<1>4. gate \in [Runs -> {"none", "allowed", "ask"}]
  BY DEF Held
<1>5. ASSUME NEW a \in Apps,
             \/ AdvanceBegin(a) \/ AdvanceWaits(a)
             \/ BeginResearch(a) \/ BeginDrafts(a) \/ DraftFailed(a)
             \/ Render(a) \/ AskForInput(a) \/ ApplyDocuments(a)
             \/ AfterFill(a) \/ Refill(a) \/ NeedsUser(a) \/ FillFailed(a)
      PROVE  Held' /\ \A b \in Apps : EndsTruly(b)
  BY <1>5, Reconciles
<1>6. ASSUME NEW a \in Apps, WorkEnds(a) \/ EditDocuments(a) \/ \E r \in Runs : UserStarts(r, a)
      PROVE  Held' /\ \A b \in Apps : EndsTruly(b)
  BY <1>6, WorkGoesOn, UserStartsRun
<1> QED
  BY <1>1, <1>3, <1>4, <1>5, <1>6, Elsewhere, ShortlistsNew, StopsUnheld DEF AutopilotNext

-----------------------------------------------------------------------------
\* STOP, and every other end of an item, is final (application/autopilot.py 257-306, and
\* the row locks of its reconciler), whatever runs, users and cycles do meanwhile.
THEOREM StopStands == AutopilotSpec => StopIsFinal
<1>1. AutopilotInit => Held
  BY HeldStarts
<1>2. Held /\ [AutopilotNext]_allVars => Held'
  BY HeldStays
<1>3. Held /\ [AutopilotNext]_allVars =>
        [\A a \in Apps : item[a].stage \in EndStages => item'[a].stage = item[a].stage]_allVars
  BY HeldStays DEF EndsTruly
<1> QED
  BY <1>1, <1>2, <1>3, PTL DEF AutopilotSpec, StopIsFinal

-----------------------------------------------------------------------------
(* What the autopilot does to applications and browser runs *)

\* All of it is what applications and browser runs do without it, but for STOP, the
\* standing approval and the reconciler's start of a run
LEMMA AsWithoutIt ==
  ASSUME [AutopilotNext]_allVars
  PROVE  \/ [Next]_vars
         \/ StopAll
         \/ \E r \in Runs : RecordPolicyApproval(r)
         \/ \E a \in Apps : held[a] # Nothing /\ ApplyFor(a)
<1>1. ASSUME \/ \E p \in PolicyChoices : SavePolicy(p)
             \/ StartCycle \/ Discover \/ Shortlist \/ CycleEnds
             \/ \E r \in Runs : GateReads(r) \/ GateForgotten(r)
             \/ UNCHANGED allVars
      PROVE  UNCHANGED vars
  BY <1>1 DEF SavePolicy, StartCycle, Discover, Shortlist, CycleEnds, GateReads, GateForgotten,
     allVars
<1>2. ASSUME NEW a \in Apps,
             \/ AdvanceBegin(a) \/ AdvanceWaits(a) \/ BeginResearch(a) \/ BeginDrafts(a)
             \/ DraftFailed(a) \/ Render(a) \/ AskForInput(a) \/ AfterFill(a) \/ NeedsUser(a)
             \/ WorkEnds(a) \/ EditDocuments(a)
      PROVE  UNCHANGED vars
  BY <1>2 DEF AdvanceBegin, AdvanceWaits, BeginResearch, BeginDrafts, DraftFailed, Render,
     AskForInput, AfterFill, NeedsUser, WorkEnds, EditDocuments, Stays
<1>3. ASSUME NEW a \in Apps, ApplyDocuments(a) \/ Refill(a) \/ FillFailed(a)
      PROVE  UNCHANGED vars \/ (held[a] # Nothing /\ ApplyFor(a))
  BY <1>3 DEF ApplyDocuments, Refill, FillFailed, Stays, Drafted, AppliedTo, At, Settled
<1>4. ASSUME NEW a \in Apps, UserWrites(a)
      PROVE  UserOnApplication(a)
  BY <1>4, AutopilotAssumption DEF UserWrites, UserOnApplication
<1>5. ASSUME NEW r \in Runs,
             \/ RunStep(r) \/ RunInterrupted(r) \/ AtSite(r) \/ UserControls(r)
             \/ \E a \in Apps : UserStarts(r, a)
      PROVE  Step(r) \/ Site(r) \/ RuntimeStep(r) \/ UserOnRun(r)
  BY <1>5, Zenon DEF RunStep, RunInterrupted, AtSite, UserControls, UserStarts, UserOnRun
<1>6. CASE UNCHANGED allVars
  BY <1>1, <1>6
<1>7. CASE AutopilotNext
  <2>1. ASSUME NEW a \in Apps,
               \/ AdvanceBegin(a) \/ AdvanceWaits(a) \/ BeginResearch(a) \/ BeginDrafts(a)
               \/ DraftFailed(a) \/ Render(a) \/ AskForInput(a) \/ ApplyDocuments(a)
               \/ AfterFill(a) \/ Refill(a) \/ NeedsUser(a) \/ FillFailed(a)
               \/ WorkEnds(a) \/ EditDocuments(a) \/ UserWrites(a)
        PROVE  [Next]_vars \/ (held[a] # Nothing /\ ApplyFor(a))
    BY <1>2, <1>3, <1>4, <2>1 DEF Next
  <2>2. ASSUME NEW r \in Runs,
               \/ GateReads(r)
               \/ RunStep(r) \/ RunInterrupted(r) \/ GateForgotten(r) \/ AtSite(r)
               \/ UserControls(r) \/ \E a \in Apps : UserStarts(r, a)
        PROVE  [Next]_vars
    BY <1>1, <1>5, <2>2 DEF Next
  <2> QED
    BY <1>1, <1>7, <2>1, <2>2 DEF AutopilotNext
<1> QED
  BY <1>6, <1>7

\* The rows of the runs that STOP reaches: a run is told to stop or is cancelled at once
LEMMA StopRows ==
  ASSUME TypeOK, StopAll
  PROVE  /\ run' \in [Runs -> RunRow] /\ approval' \in [Runs -> Approvals]
         /\ UNCHANGED <<app, ledger, thread, sent, denied>>
         /\ \A q \in Runs :
              /\ run'[q].app = run[q].app /\ run'[q].at = run[q].at
              /\ run'[q].inputs = run[q].inputs /\ run'[q].digest = run[q].digest
              /\ run'[q].shown = run[q].shown /\ run'[q].refilled = run[q].refilled
              /\ \/ run'[q].state = run[q].state
                 \/ run'[q].state = "cancelling" /\ run[q].state = "live"
                 \/ run'[q].state = "cancelled" /\ run[q].state \in {"live", "waiting"}
              /\ run'[q].state = "cancelled" =>
                   run[q].state = "cancelled" \/ run[q].at \notin {"filling", "entering", "sending"}
                                              \/ run[q].state = "waiting"
              /\ approval'[q] = approval[q] \/ approval'[q] = "cancelled"
         /\ \A a \in Apps : Active(a) /\ item[a].run \in Runs =>
              run'[item[a].run].state \notin {"live", "waiting"}
<1> DEFINE stopped == {a \in Apps : Active(a)}
           runs    == Reached(stopped)
           working == {r \in runs : run[r].state = "live"}
<1>1. PICK later \in SUBSET working :
        /\ {r \in working : run[r].at \in {"filling", "entering", "sending"}} \subseteq later
        /\ run' = [r \in Runs |->
             IF r \notin runs THEN run[r]
             ELSE [run[r] EXCEPT !.state = IF r \in later THEN "cancelling"
                                           ELSE "cancelled"]]
        /\ approval' = [r \in Runs |->
             IF r \in runs \ later /\ approval[r] = "pending" THEN "cancelled"
             ELSE approval[r]]
  BY DEF StopAll
<1>2. UNCHANGED <<app, ledger, thread, sent, denied>>
  BY DEF StopAll
<1>3. /\ \A q \in runs : q \in Runs /\ run[q].state \in {"live", "waiting"}
      /\ \A q \in runs : q \in working <=> run[q].state = "live"
      /\ \A q \in later : q \in working
      /\ \A q \in working : run[q].at \in {"filling", "entering", "sending"} => q \in later
  BY <1>1 DEF Reached
<1>4. \A a \in Apps : Active(a) /\ item[a].run \in Runs
                      /\ run[item[a].run].state \in {"live", "waiting"} => item[a].run \in runs
  BY DEF Reached
<1> HIDE DEF runs, working, stopped
<1>5. ASSUME NEW q \in Runs, NEW s \in {"cancelling", "cancelled"}
      PROVE  /\ [run[q] EXCEPT !.state = s] \in RunRow
             /\ [run[q] EXCEPT !.state = s].state = s
             /\ [run[q] EXCEPT !.state = s].app = run[q].app
             /\ [run[q] EXCEPT !.state = s].at = run[q].at
             /\ [run[q] EXCEPT !.state = s].inputs = run[q].inputs
             /\ [run[q] EXCEPT !.state = s].digest = run[q].digest
             /\ [run[q] EXCEPT !.state = s].shown = run[q].shown
             /\ [run[q] EXCEPT !.state = s].refilled = run[q].refilled
  BY DEF TypeOK, RunRow, RunStates
<1>6. \A q \in Runs : /\ q \notin runs => run'[q] = run[q]
                      /\ q \in runs /\ q \in later =>
                           run'[q] = [run[q] EXCEPT !.state = "cancelling"]
                      /\ q \in runs /\ q \notin later =>
                           run'[q] = [run[q] EXCEPT !.state = "cancelled"]
  BY <1>1
<1>7. \A q \in Runs : run[q] \in RunRow
  BY DEF TypeOK
<1>8. run' \in [Runs -> RunRow]
  <2>1. \A q \in Runs : run'[q] \in RunRow
    BY <1>5, <1>6, <1>7
  <2>2. \A q \in Runs : (IF q \notin runs THEN run[q]
                         ELSE [run[q] EXCEPT !.state = IF q \in later THEN "cancelling"
                                                       ELSE "cancelled"]) = run'[q]
    BY <1>1
  <2> QED
    BY <1>1, <2>1, <2>2
<1>9. approval' \in [Runs -> Approvals]
      /\ \A q \in Runs : approval'[q] = approval[q] \/ approval'[q] = "cancelled"
  BY <1>1 DEF TypeOK, Approvals
<1>10. ASSUME NEW q \in Runs
       PROVE  /\ run'[q].app = run[q].app /\ run'[q].at = run[q].at
              /\ run'[q].inputs = run[q].inputs /\ run'[q].digest = run[q].digest
              /\ run'[q].shown = run[q].shown /\ run'[q].refilled = run[q].refilled
              /\ \/ run'[q].state = run[q].state /\ q \notin runs
                 \/ run'[q].state = "cancelling" /\ run[q].state = "live"
                 \/ run'[q].state = "cancelled" /\ run[q].state \in {"live", "waiting"}
              /\ run'[q].state = "cancelled" =>
                   run[q].state = "cancelled" \/ run[q].at \notin {"filling", "entering", "sending"}
                                              \/ run[q].state = "waiting"
  <2>1. CASE q \notin runs
    BY <1>6, <2>1
  <2>2. CASE q \in runs /\ q \in later
    <3>1. run'[q] = [run[q] EXCEPT !.state = "cancelling"] /\ run[q].state = "live"
      BY <1>3, <1>6, <2>2
    <3> QED
      BY <1>5, <3>1
  <2>3. CASE q \in runs /\ q \notin later
    <3>1. run'[q] = [run[q] EXCEPT !.state = "cancelled"] /\ run[q].state \in {"live", "waiting"}
          /\ (run[q].state = "waiting" \/ run[q].at \notin {"filling", "entering", "sending"})
      BY <1>3, <1>6, <2>3
    <3> QED
      BY <1>5, <3>1
  <2> QED
    BY <2>1, <2>2, <2>3
<1>11. \A a \in Apps : Active(a) /\ item[a].run \in Runs =>
              run'[item[a].run].state \notin {"live", "waiting"}
  BY <1>4, <1>10
<1> QED
  BY <1>2, <1>8, <1>9, <1>10, <1>11

-----------------------------------------------------------------------------
(* What is sent, also with an autopilot *)

LEMMA StopDelivers ==
  ASSUME Delivery, StopAll
  PROVE  Delivery'
<1>1. TypeOK /\ Alone /\ AtRest /\ ThreadsAwaited
  BY DEF Delivery
<1>2. /\ run' \in [Runs -> RunRow] /\ approval' \in [Runs -> Approvals]
      /\ UNCHANGED <<app, ledger, thread, sent, denied>>
      /\ \A q \in Runs :
           /\ run'[q].app = run[q].app /\ run'[q].at = run[q].at
           /\ \/ run'[q].state = run[q].state
              \/ run'[q].state = "cancelling" /\ run[q].state = "live"
              \/ run'[q].state = "cancelled" /\ run[q].state \in {"live", "waiting"}
           /\ run'[q].state = "cancelled" =>
                run[q].state = "cancelled" \/ run[q].at \notin {"filling", "entering", "sending"}
                                           \/ run[q].state = "waiting"
  BY <1>1, StopRows
<1>3. TypeOK'
  BY <1>1, <1>2 DEF TypeOK
<1>4. \A q \in Runs : Busy(q)' => Busy(q)
  BY <1>2 DEF Busy, Ended
<1>5. Alone' /\ AtRest'
  BY <1>1, <1>2, <1>4 DEF Alone, AtRest
<1>6. \A q \in Runs : /\ Filling(q)' => Filling(q)
                      /\ Submitting(q)' => Submitting(q)
                      /\ Sending(q)' => Sending(q) /\ (Refusing(q)' => Refusing(q))
                      /\ MayPress(q)' = MayPress(q)
  BY <1>2 DEF Filling, Submitting, Sending, Executing, Refusing, MayPress
<1>7. ThreadsAwaited'
  BY <1>1, <1>2 DEF ThreadsAwaited, Sending, Executing
<1> QED
  BY <1>2, <1>3, <1>5, <1>6, <1>7, Quiet DEF Status

LEMMA StopShows ==
  ASSUME Shown, StopAll
  PROVE  Shown'
<1>1. TypeOK /\ AtRest /\ ThreadsAwaited /\ \A q \in Runs : Shows(q)
  BY DEF Shown
<1>2. /\ run' \in [Runs -> RunRow] /\ approval' \in [Runs -> Approvals]
      /\ UNCHANGED <<app, ledger, thread, sent, denied>>
      /\ \A q \in Runs :
           /\ run'[q].app = run[q].app /\ run'[q].at = run[q].at
           /\ run'[q].inputs = run[q].inputs /\ run'[q].digest = run[q].digest
           /\ run'[q].shown = run[q].shown /\ run'[q].refilled = run[q].refilled
           /\ \/ run'[q].state = run[q].state
              \/ run'[q].state = "cancelling" /\ run[q].state = "live"
              \/ run'[q].state = "cancelled" /\ run[q].state \in {"live", "waiting"}
           /\ run'[q].state = "cancelled" =>
                run[q].state = "cancelled" \/ run[q].at \notin {"filling", "entering", "sending"}
                                           \/ run[q].state = "waiting"
           /\ approval'[q] = approval[q] \/ approval'[q] = "cancelled"
  BY <1>1, StopRows
<1>3. TypeOK'
  BY <1>1, <1>2 DEF TypeOK
<1>4. AtRest'
  BY <1>1, <1>2 DEF AtRest
<1>5. ThreadsAwaited'
  BY <1>1, <1>2 DEF ThreadsAwaited, Sending, Executing
<1>6. \A q \in Runs : Shows(q)'
  BY <1>1, <1>2 DEF Shows, Filling, Executing
<1> QED
  BY <1>3, <1>4, <1>5, <1>6 DEF Shown

\* The standing approval of the gate shows no request
LEMMA GrantKeeps ==
  ASSUME NEW r \in Runs, RecordPolicyApproval(r)
  PROVE  /\ Delivery => Delivery'
         /\ Shown => Shown'
<1>1. /\ UNCHANGED <<app, run, ledger, thread, sent, denied>>
      /\ approval' = [approval EXCEPT ![r] = "policy"] /\ approval[r] = "none"
  BY DEF RecordPolicyApproval
<1>2. TypeOK => TypeOK'
  BY <1>1 DEF TypeOK, Approvals
<1>3. ASSUME Delivery PROVE Delivery'
  <2>1. TypeOK' /\ Alone' /\ AtRest' /\ ThreadsAwaited'
    BY <1>1, <1>2, <1>3 DEF Delivery, Alone, AtRest, ThreadsAwaited, Busy, Sending, Executing
  <2> QED
    BY <1>1, <1>3, <2>1, Quiet DEF MayPress, Filling, Sending, Submitting, Executing, Refusing, Status
<1>4. ASSUME Shown PROVE Shown'
  <2>1. \A q \in Runs : approval'[q] \in {approval[q], "policy"}
    BY <1>1, <1>4 DEF Shown, TypeOK
  <2>2. \A q \in Runs : Shows(q)'
    BY <1>1, <1>4, <2>1 DEF Shown, Shows, Filling, Executing
  <2> QED
    BY <1>1, <1>2, <1>4, <2>2 DEF Shown, AtRest, ThreadsAwaited, Sending, Executing
<1> QED
  BY <1>3, <1>4

\* The reconciler's start of a run creates the application when there is none
LEMMA ApplyForKeeps ==
  ASSUME TypeOK, NEW a \in Apps, ApplyFor(a)
  PROVE  /\ app' \in [Apps -> AppRow] /\ UNCHANGED <<thread, sent, denied>>
         /\ \A b \in Apps : /\ app'[b].form = app[b].form
                            /\ \/ app'[b] = app[b]
                               \/ app[b].status = "absent" /\ app'[b].status = "preparing"
                            /\ app'[b].submitted = app[b].submitted
         /\ UNCHANGED <<run, approval, ledger>> \/ \E r \in Runs : NewRun(r, a, "apply", TRUE)
<1>1. PICK new \in Application(a) :
        /\ app' = [app EXCEPT ![a] = new] /\ UNCHANGED <<thread, sent, denied>>
        /\ UNCHANGED <<run, approval, ledger>> \/ \E r \in Runs : NewRun(r, a, "apply", TRUE)
  BY Zenon DEF ApplyFor
<1>2. app[a] \in AppRow
  BY DEF TypeOK
<1>3. ASSUME NEW u \in BOOLEAN, NEW v \in Answers
      PROVE  /\ Created(a, u, v) \in AppRow /\ Created(a, u, v).form = app[a].form
             /\ Created(a, u, v).status = "preparing"
             /\ Created(a, u, v).submitted = app[a].submitted
  BY <1>2 DEF AppRow, ApplicationStatus, Created
<1>4. /\ new \in AppRow /\ new.form = app[a].form /\ new.submitted = app[a].submitted
      /\ new = app[a] \/ (app[a].status = "absent" /\ new.status = "preparing")
  <2>1. CASE Exists(a)
    <3>1. Application(a) = {app[a]}
      BY <2>1 DEF Application
    <3>2. new = app[a]
      BY <3>1, Zenon
    <3> QED
      BY <1>2, <3>2
  <2>2. CASE ~Exists(a)
    <3>1. PICK u \in BOOLEAN, v \in Answers :
            new = Created(a, u, v)
      BY <2>2 DEF Application
    <3> QED
      BY <1>3, <2>2, <3>1 DEF Exists
  <2> QED
    BY <2>1, <2>2
<1>5. /\ app' \in [Apps -> AppRow] /\ app'[a] = new
      /\ \A b \in Apps \ {a} : app'[b] = app[b]
  BY <1>1, <1>4 DEF TypeOK
<1>6. \A b \in Apps :
        /\ app'[b].form = app[b].form /\ app'[b].submitted = app[b].submitted
        /\ \/ app'[b] = app[b]
           \/ app[b].status = "absent" /\ app'[b].status = "preparing"
  BY <1>4, <1>5
<1> QED
  BY <1>1, <1>5, <1>6

LEMMA ApplyForDelivers ==
  ASSUME ~Overlapping, Delivery, NEW a \in Apps, ApplyFor(a)
  PROVE  Delivery'
<1>1. TypeOK
  BY DEF Delivery
<1>2. /\ app' \in [Apps -> AppRow] /\ UNCHANGED <<thread, sent, denied>>
      /\ \A b \in Apps : app'[b] = app[b] \/ app[b].status = "absent"
  BY <1>1, ApplyForKeeps
<1>3. \A b \in Apps : Status(b) \in Out => app'[b].status \in Out
  BY <1>2 DEF Status, Out
<1>4. CASE UNCHANGED <<run, approval, ledger>>
  <2>1. TypeOK'
    BY <1>1, <1>2, <1>4 DEF TypeOK
  <2>2. Alone' /\ AtRest' /\ ThreadsAwaited'
    BY <1>2, <1>4 DEF Delivery, Alone, AtRest, ThreadsAwaited, Busy, Sending, Executing
  <2> QED
    BY <1>2, <1>3, <1>4, <2>1, <2>2, Quiet DEF MayPress, Filling, Sending, Submitting, Executing, Refusing
<1>5. CASE \E r \in Runs : NewRun(r, a, "apply", TRUE)
  BY <1>2, <1>3, <1>5, NewRunDelivers
<1> QED
  BY <1>1, <1>4, <1>5, ApplyForKeeps

LEMMA ApplyForShows ==
  ASSUME Shown, NEW a \in Apps, ApplyFor(a)
  PROVE  Shown'
<1>1. TypeOK
  BY DEF Shown
<1>2. /\ app' \in [Apps -> AppRow] /\ UNCHANGED <<thread, sent, denied>>
      /\ \A b \in Apps : app'[b].form = app[b].form
  BY <1>1, ApplyForKeeps
<1>3. CASE UNCHANGED <<run, approval, ledger>>
  <2>1. TypeOK' /\ \A q \in Runs : run[q].app \in Apps
    BY <1>1, <1>2, <1>3, RunTyped DEF TypeOK
  <2>2. \A q \in Runs : Shows(q)'
    BY <1>2, <1>3, <2>1 DEF Shown, Shows, Filling, Executing
  <2> QED
    BY <1>2, <1>3, <2>1, <2>2 DEF Shown, AtRest, ThreadsAwaited, Sending, Executing
<1>4. CASE \E r \in Runs : NewRun(r, a, "apply", TRUE)
  BY <1>2, <1>4, NewRunShows
<1> QED
  BY <1>1, <1>3, <1>4, ApplyForKeeps

LEMMA DeliveryGoesOn ==
  ~Overlapping /\ Delivery /\ [AutopilotNext]_allVars => Delivery'
BY AsWithoutIt, DeliveryStays, StopDelivers, GrantKeeps, ApplyForDelivers

LEMMA ShownGoesOn == Shown /\ [AutopilotNext]_allVars => Shown'
BY AsWithoutIt, ShownStays, StopShows, GrantKeeps, ApplyForShows

\* The rows of the autopilot, its applications and their runs are what their columns
\* admit; a run is started at most MAX_FILL_ATTEMPTS times for an item.
THEOREM AutopilotTypes == AutopilotSpec => []AutopilotTypeOK
<1>1. AutopilotInit => Held /\ Shown
  BY HeldStarts, ShownStarts DEF AutopilotInit
<1>2. Held /\ Shown /\ [AutopilotNext]_allVars => Held' /\ Shown'
  BY HeldStays, ShownGoesOn
<1>3. Held /\ Shown => AutopilotTypeOK
  BY ItemTyped DEF Held, Shown, AutopilotTypeOK, Readings
<1> QED
  BY <1>1, <1>2, <1>3, PTL DEF AutopilotSpec

\* An autopilot changes nothing of the promise that a form is sent once: it starts runs of
\* its own and approves them in the user's place (_apply and the approve step), again
\* when no two runs of one application are at work together.
THEOREM AutopilotSendsOnce == ~Overlapping => (AutopilotSpec => []SubmittedOnce)
<1> SUFFICES ASSUME ~Overlapping PROVE AutopilotSpec => []SubmittedOnce
  OBVIOUS
<1>1. AutopilotInit => Delivery
  BY DeliveryStarts DEF AutopilotInit
<1>2. Delivery /\ [AutopilotNext]_allVars => Delivery'
  BY DeliveryGoesOn
<1> QED
  BY <1>1, <1>2, DeliveryPromises, PTL DEF AutopilotSpec

\* "Skipped" is told of an application that nothing was sent for: the stage comes from
\* its status (application/autopilot.py 808-818), and a form that was sent keeps the
\* application away from that status.
THEOREM SkippedWasNotSent == ~Overlapping => (AutopilotSpec => SkippedMeansNotSent)
<1> SUFFICES ASSUME ~Overlapping PROVE AutopilotSpec => SkippedMeansNotSent
  OBVIOUS
<1>1. AutopilotInit => Held /\ Delivery
  BY HeldStarts, DeliveryStarts DEF AutopilotInit
<1>2. Held /\ Delivery /\ [AutopilotNext]_allVars => Held' /\ Delivery'
  BY HeldStays, DeliveryGoesOn
<1>3. ASSUME Held, Delivery, [AutopilotNext]_allVars, NEW a \in Apps,
             item'[a].stage = "skipped", item[a].stage # "skipped", ~denied[a]
      PROVE  sent[a] = 0
  <2>1. EndsTruly(a)
    BY <1>3, HeldStays
  <2>2. Status(a) \in NotSentStatuses
    BY <1>3, <2>1 DEF EndsTruly, Told, ActiveStages, EndStages
  <2>3. Status(a) \notin Out
    BY <2>2 DEF NotSentStatuses, Out
  <2>4. sent[a] \in Nat /\ ~(sent[a] > 0)
    BY <1>3, <2>3, ApplicationAssumption DEF Delivery, Delivered, SentRecorded, TypeOK
  <2> QED
    BY <2>4
<1>4. Held /\ Delivery /\ [AutopilotNext]_allVars =>
        [\A a \in Apps : item'[a].stage = "skipped" /\ item[a].stage # "skipped" =>
           sent[a] = 0 \/ denied[a]]_allVars
  BY <1>3
<1> QED
  BY <1>1, <1>2, <1>4, PTL DEF AutopilotSpec, SkippedMeansNotSent

-----------------------------------------------------------------------------
(* STOP and the runs *)

\* A run that is told to stop is not seen at work again
LEMMA CancelGoesOn ==
  ASSUME TypeOK, [AutopilotNext]_allVars
  PROVE  \A r \in Runs : CancelHolds(r)
<1>1. ASSUME StopAll PROVE \A r \in Runs : CancelHolds(r)
  <2>1. \A q \in Runs : \/ run'[q].state = run[q].state
                        \/ run'[q].state = "cancelling" \/ run'[q].state = "cancelled"
    BY <1>1, StopRows
  <2> QED
    BY <2>1 DEF CancelHolds, Ended
<1>2. ASSUME UNCHANGED run PROVE \A r \in Runs : CancelHolds(r)
  BY <1>2 DEF CancelHolds
<1>3. ASSUME NEW r \in Runs, RecordPolicyApproval(r) PROVE UNCHANGED run
  BY <1>3 DEF RecordPolicyApproval
<1>4. ASSUME NEW a \in Apps, ApplyFor(a) PROVE \A r \in Runs : CancelHolds(r)
  <2>1. UNCHANGED <<run, approval, ledger>> \/ \E r \in Runs : NewRun(r, a, "apply", TRUE)
    BY <1>4, ApplyForKeeps
  <2>2. ASSUME NEW r \in Runs, NewRun(r, a, "apply", TRUE) PROVE \A q \in Runs : CancelHolds(q)
    BY <2>2, NewRunCancelHolds
  <2> QED
    BY <1>2, <2>1, <2>2
<1> QED
  BY <1>1, <1>2, <1>3, <1>4, AsWithoutIt, CancelStands

\* STOP reaches the runs of the items it stops (application/autopilot.py 257-306), also
\* those that are at work: they end or go on being told to, and none is resumed.
THEOREM StopReaches == AutopilotSpec => StopReachesRuns
<1>1. AutopilotInit => Held /\ Shown
  BY HeldStarts, ShownStarts DEF AutopilotInit
<1>2. Held /\ Shown /\ [AutopilotNext]_allVars => Held' /\ Shown'
  BY HeldStays, ShownGoesOn
<1>3. ASSUME Held, Shown, [AutopilotNext]_allVars, NEW a \in Apps, AtWorkForStopped(a)',
             run[item[a].run].state \notin Ended
      PROVE  AtWorkForStopped(a)
  <2>1. /\ item'[a].stage = "stopped" /\ item'[a].run # Nothing
        /\ run'[item'[a].run].state \in {"live", "waiting"}
    BY <1>3 DEF AtWorkForStopped
  <2>2. EndsTruly(a) /\ TypeOK /\ \A r \in Runs : CancelHolds(r)
    BY <1>3, HeldStays, CancelGoesOn DEF Shown
  <2>3. /\ item[a] \in Items /\ item[a].run \in Runs \cup {Nothing}
        /\ item[a].stage \in ActiveStages \cup EndStages \cup {"none"}
    BY <1>3, ItemTyped DEF Held
  <2>4. CASE item[a].stage \in EndStages
    <3>1. item[a].stage = "stopped" /\ item'[a].run = item[a].run /\ item[a].run \in Runs
      BY <2>1, <2>2, <2>3, <2>4 DEF EndsTruly
    <3>2. run[item[a].run].state \in RunStates /\ run[item[a].run].state # "cancelling"
      BY <2>1, <2>2, <3>1, RunTyped DEF CancelHolds, Ended
    <3> QED
      BY <1>3, <2>1, <3>1, <3>2 DEF AtWorkForStopped, RunStates, Ended
  <2>5. CASE item[a].stage \notin EndStages
    <3>1. StopAll
      BY <2>1, <2>2, <2>5 DEF EndsTruly, Told, ActiveStages
    <3>2. item' = [b \in Apps |-> IF b \in {c \in Apps : Active(c)}
                     THEN [item[b] EXCEPT !.stage = "stopped", !.work = "none"] ELSE item[b]]
      BY <3>1 DEF StopAll
    <3>3. [item[a] EXCEPT !.stage = "stopped", !.work = "none"].run = item[a].run
      BY <2>3 DEF Items, ItemRow
    <3>4. Active(a) /\ item'[a].run = item[a].run
      <4>1. CASE Active(a)
        BY <3>2, <3>3, <4>1
      <4>2. CASE ~Active(a)
        <5>1. item'[a] = item[a]
          BY <3>2, <4>2
        <5> QED
          BY <2>1, <2>5, <5>1 DEF EndStages
      <4> QED
        BY <4>1, <4>2
    <3>5. item[a].run \in Runs
      BY <2>1, <2>3, <3>4
    <3> QED
      BY <2>1, <2>2, <3>1, <3>4, <3>5, StopRows
  <2> QED
    BY <2>4, <2>5
<1>4. Held /\ Shown /\ [AutopilotNext]_allVars =>
        [\A a \in Apps : AtWorkForStopped(a)' =>
           AtWorkForStopped(a) \/ run[item[a].run].state \in Ended]_allVars
  BY <1>3
<1> QED
  BY <1>1, <1>2, <1>4, PTL DEF AutopilotSpec, StopReachesRuns

-----------------------------------------------------------------------------
(* "Submitted" *)

LEMMA DatedGoesOn ==
  ASSUME TypeOK, Dated, [AutopilotNext]_allVars
  PROVE  Dated' /\ KeepsDate
<1>1. ASSUME UNCHANGED app PROVE Dated' /\ KeepsDate
  BY <1>1 DEF Dated, KeepsDate
<1>2. StopAll => UNCHANGED app
  BY DEF StopAll
<1>3. ASSUME NEW r \in Runs, RecordPolicyApproval(r) PROVE UNCHANGED app
  BY <1>3 DEF RecordPolicyApproval
<1>4. ASSUME NEW a \in Apps, ApplyFor(a) PROVE Dated' /\ KeepsDate
  <2>1. \A b \in Apps : /\ \/ app'[b] = app[b]
                           \/ app[b].status = "absent" /\ app'[b].status = "preparing"
                        /\ app'[b].submitted = app[b].submitted
    BY <1>4, ApplyForKeeps
  <2> QED
    BY <2>1 DEF Dated, KeepsDate, Sent
<1> QED
  BY <1>1, <1>2, <1>3, <1>4, AsWithoutIt, DatedStays

\* "Submitted" is told of an application that is recorded as submitted, with the time it
\* was (application/autopilot.py 808-812), whoever changes its status later.
THEOREM SubmittedWasRecorded == AutopilotSpec => []SubmittedIsRecorded
<1> DEFINE Inv == Held /\ Shown /\ Dated /\ SubmittedIsRecorded
<1>1. AutopilotInit => Inv
  <2>1. AutopilotInit => SubmittedIsRecorded
    BY DEF AutopilotInit, SubmittedIsRecorded
  <2> QED
    BY <2>1, HeldStarts, ShownStarts, DatedStarts DEF AutopilotInit
<1>2. ASSUME Inv, [AutopilotNext]_allVars PROVE Inv'
  <2>1. TypeOK /\ Held' /\ Shown' /\ \A b \in Apps : EndsTruly(b)
    BY <1>2, HeldStays, ShownGoesOn DEF Shown
  <2>2. Dated' /\ KeepsDate
    BY <1>2, <2>1, DatedGoesOn
  <2>3. ASSUME NEW a \in Apps, item'[a].stage = "submitted"
        PROVE  app[a].submitted
    <3>1. CASE item[a].stage = "submitted"
      BY <1>2, <3>1 DEF SubmittedIsRecorded
    <3>2. CASE item[a].stage # "submitted"
      <4>1. Status(a) \in SubmittedStatuses
        BY <2>1, <2>3, <3>2 DEF EndsTruly, Told, ActiveStages
      <4> QED
        BY <1>2, <4>1 DEF Dated, Status, SubmittedStatuses, Sent
    <3> QED
      BY <3>1, <3>2
  <2>4. SubmittedIsRecorded'
    BY <2>2, <2>3 DEF SubmittedIsRecorded, KeepsDate
  <2> QED
    BY <2>1, <2>2, <2>4
<1> QED
  BY <1>1, <1>2, PTL DEF AutopilotSpec
=============================================================================
