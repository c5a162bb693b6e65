------------------------------- MODULE Drafts -------------------------------
(***************************************************************************)
(* What a model writes for the user: letters and emails, the profile        *)
(* summary and the list of skills (agents/draft_document.py,                *)
(* profile_summary.py, skill_discovery.py), the documents that come of it   *)
(* (application/generated_documents.py) and their files.                    *)
(*                                                                          *)
(* One run writes at a time; its nodes are actions, and a worker that dies  *)
(* runs the node again.  An entry is "usable" when it is accepted and not   *)
(* private, "withheld" otherwise; the text of a CV document, which skills   *)
(* are looked for in, stands beside them as one more.  A sentence of an     *)
(* answer is what the verifier looks at: its kind, the entries it cites,    *)
(* and whether it has a figure its sources lack.  What a completion costs   *)
(* is left out, and with it the usage that is recorded.                     *)
(***************************************************************************)
EXTENDS Naturals, FiniteSets

CONSTANTS
  Entries,        \* profile entries, two of which the runs below create,
  SummaryEntry, SkillEntry,
  CvText,         \* and what a CV document says (bound: it stays)
  DeviceModels,   \* the models on this device
  Models,         \* all the models the user may make the standard one
  Sentences,      \* bound: what answers are made of
  MaxVersions,    \* bound: versions of a document
  MaxSwitches,    \* bound: changes of the standard model
  NoModel

VARIABLES
  fact,     \* profile_facts: what a run may use of them
  standard,  \* provider_configs: the default one
  switches,  \* how often it was changed
  writer,    \* the run
  request,   \* its approval request
  call,      \* what it last sent to a model
  produced,  \* what the run has saved: how often, and whether it was deleted early
  generated,  \* generated_documents and its versions
  renders    \* renderings under way: the run's own, and one asked for

draftVars == <<fact, standard, switches, writer, request, call, produced, generated,
               renders>>

EntryStates == {"gone", "withheld", "usable"}
Kinds       == {"letter", "resume", "summary", "skills"}
Nodes       == {"gather", "assemble", "consent", "draft", "verify", "save", "render"}

NoRun      == [at |-> "ended", kind |-> "letter", facts |-> {}, known |-> {},
               answer |-> {}, since |-> 0, made |-> FALSE, again |-> FALSE]
NoRequest  == [status |-> "none", model |-> NoModel, facts |-> {}]
NoCall     == [model |-> NoModel, beyond |-> {}, agreed |-> "none",
               named |-> NoModel, switched |-> FALSE, again |-> FALSE]
\* rendered: the versions that list files; lost: those of them whose files are unlinked
NoDocument == [here |-> FALSE, current |-> 0, rendered |-> {}, lost |-> {},
               deleting |-> FALSE]
NoRender   == [at |-> "none", version |-> 1]
\* times: bound, often counts as twice; early: the user deleted what was saved before the
\* run, or a rerun of it, was past its save
NothingYet == [times |-> 0, early |-> FALSE]

DraftsTypeOK ==
  /\ fact \in [Entries -> EntryStates]
  /\ standard \in Models /\ switches \in 0..MaxSwitches
  /\ writer.at \in Nodes \cup {"waiting", "asked", "repair", "saved", "declined",
                             "failed", "ended"}
  /\ writer.kind \in Kinds /\ writer.facts \subseteq Entries /\ writer.known \subseteq Entries
  /\ writer.answer \subseteq Sentences
  /\ request.status \in {"none", "pending", "approved", "rejected"}
  /\ call.model \in Models \cup {NoModel} /\ call.beyond \subseteq Entries
  /\ produced \in [times : 0..2, early : BOOLEAN]
  /\ generated.current \in 0..MaxVersions
  /\ generated.lost \subseteq generated.rendered
  /\ generated.rendered \subseteq 1..generated.current
  /\ \A p \in {"run", "user"} : renders[p].at \in {"none", "asked", "read"}

DraftsInit ==
  /\ fact = [e \in Entries |-> CASE e \in {SummaryEntry, SkillEntry} -> "gone"
                                 [] e = CvText -> "usable"
                                 [] OTHER -> "withheld"]
  /\ standard \in Models /\ switches = 0
  /\ writer = NoRun /\ request = NoRequest
  /\ call = NoCall /\ produced = NothingYet
  /\ generated = NoDocument
  /\ renders = [p \in {"run", "user"} |-> NoRender]

sourceVars == <<fact, standard, switches>>
filesVars   == <<produced, generated, renders>>

Go(node) == writer' = [writer EXCEPT !.at = node]

-----------------------------------------------------------------------------
(* The nodes of the three workflows *)

\* start_draft and the starts of the other two
StartDraft(kind) ==
  /\ writer.at = "ended"
  /\ ~generated.here /\ renders["user"].at = "none"  \* bound: one document
  \* bounds: skills that were added are there for later searches, a summary for whatever
  \* a model reads; a resume is written of the other entries
  /\ kind # "skills" => fact[SkillEntry] = "gone"
  /\ kind = "resume" => fact[SummaryEntry] = "gone"
  /\ writer' = [NoRun EXCEPT !.at = "gather", !.kind = kind]
  /\ request' = NoRequest /\ call' = NoCall /\ produced' = NothingYet
  /\ renders' = [renders EXCEPT !["run"] = NoRender]
  /\ UNCHANGED <<sourceVars, generated>>

\* Accepted, not private; a summary is not written from a summary, and skills are
\* looked for in other entries and in what CV documents say
Shareable(kind) ==
  {e \in Entries : fact[e] = "usable"} \
    (CASE kind = "summary" -> {SummaryEntry, CvText}
       [] kind = "skills"  -> {SkillEntry}
       [] OTHER            -> {CvText})

\* Skills are not to be found again: the names of all the skill entries of the case
\* come along, whatever their review state, and private ones too
KnownSkills == {e \in {SkillEntry} : fact[e] # "gone"}

Gather ==
  /\ writer.at = "gather"
  /\ writer' = [writer EXCEPT
       !.facts = Shareable(writer.kind),
       !.known = IF writer.kind = "skills" THEN KnownSkills ELSE {},
       !.at = CASE writer.kind = "resume" -> "assemble"
                [] writer.kind = "summary" /\ Shareable("summary") = {} -> "ended"
                [] OTHER -> "consent"]
  /\ UNCHANGED <<sourceVars, request, call, filesVars>>

\* The position is gone, or the relationship may not be used any more (a retry
\* would come here again)
GatherRefused ==
  /\ writer.at = "gather"
  /\ Go("ended")
  /\ UNCHANGED <<sourceVars, request, call, filesVars>>

\* A resume or academic CV is put together without a model
Assemble ==
  /\ writer.at = "assemble"
  /\ Go("save")
  /\ UNCHANGED <<sourceVars, request, call, filesVars>>

\* Mutant of Permits: only a refusal is one
MutantPermits(status) == status # "rejected"
\* require_approval returns True only if approved
Permits(status) == status = "approved"

\* consent runs again from its start when the user has decided: the standard model
\* is looked up again, and the request there is, whichever model it named, counts
Consent ==
  /\ writer.at = "consent"
  /\ IF standard \in DeviceModels
       THEN /\ writer' = [writer EXCEPT !.at = "draft", !.since = switches]
            /\ UNCHANGED request
       ELSE IF request.status \in {"none", "pending"} /\ ~Permits(request.status)
       THEN /\ request' = IF request.status = "pending" THEN request ELSE
                 [status |-> "pending", model |-> standard, facts |-> writer.facts]
            /\ writer' = [writer EXCEPT !.at = "waiting", !.since =
                            IF request.status = "pending" THEN @ ELSE switches]
       ELSE /\ Go(IF Permits(request.status) THEN "draft" ELSE "declined")
            /\ UNCHANGED request
  /\ UNCHANGED <<sourceVars, call, filesVars>>

Declined ==
  /\ writer.at = "declined"
  /\ Go("ended")
  /\ UNCHANGED <<sourceVars, request, call, filesVars>>

\* decide, by the user; the run goes on
Decided(status) ==
  /\ writer.at = "waiting"
  /\ request' = [request EXCEPT !.status = status]
  /\ Go("consent")
  /\ UNCHANGED <<sourceVars, call, filesVars>>

\* draft and propose: the model is looked up once more, and the context built;
\* entries that do not fit are left out, the known skills never.  structured() asks,
\* and once more when the answer is not valid.
Complete(from, outcome) ==
  /\ writer.at = from
  /\ \E sent \in SUBSET writer.facts :
       call' = IF from = "repair" THEN call ELSE
                 [model |-> standard, beyond |-> (sent \cup writer.known) \ request.facts,
                  agreed |-> request.status, named |-> request.model,
                  switched |-> switches # writer.since, again |-> writer.again]
  /\ \E answer \in SUBSET Sentences :
       /\ outcome # "valid" => answer = {}
       /\ writer' = [writer EXCEPT
            !.answer = answer,
            !.at = IF outcome = "invalid" /\ from = "draft" THEN "repair" ELSE "asked",
            !.made = outcome = "valid"]
  /\ UNCHANGED <<sourceVars, request, filesVars>>

\* A call that raises: nothing came back
CallFails(from) ==
  /\ writer.at = from
  /\ Go("failed")
  /\ UNCHANGED <<sourceVars, request, call, filesVars>>

\* record: of an unusable answer as well.  Then the run fails if the answer was not
\* usable, or its token budget is used up.
Record ==
  /\ writer.at = "asked"
  /\ \/ Go("failed")
     \/ writer.made /\ Go("verify")
  /\ UNCHANGED <<sourceVars, request, call, filesVars>>

\* verify_draft, verify_sentences: what an answer says of the user cites entries
\* that were gathered, and no sentence has a figure its sources lack
Supported(s) ==
  CASE s.kind = "placeholder" -> TRUE
    [] s.kind = "claim" -> s.cites # {} /\ s.cites \subseteq writer.facts /\ ~s.figure
    [] OTHER -> ~s.figure

Verify ==
  /\ writer.at = "verify"
  /\ writer' = [writer EXCEPT !.answer = {s \in @ : Supported(s)},
       !.at = IF writer.kind = "skills" THEN "ended" ELSE "save"]
  /\ UNCHANGED <<sourceVars, request, call, filesVars>>

\* Mutant of AlreadyThere: the node does not look for what it saved before
MutantAlreadyThere(kind) == FALSE
\* Both nodes look for a row that bears the run's id
AlreadyThere(kind) == IF kind = "summary" THEN produced.times # 0 ELSE generated.here

SavedAgain == [produced EXCEPT !.times = IF @ = 0 THEN 1 ELSE 2]

\* save of a document: its transaction; the node's checkpoint comes after it
SaveDocument ==
  /\ writer.at = "save" /\ writer.kind \in {"letter", "resume"}
  /\ IF AlreadyThere(writer.kind) THEN UNCHANGED <<produced, generated>>
     ELSE /\ produced' = SavedAgain
          /\ generated' = [NoDocument EXCEPT !.here = TRUE, !.current = 1]
  /\ writer' = [NoRun EXCEPT !.at = "saved", !.kind = writer.kind]
  /\ request' = NoRequest /\ call' = NoCall  \* of no use from here on
  /\ UNCHANGED <<sourceVars, renders>>

\* save of a summary: as an entry for the user to review (bound: one stands for the
\* summaries of all runs)
SaveSummary ==
  /\ writer.at = "save" /\ writer.kind = "summary"
  /\ IF writer.answer = {} \/ AlreadyThere("summary") THEN UNCHANGED <<fact, produced>>
     ELSE /\ produced' = SavedAgain
          /\ fact' = [fact EXCEPT ![SummaryEntry] = IF @ = "gone" THEN "withheld" ELSE @]
  /\ Go("saved")
  /\ UNCHANGED <<standard, switches, request, call, generated, renders>>

\* The checkpoint: a document is rendered next, a summary was the last step
SaveDone ==
  /\ writer.at = "saved"
  /\ IF writer.kind = "summary" THEN Go("ended") /\ UNCHANGED renders
     ELSE /\ Go("render")
          /\ renders' = [renders EXCEPT !["run"] = [at |-> "asked", version |-> 1]]
  /\ UNCHANGED <<sourceVars, request, call, produced, generated>>

\* add_discovered_skills: those of the run's result the user chose; unless the
\* profile has them in any state
AddSkills ==
  /\ writer.at = "ended" /\ writer.kind = "skills" /\ writer.answer # {}
  /\ fact[SkillEntry] = "gone"
  /\ fact' = [fact EXCEPT ![SkillEntry] = "usable"]
  /\ UNCHANGED <<standard, switches, writer, request, call, filesVars>>

\* The worker dies; the run goes on where its last checkpoint was
WriterCut ==
  /\ writer.at \in Nodes \cup {"asked", "repair", "saved"}
  /\ writer' = [writer EXCEPT !.at = CASE @ \in {"asked", "repair"} -> "draft"
                                      [] @ = "saved" -> "save"
                                      [] OTHER -> @]
  /\ renders' = [renders EXCEPT !["run"].at = IF @ = "none" THEN @ ELSE "asked"]
  /\ <<writer', renders'>> # <<writer, renders>>
  /\ UNCHANGED <<sourceVars, request, call, produced, generated>>

\* The user retries a run whose model failed, or lets it be
RetryWriter ==
  /\ writer.at = "failed"
  /\ Go("draft") \/ Go("ended")
  /\ UNCHANGED <<sourceVars, request, call, filesVars>>

\* Where a run has its document behind it
PastSave == {"render", "ended"}

\* The user reruns it from its first step (bound: not from a later one, not a run that was
\* paused, and a letter only before it is saved); the request it has made, and what it has
\* saved, are found.
RerunWriter ==
  /\ writer.at \in {"failed", "ended"}
  /\ writer.kind # "letter" \/ produced.times = 0
  /\ writer' = [NoRun EXCEPT !.at = "gather", !.kind = writer.kind, !.since = writer.since,
                             !.again = request.status # "none"]
  /\ call' = NoCall
  /\ produced' = [produced EXCEPT !.early = @ \/
                 (writer.kind # "summary" /\ produced.times # 0 /\ ~generated.here)]
  /\ UNCHANGED <<sourceVars, request, generated, renders>>

-----------------------------------------------------------------------------
(* Rendering, by the run or by a run of render_document *)

\* start_render
StartRender(n) ==
  /\ generated.here /\ n \in 1..generated.current
  /\ renders["user"].at = "none"
  /\ renders' = [renders EXCEPT !["user"] = [at |-> "asked", version |-> n]]
  /\ UNCHANGED <<sourceVars, writer, request, call, produced, generated>>

\* The end of a rendering of process p, with it that of the run that drafted
Rendered(p) ==
  /\ renders' = [renders EXCEPT ![p].at = "none"]
  /\ writer' = IF p = "run" THEN [writer EXCEPT !.at = "ended"] ELSE writer

\* render_version reads in one transaction: what is listed already is used, whether its
\* files are there or not
RenderRead(p) ==
  /\ renders[p].at = "asked"
  /\ IF ~generated.here \/ renders[p].version \in generated.rendered
       THEN Rendered(p)
       ELSE renders' = [renders EXCEPT ![p].at = "read"] /\ UNCHANGED writer
  /\ UNCHANGED <<sourceVars, request, call, produced, generated>>

\* It stores the files without one, and lists them in a second one, if the version
\* is still there; a deletion that has not committed holds the row
RenderRecord(p) ==
  LET n == renders[p].version IN
  /\ renders[p].at = "read" /\ ~generated.deleting
  /\ generated' = IF generated.here /\ n <= generated.current
                   THEN [generated EXCEPT !.rendered = @ \cup {n}, !.lost = @ \ {n}]
                   ELSE generated
  /\ Rendered(p)
  /\ UNCHANGED <<sourceVars, request, call, produced>>

-----------------------------------------------------------------------------
(* The user *)

SetStandard(m) ==
  /\ switches < MaxSwitches /\ m # standard
  /\ standard' = m /\ switches' = switches + 1
  /\ UNCHANGED <<fact, writer, request, call, filesVars>>

\* Accepting an entry, rejecting it, making it private
ReviewEntry(e, state) ==
  /\ writer.at \in {"gather", "waiting"}           \* bound: where it makes a
  /\ e = SkillEntry => writer.kind = "skills"      \* difference
  /\ e # CvText /\ fact[e] # "gone" /\ fact[e] # state
  /\ fact' = [fact EXCEPT ![e] = state]
  /\ UNCHANGED <<standard, switches, writer, request, call, filesVars>>

\* save_edit, under the document's lock: a new version on the current one
SaveEdit ==
  /\ generated.here /\ ~generated.deleting /\ generated.current < MaxVersions
  /\ generated' = [generated EXCEPT !.current = @ + 1]
  /\ UNCHANGED <<sourceVars, writer, request, call, produced, renders>>

\* delete_document unlinks the files its versions list before its transaction commits
UnlinkFiles ==
  /\ generated.here /\ ~generated.deleting
  /\ generated' = [generated EXCEPT !.deleting = TRUE, !.lost = generated.rendered]
  /\ UNCHANGED <<sourceVars, writer, request, call, produced, renders>>

\* Mutant of Cleared: the files stay listed
MutantCleared(d) == [d EXCEPT !.here = FALSE, !.deleting = FALSE, !.current = 0]
\* What is left of a deleted document
Cleared(d) == NoDocument

\* The commit; or it fails, and what the versions list is not there any more
DeleteDocument ==
  /\ generated.deleting
  /\ \/ /\ generated' = Cleared(generated)
        /\ produced' = [produced EXCEPT !.early = @ \/ writer.at \notin PastSave]
     \/ generated' = [generated EXCEPT !.deleting = FALSE] /\ UNCHANGED produced
  /\ UNCHANGED <<sourceVars, writer, request, call, renders>>

-----------------------------------------------------------------------------
Outcomes == {"valid", "invalid", "truncated"}

\* The nodes the workflows have in common
NodeStep ==
  \/ Gather \/ GatherRefused \/ Consent \/ Declined
  \/ \E from \in {"draft", "repair"} :
       CallFails(from) \/ \E o \in Outcomes : Complete(from, o)
  \/ Record \/ Verify \/ WriterCut

LetterStep  == writer.kind = "letter" /\ (NodeStep \/ SaveDocument \/ SaveDone)
ResumeStep  == /\ writer.kind = "resume"
               /\ Gather \/ GatherRefused \/ Assemble \/ SaveDocument \/ SaveDone \/ WriterCut
SummaryStep == writer.kind = "summary" /\ (NodeStep \/ SaveSummary \/ SaveDone)
SkillsStep  == writer.kind = "skills" /\ NodeStep

WriterStep == LetterStep \/ ResumeStep \/ SummaryStep \/ SkillsStep

RenderStep == \E p \in {"run", "user"} : RenderRead(p) \/ RenderRecord(p)

UserOnDrafts ==
  \/ \E kind \in Kinds : StartDraft(kind)
  \/ \E status \in {"approved", "rejected"} : Decided(status)
  \/ AddSkills \/ RetryWriter \/ RerunWriter \/ SaveEdit \/ UnlinkFiles \/ DeleteDocument
  \/ \E n \in 1..MaxVersions : StartRender(n)
  \/ \E m \in Models : SetStandard(m)
  \/ \E e \in Entries, state \in {"usable", "withheld"} : ReviewEntry(e, state)

DraftsNext == WriterStep \/ RenderStep \/ UserOnDrafts

DraftsSpec == DraftsInit /\ [][DraftsNext]_draftVars

-----------------------------------------------------------------------------
(* Properties *)

\* No model outside this device is sent an entry or a text the user was not shown and
\* did not agree to send to it, but for the names of skill entries when skills are looked
\* for: those are sent as known whatever their review and privacy.  Unless the standard
\* model was changed after the run looked: then the request for another model, or none
\* at all, is enough.  A rerun takes the approval of what was gathered before it.
SharedAsApproved ==
  \/ call.model \in DeviceModels \cup {NoModel}
  \/ call.switched
  \/ /\ call.agreed = "approved" /\ call.named = call.model
     /\ call.again \/ call.beyond \subseteq IF writer.kind = "skills" THEN {SkillEntry} ELSE {}

\* A run saves one document or summary, whichever of its nodes a crash makes it run again
\* and however often it is rerun: what it saved before is found, not saved again, unless
\* the user deleted it before the run, or its rerun, was past its save (it comes back).
OneDraftPerRun == produced.times <= 1 \/ produced.early
=============================================================================
