---------------------------- MODULE ServicesProofs ----------------------------
(***************************************************************************)
(* What the services promise, for the backend as a whole, proved on their   *)
(* own steps while the others rest: signing in and out, drafts, channels and *)
(* discovery; and the types of all ten.                                      *)
(***************************************************************************)
EXTENDS PartsProofs, FiniteSetTheorems

-----------------------------------------------------------------------------
(* Signing in *)

\* The sign-ins that have passed the limit and not been answered yet
Guessing == {g \in Guessers : login[g] = "checks"}

\* What was tried and what is being tried stay under the limit together: a wrong
\* password moves one sign-in from the second to the first.
Limited ==
  /\ login \in [Guessers -> {"none", "checks"}]
  /\ guesses \in Nat /\ attempts = guesses
  /\ guesses + Cardinality(Guessing) < LoginLimit + Cardinality(Guessers)

\* A sign-in that is answered is not under way any more
LEMMA Answered ==
  ASSUME IsFiniteSet(Guessers), Limited, NEW g \in Guessers, login[g] = "checks",
         login' = [login EXCEPT ![g] = "none"]
  PROVE  (Cardinality(Guessing))' = Cardinality(Guessing) - 1
<1>1. g \in Guessing /\ Guessing' = Guessing \ {g}
  BY DEF Guessing, Limited
<1>2. IsFiniteSet(Guessing)
  BY FS_Subset DEF Guessing
<1>3. Cardinality(Guessing') = Cardinality(Guessing) - 1
  BY <1>1, <1>2, FS_RemoveElement
<1> QED
  BY <1>3

LEMMA LimitStays ==
  ASSUME IsFiniteSet(Guessers), LoginLimit \in Nat \ {0}, Limited,
         [S!SessionsNext]_sessionVars
  PROVE  Limited'
<1>1. Cardinality(Guessers) \in Nat
  BY FS_CardinalityType
<1>2. Cardinality(Guessing) \in Nat
  BY FS_Subset, FS_CardinalityType DEF Guessing
<1>3. (Cardinality(Guessing) \in Nat /\ Cardinality(Guessing) <= Cardinality(Guessers))'
  BY FS_Subset, FS_CardinalityType DEF Guessing
<1>4. CASE UNCHANGED <<attempts, guesses, login>>
  <2>1. Guessing' = Guessing
    BY <1>4 DEF Guessing
  <2> QED
    BY <1>4, <2>1 DEF Limited
<1>5. ASSUME NEW g \in Guessers, S!LoginBegin(g) PROVE Limited'
  BY <1>1, <1>3, <1>5 DEF S!LoginBegin, Limited
<1>6. ASSUME NEW g \in Guessers, S!WrongPassword(g) PROVE Limited'
  <2>1. (Cardinality(Guessing))' = Cardinality(Guessing) - 1
    BY <1>6, Answered DEF S!WrongPassword
  <2> QED
    BY <1>1, <1>2, <1>6, <2>1 DEF S!WrongPassword, S!Kept, Limited
<1>7. ASSUME NEW g \in Guessers, NEW s \in Logins, S!LoggedIn(g, s) PROVE Limited'
  <2>1. (Cardinality(Guessing))' = Cardinality(Guessing) - 1
    BY <1>7, Answered DEF S!LoggedIn
  <2> QED
    BY <1>1, <1>2, <1>7, <2>1 DEF S!LoggedIn, Limited
<1>8. CASE S!ServeRequest
  BY <1>4, <1>8 DEF S!ServeRequest, S!Resolve, S!LockSession, S!RequestEnds, S!RequestFails,
     S!clientVars
<1>9. CASE S!Tick
  <2>1. Guessing' = {} /\ Cardinality({}) = 0
    BY <1>9, FS_EmptySet DEF S!Tick, Guessing, Limited
  <2> QED
    BY <1>1, <1>9, <2>1 DEF S!Tick, Limited
<1> QED
  BY <1>4, <1>5, <1>6, <1>7, <1>8, <1>9 DEF S!SessionsNext, S!SignIn, sessionVars

\* More passwords than the limit are tried only by sign-ins that were under way at once:
\* _check_rate_limit (auth.py 88-122) counts what is committed and takes no lock.
THEOREM GuessesLimited ==
  ASSUME IsFiniteSet(Guessers), LoginLimit \in Nat \ {0}
  PROVE  ServicesSpec => []GuessesBounded
<1>1. ServicesInit => Limited
  <2> SUFFICES ASSUME ServicesInit PROVE Limited
    OBVIOUS
  <2>1. Guessing = {} /\ Cardinality({}) = 0 /\ Cardinality(Guessers) \in Nat
    BY FS_EmptySet, FS_CardinalityType DEF ServicesInit, S!SessionsInit, Guessing
  <2> QED
    BY <2>1 DEF ServicesInit, S!SessionsInit, Limited
<1>2. Limited /\ [ServicesNext]_servicesVars => Limited'
  BY LimitStays DEF ServicesNext, OthersRest, servicesVars, sessionVars
<1>3. Limited => GuessesBounded
  <2>1. Cardinality(Guessers) \in Nat /\ Cardinality(Guessing) \in Nat
    BY FS_Subset, FS_CardinalityType DEF Guessing
  <2>2. Limited => guesses < LoginLimit + Cardinality(Guessers)
    BY <2>1 DEF Limited
  <2>3. S!Cardinality(Guessers) = Cardinality(Guessers)
    BY DEF S!Cardinality, Cardinality
  <2> QED
    BY <2>2, <2>3 DEF GuessesBounded, S!GuessesBounded
<1> QED
  BY <1>1, <1>2, <1>3, PTL DEF ServicesSpec

-----------------------------------------------------------------------------
(* Drafts *)

\* What is known of the run between two steps: once it has looked at the standard model,
\* that is the one the user was asked about, unless it was changed since; what it gathered
\* is what the user was shown, unless it was rerun; and the names that come along are
\* those of skills, when skills are looked for.
Looked   == {"draft", "repair", "asked", "failed"}
AsAgreed == /\ request.status = "approved" /\ request.model = standard
            /\ writer.again \/ request.facts = writer.facts
Unasked(kind) == IF kind = "skills" THEN {SkillEntry} ELSE {}

DraftsTyped ==
  /\ DOMAIN writer = {"at", "kind", "facts", "known", "answer", "since", "made", "again"}
  /\ DOMAIN request = {"status", "model", "facts"}
  /\ writer.since \in Nat /\ switches \in Nat
  /\ DOMAIN renders = {"run", "user"} /\ DOMAIN renders["run"] = {"at", "version"}
  /\ renders["run"].at # "none" => writer.at = "render"

Shared ==
  \/ call.model \in DeviceModels \cup {NoModel}
  \/ call.switched
  \/ /\ call.agreed = "approved" /\ call.named = call.model
     /\ call.again \/ call.beyond \subseteq Unasked(writer.kind)

Drafting ==
  /\ DraftsTyped
  /\ writer.known \subseteq Unasked(writer.kind)
  /\ writer.since <= switches
  /\ request.status # "none" /\ writer.since = switches =>
       request.model = standard \/ standard \in DeviceModels
  /\ writer.at = "waiting" => request.status # "none"
  /\ writer.at \in {"gather", "consent", "waiting"} /\ request.status # "none" =>
       writer.again \/ (writer.at # "gather" /\ request.facts = writer.facts)
  /\ writer.at \in Looked =>
       (writer.since = switches => standard \in DeviceModels \/ AsAgreed)
  /\ Shared

\* The run goes to a step from which nothing is sent.
LEMMA Moves ==
  ASSUME Drafting, UNCHANGED <<standard, switches, request, call>>, DraftsTyped',
         writer'.kind = writer.kind, writer'.known = writer.known,
         writer'.since = writer.since, writer'.facts = writer.facts,
         writer'.again = writer.again,
         \/ writer'.at \notin {"gather", "consent", "waiting"} \cup Looked
         \/ writer'.at = writer.at
         \/ writer.at \in Looked /\ writer'.at \in Looked
  PROVE  Drafting'
BY DEF Drafting, AsAgreed, Looked, Shared, Unasked

\* The same, of a step that only says where the run is.
LEMMA GoesTo ==
  ASSUME Drafting, UNCHANGED <<standard, switches, request, call, renders>>, NEW node,
         writer' = [writer EXCEPT !.at = node], renders["run"].at = "none",
         \/ node \notin {"gather", "consent", "waiting"} \cup Looked
         \/ node = writer.at
         \/ writer.at \in Looked /\ node \in Looked
  PROVE  Drafting'
<1>1. /\ DOMAIN writer' = DOMAIN writer /\ writer'.at = node /\ writer'.kind = writer.kind
      /\ writer'.known = writer.known /\ writer'.again = writer.again /\ writer'.since = writer.since
      /\ writer'.facts = writer.facts
  BY DEF Drafting, DraftsTyped
<1>2. DraftsTyped'
  BY <1>1 DEF Drafting, DraftsTyped
<1> QED
  BY <1>1, <1>2, Moves

LEMMA DraftsStep == Drafting /\ [W!DraftsNext]_draftVars => Drafting'
<1> SUFFICES ASSUME Drafting, [W!DraftsNext]_draftVars PROVE Drafting'
  OBVIOUS
<1> USE DEF W!Go
<1>1. CASE UNCHANGED draftVars
  BY <1>1 DEF draftVars, Drafting, DraftsTyped, AsAgreed, Shared, Unasked
<1>2. CASE W!Gather
  <2> DEFINE to == CASE writer.kind = "resume" -> "assemble"
                     [] writer.kind = "summary" /\ W!Shareable("summary") = {} -> "ended"
                     [] OTHER -> "consent"
             known == IF writer.kind = "skills" THEN W!KnownSkills ELSE {}
  <2>1. to \in {"assemble", "ended", "consent"} /\ known \subseteq Unasked(writer.kind)
    BY DEF W!KnownSkills, Unasked
  <2>2. writer' = [writer EXCEPT !.facts = W!Shareable(writer.kind), !.known = known, !.at = to]
    BY <1>2 DEF W!Gather
  <2> HIDE DEF to, known
  <2>3. /\ DOMAIN writer' = DOMAIN writer /\ writer'.at = to /\ writer'.kind = writer.kind
        /\ writer'.known = known /\ writer'.again = writer.again /\ writer'.since = writer.since
    BY <2>2 DEF Drafting, DraftsTyped
  <2>4. writer.at = "gather" /\ UNCHANGED <<standard, switches, request, call, renders>>
    BY <1>2 DEF W!Gather, W!filesVars, W!sourceVars
  <2>5. DraftsTyped' /\ Shared'
    BY <2>3, <2>4 DEF Drafting, DraftsTyped, Shared, Unasked
  <2> QED
    BY <2>1, <2>3, <2>4, <2>5 DEF Drafting, AsAgreed, Looked
<1>3. CASE W!GatherRefused \/ W!Assemble \/ W!Declined \/ W!RetryWriter
  <2>1. PICK node \in {"ended", "save", "draft"} : writer' = [writer EXCEPT !.at = node]
    BY <1>3 DEF W!GatherRefused, W!Assemble, W!Declined, W!RetryWriter
  <2>2. /\ UNCHANGED <<standard, switches, request, call, renders>>
        /\ writer.at \in {"gather", "assemble", "declined", "failed"}
        /\ node = "draft" => writer.at = "failed"
    BY <1>3, <2>1 DEF W!GatherRefused, W!Assemble, W!Declined, W!RetryWriter, W!sourceVars,
       W!filesVars, Drafting, DraftsTyped
  <2> QED
    BY <2>1, <2>2, GoesTo DEF Drafting, DraftsTyped, Looked
<1>4. CASE W!Consent
  <2> USE DEF W!Permits, W!filesVars, W!sourceVars, Drafting, DraftsTyped, AsAgreed, Looked,
              Shared, Unasked
  <2>1. writer.at = "consent" /\ UNCHANGED <<standard, switches, call, renders>>
    BY <1>4 DEF W!Consent
  <2>2. CASE standard \in DeviceModels
    <3>1. writer' = [writer EXCEPT !.at = "draft", !.since = switches] /\ request' = request
      BY <1>4, <2>2 DEF W!Consent
    <3>2. /\ DOMAIN writer' = DOMAIN writer /\ writer'.at = "draft" /\ writer'.since = switches /\ writer'.again = writer.again
          /\ writer'.facts = writer.facts /\ writer'.kind = writer.kind
          /\ writer'.known = writer.known
      BY <2>1, <3>1
    <3>3. DraftsTyped'
      BY <2>1, <3>1, <3>2
    <3> QED
      BY <2>1, <2>2, <3>1, <3>2, <3>3
  <2>3. CASE standard \notin DeviceModels /\ request.status = "none"
    <3>1. /\ writer' = [writer EXCEPT !.at = "waiting", !.since = switches]
          /\ request' = [status |-> "pending", model |-> standard, facts |-> writer.facts]
      BY <1>4, <2>3 DEF W!Consent
    <3>2. /\ DOMAIN writer' = DOMAIN writer /\ writer'.at = "waiting" /\ writer'.since = switches /\ writer'.again = writer.again
          /\ writer'.facts = writer.facts /\ writer'.kind = writer.kind
          /\ writer'.known = writer.known
      BY <2>1, <3>1
    <3>3. DraftsTyped'
      BY <2>1, <3>1, <3>2
    <3> QED
      BY <2>1, <2>3, <3>1, <3>2, <3>3
  <2>4. CASE standard \notin DeviceModels /\ request.status = "pending"
    <3>1. /\ writer' = [writer EXCEPT !.at = "waiting", !.since = writer.since]
          /\ request' = request
      BY <1>4, <2>4 DEF W!Consent
    <3>2. /\ DOMAIN writer' = DOMAIN writer /\ writer'.at = "waiting"
          /\ writer'.again = writer.again /\ writer'.since = writer.since
          /\ writer'.facts = writer.facts /\ writer'.kind = writer.kind
          /\ writer'.known = writer.known
      BY <2>1, <3>1
    <3>3. DraftsTyped'
      BY <2>1, <3>1, <3>2
    <3> QED
      BY <2>1, <2>4, <3>1, <3>2, <3>3
  <2>5. CASE standard \notin DeviceModels /\ request.status \notin {"none", "pending"}
    <3>1. PICK node \in {"draft", "declined"} :
            /\ writer' = [writer EXCEPT !.at = node] /\ request' = request
            /\ node = "draft" => request.status = "approved"
      BY <1>4, <2>5 DEF W!Consent
    <3>2. /\ DOMAIN writer' = DOMAIN writer /\ writer'.at = node
          /\ writer'.again = writer.again /\ writer'.since = writer.since
          /\ writer'.facts = writer.facts /\ writer'.kind = writer.kind
          /\ writer'.known = writer.known
      BY <2>1, <3>1
    <3>3. DraftsTyped'
      BY <2>1, <3>1, <3>2
    <3> QED
      BY <2>1, <2>5, <3>1, <3>2, <3>3
  <2> QED
    BY <2>2, <2>3, <2>4, <2>5
<1>5. ASSUME NEW status \in {"approved", "rejected"}, W!Decided(status) PROVE Drafting'
  BY <1>5 DEF W!Decided, W!filesVars, W!sourceVars, Drafting, DraftsTyped, AsAgreed, Looked,
              Shared, Unasked
<1>6. ASSUME NEW from \in {"draft", "repair"}, NEW o \in W!Outcomes, W!Complete(from, o)
      PROVE  Drafting'
  <2>1. PICK shared \in SUBSET writer.facts :
          call' = IF from = "repair" THEN call ELSE
                   [model |-> standard, beyond |-> (shared \cup writer.known) \ request.facts,
                    agreed |-> request.status, named |-> request.model,
                    switched |-> switches # writer.since, again |-> writer.again]
    BY <1>6 DEF W!Complete
  <2>2. /\ DOMAIN writer' = DOMAIN writer /\ writer'.kind = writer.kind
        /\ writer'.at \in {"repair", "asked"} /\ writer'.known = writer.known
        /\ writer'.again = writer.again /\ writer'.since = writer.since /\ writer'.facts = writer.facts
    BY <1>6 DEF W!Complete, Drafting, DraftsTyped
  <2>3. Shared'
    <3>1. CASE from = "repair"
      BY <2>1, <2>2, <3>1 DEF Drafting, Shared, Unasked
    <3>2. CASE from = "draft"
      <4>1. writer.since = switches => standard \in DeviceModels \/ AsAgreed
        BY <1>6, <3>2 DEF W!Complete, Drafting, Looked
      <4> QED
        BY <2>1, <2>2, <3>2, <4>1 DEF Drafting, AsAgreed, Shared, Unasked
    <3> QED
      BY <3>1, <3>2
  <2>4. /\ UNCHANGED <<standard, switches, request, renders>>
        /\ writer.at \in {"draft", "repair"}
    BY <1>6 DEF W!Complete, W!sourceVars, W!filesVars
  <2>5. DraftsTyped'
    BY <2>2, <2>4 DEF Drafting, DraftsTyped
  <2> QED
    BY <2>2, <2>3, <2>4, <2>5 DEF Drafting, AsAgreed, Looked, Unasked
<1>7. ASSUME NEW from \in {"draft", "repair"}, W!CallFails(from) PROVE Drafting'
  BY <1>7, GoesTo DEF W!CallFails, W!filesVars, W!sourceVars, Drafting, DraftsTyped, Looked
<1>8. CASE W!Record
  BY <1>8, GoesTo DEF W!Record, W!filesVars, W!sourceVars, Drafting, DraftsTyped, Looked
<1>9. CASE W!Verify
  <2>1. PICK node \in {"ended", "save"} :
          writer' = [writer EXCEPT !.answer = {s \in @ : W!Supported(s)}, !.at = node]
    BY <1>9 DEF W!Verify
  <2>2. /\ DraftsTyped' /\ writer'.at = node /\ writer'.kind = writer.kind
        /\ writer'.known = writer.known /\ writer'.again = writer.again /\ writer'.since = writer.since
        /\ writer'.facts = writer.facts
    BY <1>9, <2>1 DEF W!Verify, W!filesVars, W!sourceVars, Drafting, DraftsTyped
  <2> QED
    BY <1>9, <2>2, Moves DEF W!Verify, W!filesVars, W!sourceVars, Looked
<1>10. CASE W!SaveDocument \/ \E kind \in W!Kinds : W!StartDraft(kind)
  <2>1. \E kind, at : /\ writer' = [W!NoRun EXCEPT !.at = at, !.kind = kind]
                      /\ at \in {"saved", "gather"}
                      /\ renders'["run"].at = "none"
    <3>1. ASSUME NEW kind, W!StartDraft(kind)
          PROVE  /\ writer' = [W!NoRun EXCEPT !.at = "gather", !.kind = kind]
                 /\ renders'["run"].at = "none"
      BY <3>1 DEF W!StartDraft, W!NoRender, Drafting, DraftsTyped
    <3>2. W!SaveDocument => /\ writer' = [W!NoRun EXCEPT !.at = "saved", !.kind = writer.kind]
                            /\ renders'["run"].at = "none"
      BY DEF W!SaveDocument, Drafting, DraftsTyped
    <3> QED
      BY <1>10, <3>1, <3>2
  <2>2. request' = W!NoRequest /\ call' = W!NoCall /\ UNCHANGED switches
    BY <1>10 DEF W!SaveDocument, W!StartDraft, W!sourceVars
  <2>3. DOMAIN renders' = {"run", "user"} /\ DOMAIN renders'["run"] = {"at", "version"}
    BY <1>10 DEF W!SaveDocument, W!StartDraft, W!NoRender, Drafting, DraftsTyped
  <2> QED
    BY <2>1, <2>2, <2>3
       DEF Drafting, DraftsTyped, AsAgreed, Looked, Shared, Unasked, W!NoRun, W!NoRequest,
           W!NoCall, W!NoRender
<1>11. CASE W!SaveSummary
  BY <1>11, GoesTo DEF W!SaveSummary, W!filesVars, Drafting, DraftsTyped, Looked
<1>12. CASE W!SaveDone
  <2>1. CASE writer.kind = "summary"
    BY <1>12, <2>1, GoesTo DEF W!SaveDone, W!sourceVars, Drafting, DraftsTyped, Looked
  <2>2. CASE writer.kind # "summary"
    <3>1. /\ writer' = [writer EXCEPT !.at = "render"]
          /\ renders' = [renders EXCEPT !["run"] = [at |-> "asked", version |-> 1]]
          /\ UNCHANGED <<standard, switches, request, call>>
      BY <1>12, <2>2 DEF W!SaveDone, W!sourceVars
    <3>2. /\ DraftsTyped' /\ writer'.at = "render" /\ writer'.kind = writer.kind
          /\ writer'.known = writer.known /\ writer'.again = writer.again /\ writer'.since = writer.since
          /\ writer'.facts = writer.facts
      BY <3>1 DEF Drafting, DraftsTyped
    <3> QED
      BY <3>1, <3>2, Moves DEF Looked
  <2> QED
    BY <2>1, <2>2
<1>13. CASE W!WriterCut
  <2> DEFINE to == CASE writer.at \in {"asked", "repair"} -> "draft"
                     [] writer.at = "saved" -> "save"
                     [] OTHER -> writer.at
             step == IF renders["run"].at = "none" THEN "none" ELSE "asked"
  <2>1. writer' = [writer EXCEPT !.at = to] /\ renders' = [renders EXCEPT !["run"].at = step]
        /\ UNCHANGED <<standard, switches, request, call>>
    BY <1>13 DEF W!WriterCut, W!sourceVars
  <2>2. \/ to = writer.at
        \/ to = "save" /\ renders["run"].at = "none"
        \/ to = "draft" /\ writer.at \in Looked /\ renders["run"].at = "none"
    BY DEF Drafting, DraftsTyped, Looked
  <2>3. (step = "none") <=> (renders["run"].at = "none")
    OBVIOUS
  <2> HIDE DEF to, step
  <2>4. /\ DraftsTyped' /\ writer'.at = to /\ writer'.kind = writer.kind
        /\ writer'.known = writer.known /\ writer'.again = writer.again /\ writer'.since = writer.since
        /\ writer'.facts = writer.facts
    BY <2>1, <2>2, <2>3 DEF Drafting, DraftsTyped
  <2> QED
    BY <2>1, <2>2, <2>4, Moves DEF Looked
<1>14. ASSUME NEW m \in Models, W!SetStandard(m) PROVE Drafting'
  BY <1>14 DEF W!SetStandard, W!filesVars, Drafting, DraftsTyped, AsAgreed, Shared, Unasked
<1>15. CASE UNCHANGED <<standard, switches, writer, request, call, renders>>
  BY <1>15 DEF Drafting, DraftsTyped, AsAgreed, Shared, Unasked
<1>16. CASE W!AddSkills \/ W!SaveEdit \/ W!UnlinkFiles \/ W!DeleteDocument
            \/ (\E e \in Entries, state \in {"usable", "withheld"} : W!ReviewEntry(e, state))
  BY <1>15, <1>16
     DEF W!AddSkills, W!SaveEdit, W!UnlinkFiles, W!DeleteDocument, W!ReviewEntry,
         W!sourceVars, W!filesVars
<1>17. ASSUME NEW p \in {"run", "user"}, W!RenderRead(p) \/ W!RenderRecord(p) PROVE Drafting'
  <2>1. UNCHANGED <<standard, switches, request, call>>
    BY <1>17 DEF W!RenderRead, W!RenderRecord, W!sourceVars
  <2>2. PICK at \in {"none", "read"} : renders' = [renders EXCEPT ![p].at = at]
    BY <1>17 DEF W!RenderRead, W!RenderRecord, W!Rendered
  <2>3. /\ writer' \in {writer, [writer EXCEPT !.at = "ended"]}
        /\ p = "user" => writer' = writer
        /\ writer' # writer => at = "none"
        /\ renders[p].at # "none"
    BY <1>17, <2>2 DEF W!RenderRead, W!RenderRecord, W!Rendered, Drafting, DraftsTyped
  <2>4. /\ DraftsTyped' /\ writer'.kind = writer.kind /\ writer'.known = writer.known
        /\ writer'.again = writer.again /\ writer'.since = writer.since /\ writer'.facts = writer.facts
        /\ writer'.at \in {writer.at, "ended"} /\ (writer'.at # writer.at => writer.at = "render")
    BY <2>1, <2>2, <2>3 DEF Drafting, DraftsTyped
  <2> QED
    BY <2>1, <2>4, Moves DEF Drafting, Looked
<1>18. ASSUME NEW n \in 1..MaxVersions, W!StartRender(n) PROVE Drafting'
  <2>1. renders'["run"] = renders["run"] /\ DOMAIN renders' = DOMAIN renders
        /\ UNCHANGED <<standard, switches, writer, request, call>>
    BY <1>18 DEF W!StartRender, W!sourceVars, Drafting, DraftsTyped
  <2> QED
    BY <2>1 DEF Drafting, DraftsTyped, AsAgreed, Shared, Unasked
<1>19. CASE W!RerunWriter
  <2>1. /\ writer' = [W!NoRun EXCEPT !.at = "gather", !.kind = writer.kind, !.since = writer.since,
                                   !.again = request.status # "none"]
        /\ call' = W!NoCall /\ writer.at \in {"failed", "ended"}
        /\ UNCHANGED <<standard, switches, request, renders>>
    BY <1>19 DEF W!RerunWriter, W!sourceVars
  <2>2. /\ DOMAIN writer' = DOMAIN writer /\ writer'.at = "gather"
        /\ writer'.known = {} /\ writer'.since = writer.since
        /\ writer'.again <=> request.status # "none"
    BY <2>1 DEF W!NoRun, Drafting, DraftsTyped
  <2>3. DraftsTyped' /\ Shared'
    BY <2>1, <2>2 DEF Drafting, DraftsTyped, Shared, W!NoCall
  <2> QED
    BY <2>1, <2>2, <2>3 DEF Drafting, AsAgreed, Looked
<1> QED
  BY <1>1, <1>2, <1>3, <1>4, <1>5, <1>6, <1>7, <1>8, <1>9, <1>10, <1>11, <1>12, <1>13, <1>14,
     <1>16, <1>17, <1>18, <1>19
     DEF W!DraftsNext, W!WriterStep, W!LetterStep, W!ResumeStep, W!SummaryStep, W!SkillsStep,
         W!NodeStep, W!RenderStep, W!UserOnDrafts

LEMMA DraftsInitially == ServicesInit => Drafting
<1> SUFFICES ASSUME ServicesInit PROVE Drafting
  OBVIOUS
<1>1. W!DraftsInit
  BY DEF ServicesInit
<1> QED
  BY <1>1 DEF W!DraftsInit, W!NoRun, W!NoRequest, W!NoCall, W!NoRender, Drafting, DraftsTyped,
              Looked, Shared

LEMMA DraftsPart == ServicesSpec => []Drafting
<1>1. Drafting /\ [ServicesNext]_servicesVars => Drafting'
  BY DraftsStep DEF ServicesNext, OthersRest, servicesVars
<1> QED
  BY <1>1, DraftsInitially, PTL DEF ServicesSpec

\* No online model is sent more than the user agreed to send to it, but for the names of
\* skill entries when skills are looked for (skill_discovery.py 107-114, 158, 182), and for
\* what a rerun gathers under an earlier approval, unless the standard model was changed
\* after the run looked (draft_document.py, consent, draft).
THEOREM AgreedIsShared == ServicesSpec => []SharedAsApproved
<1>1. Drafting => SharedAsApproved
  BY DEF Drafting, Shared, Unasked, SharedAsApproved, W!SharedAsApproved
<1> QED
  BY <1>1, DraftsPart, PTL

-----------------------------------------------------------------------------
(* Signing out *)

\* Rows of sessions, and the copies that requests have of them
SessionRow == [here : BOOLEAN, revoked : BOOLEAN, seen : Nat, idle : Nat, expires : Nat]
Served(q) ==
  /\ DOMAIN q = {"at", "of", "kind", "copy"}
  /\ q.copy \in SessionRow
  /\ q.at # "none" => q.of \in Logins

SessionsTyped ==
  /\ now \in Nat
  /\ session \in [Logins -> SessionRow]
  /\ DOMAIN served = Requests /\ \A q \in Requests : Served(served[q])

\* A session that is not valid is made so only by a request that has a copy of it.
Reopened(s) ==
  session[s].here /\ ~S!Valid(s) /\ S!Valid(s)' =>
    /\ ~session[s].revoked /\ now < session[s].expires
    /\ \E q \in Requests : served[q].of = s /\ served[q].copy.idle > now

\* A request gets a row to work with, or goes on with the one it has.
LEMMA ServedPut ==
  ASSUME SessionsTyped, NEW q \in Requests, NEW row, Served(row),
         served' = [served EXCEPT ![q] = row], UNCHANGED <<now, session>>
  PROVE  SessionsTyped'
<1>1. DOMAIN served' = Requests /\ \A r \in Requests : served'[r] \in {served[r], row}
  BY DEF SessionsTyped
<1> QED
  BY <1>1 DEF SessionsTyped, Served

LEMMA EndReopens ==
  ASSUME SessionsTyped, NEW q \in Requests, S!RequestEnds(q)
  PROVE  SessionsTyped' /\ \A s \in Logins : Reopened(s)
<1> DEFINE r == served[q]
           row == session[r.of]
           written == [S!Touched(row, r.copy) EXCEPT !.revoked = @ \/ r.kind = "logout"]
<1>1. /\ Served(r) /\ r.at # "none" /\ r.of \in Logins /\ row \in SessionRow /\ now' = now
      /\ r.copy \in SessionRow
  BY DEF S!RequestEnds, SessionsTyped, Served
<1>2. Served(S!NoRequest)
  BY DEF Served, S!NoRequest, S!NoSession, SessionRow
<1>3. DOMAIN served' = Requests /\ \A p \in Requests : Served(served'[p])
  BY <1>2 DEF S!RequestEnds, SessionsTyped
<1>4. CASE session' = session
  BY <1>1, <1>3, <1>4 DEF SessionsTyped, Reopened, S!Valid
<1>5. CASE session' = [s \in Logins |-> [session[s] EXCEPT !.here = FALSE]]
  <2>1. \A s \in Logins : session'[s] \in SessionRow /\ ~session'[s].here
    BY <1>5 DEF SessionsTyped, SessionRow
  <2>2. session' \in [Logins -> SessionRow]
    BY <1>5, <2>1
  <2> QED
    BY <1>1, <1>3, <2>1, <2>2 DEF SessionsTyped, Reopened, S!Valid
<1>6. CASE session' = [session EXCEPT ![r.of] = written]
  <2>1. /\ written \in SessionRow /\ written.idle = r.copy.idle
        /\ written.expires = row.expires /\ (row.revoked => written.revoked)
    BY <1>1 DEF S!Touched, SessionRow
  <2> HIDE DEF written
  <2>2. session' \in [Logins -> SessionRow]
    BY <1>1, <1>6, <2>1 DEF SessionsTyped
  <2>3. ASSUME NEW s \in Logins PROVE Reopened(s)
    <3>1. CASE s = r.of
      <4>1. session'[s] = written
        BY <1>1, <1>6, <3>1 DEF SessionsTyped
      <4>2. /\ session'[s].idle = r.copy.idle /\ session'[s].expires = session[s].expires
            /\ session[s].revoked => session'[s].revoked
        BY <2>1, <3>1, <4>1
      <4>3. S!Valid(s)' => now < r.copy.idle /\ now < session[s].expires /\ ~session[s].revoked
        BY <1>1, <4>2 DEF S!Valid, SessionsTyped
      <4> QED
        BY <1>1, <3>1, <4>3 DEF Reopened, SessionsTyped, SessionRow
    <3>2. CASE s # r.of
      BY <1>1, <1>6, <3>2 DEF Reopened, S!Valid, SessionsTyped
    <3> QED
      BY <3>1, <3>2
  <2> QED
    BY <1>1, <1>3, <2>2, <2>3 DEF SessionsTyped
<1> DEFINE gone == [s \in Logins |-> [session[s] EXCEPT !.here = FALSE]]
           one  == [session EXCEPT ![r.of] = written]
<1>7. session' = IF ~row.here THEN session ELSE
                 CASE r.kind = "delete account" -> gone
                   [] r.kind # "delete account" /\ r.at = "locked" -> one
                   [] OTHER -> session
  BY DEF S!RequestEnds
<1> HIDE DEF gone, one, written, row, r
<1>8. session' \in {session, gone, one}
  BY <1>7
<1> QED
  BY <1>4, <1>5, <1>6, <1>8 DEF gone, one

LEMMA SessionsStep ==
  ASSUME IdleTime \in Nat, Lifetime \in Nat, SessionsTyped, [S!SessionsNext]_sessionVars
  PROVE  SessionsTyped' /\ \A s \in Logins : Reopened(s)
<1>1. CASE UNCHANGED <<now, session, served>>
  BY <1>1 DEF SessionsTyped, Reopened, S!Valid
<1>2. ASSUME NEW g \in Guessers, S!LoginBegin(g) \/ S!WrongPassword(g)
      PROVE  UNCHANGED <<now, session, served>>
  BY <1>2 DEF S!LoginBegin, S!WrongPassword
<1>3. ASSUME NEW g \in Guessers, NEW t \in Logins, S!LoggedIn(g, t)
      PROVE  SessionsTyped' /\ \A s \in Logins : Reopened(s)
  <2> DEFINE fresh == [here |-> TRUE, revoked |-> FALSE, seen |-> now, idle |-> now + IdleTime,
                       expires |-> now + Lifetime]
  <2>1. session' = [session EXCEPT ![t] = fresh] /\ ~session[t].here /\ UNCHANGED <<now, served>>
    BY <1>3 DEF S!LoggedIn
  <2>2. fresh \in SessionRow
    BY DEF SessionRow, SessionsTyped
  <2> HIDE DEF fresh
  <2>3. SessionsTyped'
    BY <2>1, <2>2 DEF SessionsTyped
  <2>4. \A s \in Logins : session[s].here => session'[s] = session[s]
    BY <2>1 DEF SessionsTyped
  <2> QED
    BY <2>1, <2>3, <2>4 DEF Reopened, S!Valid
<1>4. ASSUME NEW q \in Requests, NEW s \in Logins, NEW kind, S!Resolve(q, s, kind)
      PROVE  SessionsTyped' /\ UNCHANGED <<now, session>>
  <2> DEFINE row == [at |-> "resolved", of |-> s, kind |-> kind,
                     copy |-> IF now > session[s].seen
                       THEN [session[s] EXCEPT !.seen = now,
                               !.idle = S!Min2(now + IdleTime, session[s].expires)]
                       ELSE session[s]]
  <2>1. served' = [served EXCEPT ![q] = row] /\ UNCHANGED <<now, session>>
    BY <1>4 DEF S!Resolve
  <2>2. session[s] \in SessionRow /\ now \in Nat
    BY DEF SessionsTyped
  <2>3. S!Min2(now + IdleTime, session[s].expires) \in Nat
    BY <2>2 DEF S!Min2, SessionRow
  <2>4. row.copy \in SessionRow
    BY <2>2, <2>3 DEF SessionRow
  <2>5. Served(row)
    BY <2>4 DEF Served
  <2> HIDE DEF row
  <2> QED
    BY <2>1, <2>5, ServedPut
<1>5. ASSUME NEW q \in Requests, S!LockSession(q)
      PROVE  SessionsTyped' /\ UNCHANGED <<now, session>>
  <2> DEFINE row == [served[q] EXCEPT !.at = "locked"]
  <2>1. served' = [served EXCEPT ![q] = row] /\ UNCHANGED <<now, session>>
    BY <1>5 DEF S!LockSession
  <2>2. Served(row)
    BY <1>5 DEF S!LockSession, Served, SessionsTyped
  <2> HIDE DEF row
  <2> QED
    BY <2>1, <2>2, ServedPut
<1>6. ASSUME NEW q \in Requests, S!RequestFails(q)
      PROVE  SessionsTyped' /\ UNCHANGED <<now, session>>
  <2>1. Served(S!NoRequest)
    BY DEF Served, S!NoRequest, S!NoSession, SessionRow
  <2> QED
    BY <1>6, <2>1, ServedPut DEF S!RequestFails
<1>7. ASSUME UNCHANGED <<now, session>>
      PROVE  \A s \in Logins : Reopened(s)
  BY <1>7 DEF Reopened, S!Valid
<1>8. CASE S!Tick
  <2>1. now' = now + 1 /\ UNCHANGED <<session, served>>
    BY <1>8 DEF S!Tick
  <2>2. \A s \in Logins : session[s] \in SessionRow /\ now \in Nat
    BY DEF SessionsTyped
  <2>3. \A s \in Logins : S!Valid(s)' => S!Valid(s)
    BY <2>1, <2>2 DEF S!Valid, SessionRow
  <2> QED
    BY <2>1, <2>3 DEF SessionsTyped, Reopened
<1>9. CASE S!ServeRequest
  BY <1>4, <1>5, <1>6, <1>7, <1>9, EndReopens DEF S!ServeRequest
<1>10. CASE S!SignIn
  BY <1>1, <1>2, <1>3, <1>10 DEF S!SignIn
<1> QED
  BY <1>1, <1>8, <1>9, <1>10 DEF S!SessionsNext, sessionVars

\* Who signed out stays out, and no session outlives its lifetime (auth.py 176-208, the
\* request's transaction in api/deps.py): a session that had only been idle for too long
\* comes back by a request that began before.
THEOREM SignedOutStands ==
  ASSUME IdleTime \in Nat, Lifetime \in Nat
  PROVE  ServicesSpec => SignedOutStaysOut
<1>1. ServicesInit => SessionsTyped
  <2>1. Served(S!NoRequest) /\ S!NoSession \in SessionRow
    BY DEF SessionRow, Served, S!NoRequest, S!NoSession
  <2>2. ServicesInit => /\ now = 0 /\ session = [s \in Logins |-> S!NoSession]
                        /\ served = [q \in Requests |-> S!NoRequest]
    BY DEF ServicesInit, S!SessionsInit
  <2> QED
    BY <2>1, <2>2 DEF SessionsTyped
<1>2. SessionsTyped /\ [ServicesNext]_servicesVars =>
        SessionsTyped' /\ \A s \in Logins : Reopened(s)
  BY SessionsStep DEF ServicesNext, OthersRest, servicesVars, sessionVars
<1>3. (\A s \in Logins : Reopened(s)) =>
        [<<session, now>>' # <<session, now>> => \A s \in Logins :
           session[s].here /\ ~S!Valid(s) /\ S!Valid(s)' =>
             /\ ~session[s].revoked /\ now < session[s].expires
             /\ \E q \in Requests : served[q].of = s /\ served[q].copy.idle > now]_sessionVars
  BY DEF Reopened
<1> QED
  BY <1>1, <1>2, <1>3, PTL DEF ServicesSpec, SignedOutStaysOut, S!SignedOutStaysOut,
     S!sessionVars, sessionVars

-----------------------------------------------------------------------------
(* Channels *)

\* A button is made for an approval; who is deciding by one is the owner; a button that
\* is used up has decided, is deciding now, or was cut off.
ButtonFits(d) ==
  /\ token[d] # "none" => subject[d[1]] \in C!Approval
  /\ token[d] = "used" =>
       \/ subject[d[1]] # "asked"
       \/ "cut" \in cause[d]
       \/ \E p \in Presses : press[p].at = "taken" /\ C!Button(p) = d

PressFits(p) ==
  /\ DOMAIN press[p] = {"at", "note", "chan", "who", "via", "seen"}
  /\ press[p].at # "none" => C!Button(p) \in C!Deliveries
  /\ press[p].at = "taken" => press[p].who = "owner"

ButtonsFit ==
  /\ DOMAIN token = C!Deliveries /\ DOMAIN cause = C!Deliveries
  /\ DOMAIN subject = Notes /\ DOMAIN press = Presses
  /\ \A p \in Presses : PressFits(p)
  /\ \A d \in C!Deliveries : ButtonFits(d)

\* Why something went wrong is not forgotten.
CausesStay == DOMAIN cause' = C!Deliveries /\ \A d \in C!Deliveries : cause[d] \subseteq cause'[d]
LEMMA CausesGrow ==
  ASSUME DOMAIN cause = C!Deliveries,
         UNCHANGED cause \/ \E ds, why : C!Tell(ds, why)
  PROVE  CausesStay
BY DEF CausesStay, C!Tell

\* What is done to buttons and approvals other than by pressing: buttons are made for
\* approvals or go with their rows, approvals are closed.
Elsewhere ==
  /\ UNCHANGED press /\ CausesStay
  /\ DOMAIN token' = C!Deliveries /\ DOMAIN subject' = Notes
  /\ \A d \in C!Deliveries :
       \/ token'[d] \in {token[d], "none"}
       \/ token'[d] = "live" /\ subject[d[1]] \in C!Approval
  /\ \A n \in Notes :
       \/ subject'[n] = subject[n]
       \/ subject[n] = "asked" /\ subject'[n] = "closed"
       \/ subject[n] \notin C!Approval

LEMMA ElsewhereFits ==
  ASSUME ButtonsFit, Elsewhere
  PROVE  ButtonsFit'
<1>1. ASSUME NEW d \in C!Deliveries
      PROVE  ButtonFits(d)'
  <2>1. d[1] \in Notes
    BY DEF C!Deliveries
  <2>2. ButtonFits(d)
    BY DEF ButtonsFit
  <2> QED
    BY <2>1, <2>2 DEF Elsewhere, CausesStay, ButtonFits, C!Approval, C!Button
<1> QED
  BY <1>1 DEF ButtonsFit, Elsewhere, CausesStay, PressFits, C!Button

LEMMA ElsewhereInStep ==
  ASSUME ButtonsFit, C!ChannelsNext, ~(\E p \in Presses : C!ChatLoop(p))
  PROVE  Elsewhere
<1> USE DEF ButtonsFit
<1>1. ASSUME UNCHANGED <<press, token, subject>>, UNCHANGED cause \/ \E ds, why : C!Tell(ds, why)
      PROVE  Elsewhere
  BY <1>1, CausesGrow DEF Elsewhere
<1>2. ASSUME NEW c \in Chans, C!UserOnChannel(c)
      PROVE  Elsewhere
  <2>1. CASE C!DeleteChannel(c)
    <3>1. UNCHANGED <<press, subject, cause>> /\ C!Cascade(Notes \X {c})
      BY <2>1 DEF C!DeleteChannel
    <3> QED
      BY <3>1, CausesGrow DEF Elsewhere, C!Cascade
  <2> QED
    BY <1>1, <1>2, <2>1 DEF C!UserOnChannel, C!CreateChannel, C!PairChannel, C!PauseChannel
<1>3. ASSUME NEW n \in Notes, C!Purge(n)
      PROVE  Elsewhere
  <2>1. /\ UNCHANGED <<press, subject>> /\ C!Cascade({n} \X Chans)
        /\ C!Tell({n} \X Chans, "renewed")
    BY <1>3 DEF C!Purge
  <2>2. CausesStay
    BY <2>1, CausesGrow
  <2> QED
    BY <2>1, <2>2 DEF Elsewhere, C!Cascade
<1>4. ASSUME NEW n \in Notes, C!UserOnNote(n) \/ C!Maintenance(n)
      PROVE  Elsewhere
  <2>1. CASE C!Settle(n)
    BY <2>1, CausesGrow DEF C!Settle, Elsewhere, C!Approval
  <2>2. CASE C!Notify(n)
    BY <2>2, CausesGrow DEF C!Notify, Elsewhere, C!Approval
  <2>3. ASSUME NEW what, C!Arises(n, what)
        PROVE  Elsewhere
    BY <2>3, CausesGrow DEF C!Arises, Elsewhere, C!Approval
  <2>4. CASE C!MarkRead(n)
    BY <1>1, <2>4 DEF C!MarkRead
  <2> QED
    BY <1>3, <1>4, <2>1, <2>2, <2>3, <2>4 DEF C!UserOnNote, C!Maintenance, C!DeleteNote,
       C!Retention
<1>5. ASSUME NEW d \in C!Deliveries, C!LockLapses(d)
      PROVE  Elsewhere
  BY <1>1, <1>5 DEF C!LockLapses
<1>6. ASSUME NEW w \in Workers, C!DeliveryLoop(w)
      PROVE  Elsewhere
  <2>1. ASSUME NEW d \in C!Deliveries, C!BeginSend(w, d)
        PROVE  Elsewhere
    BY <2>1, CausesGrow DEF C!BeginSend, Elsewhere
  <2>2. ASSUME NEW c \in Chans, NEW result, C!EndSend(w, c, result)
        PROVE  Elsewhere
    BY <1>1, <2>2 DEF C!EndSend
  <2>3. CASE C!ClaimDue(w) \/ C!WorkerDies(w)
    BY <1>1, <2>3 DEF C!ClaimDue, C!WorkerDies
  <2>4. ASSUME NEW d, C!NotSent(w, d)
        PROVE  Elsewhere
    BY <1>1, <2>4 DEF C!NotSent
  <2>5. ASSUME NEW c, C!Arrive(w, c)
        PROVE  Elsewhere
    BY <1>1, <2>5 DEF C!Arrive
  <2> QED
    BY <1>6, <2>1, <2>2, <2>3, <2>4, <2>5 DEF C!DeliveryLoop
<1> QED
  BY <1>2, <1>4, <1>5, <1>6 DEF C!ChannelsNext

\* What is decided already stays so when a press ends that decides nothing more.
LEMMA ButtonsStay ==
  ASSUME ButtonsFit, NEW p \in Presses, NEW to, press' = [press EXCEPT ![p] = to],
         UNCHANGED token, CausesStay,
         NEW d \in C!Deliveries, UNCHANGED subject,
         press[p].at = "taken" /\ C!Button(p) = d => "cut" \in cause'[d]
  PROVE  ButtonFits(d)'
<1>1. ButtonFits(d) /\ DOMAIN press = Presses
  BY DEF ButtonsFit
<1>2. ASSUME NEW q \in Presses, q # p
      PROVE  press'[q] = press[q] /\ C!Button(q)' = C!Button(q)
  BY <1>1, <1>2 DEF C!Button
<1>3. ASSUME token[d] = "used"
      PROVE  \/ subject[d[1]] # "asked"
             \/ "cut" \in cause'[d]
             \/ \E q \in Presses : press'[q].at = "taken" /\ C!Button(q)' = d
  <2>1. CASE \E q \in Presses : press[q].at = "taken" /\ C!Button(q) = d
    <3>1. PICK q \in Presses : press[q].at = "taken" /\ C!Button(q) = d
      BY <2>1
    <3>2. CASE q = p
      BY <3>1, <3>2
    <3>3. CASE q # p
      BY <1>2, <3>1, <3>3
    <3> QED
      BY <3>2, <3>3
  <2> QED
    BY <1>1, <1>3, <2>1 DEF ButtonFits, CausesStay
<1> QED
  BY <1>1, <1>3 DEF ButtonFits

\* An update moves on its way to the loop, or is dropped, with no button taken by it.
LEMMA HandedFits ==
  ASSUME ButtonsFit, NEW p \in Presses, NEW to, C!Handed(p, to), press[p].at # "taken",
         to.at # "taken", DOMAIN to = {"at", "note", "chan", "who", "via", "seen"},
         to.at # "none" => <<to.note, to.chan>> \in C!Deliveries
  PROVE  ButtonsFit'
<1>1. press' = [press EXCEPT ![p] = to] /\ UNCHANGED <<subject, token, cause>>
  BY DEF C!Handed
<1>2. CausesStay
  BY <1>1 DEF CausesStay, ButtonsFit
<1>3. \A d \in C!Deliveries : ButtonFits(d)'
  BY <1>1, <1>2, ButtonsStay
<1>4. ASSUME NEW q \in Presses
      PROVE  PressFits(q)'
  <2>1. press'[q] = IF q = p THEN to ELSE press[q]
    BY <1>1 DEF ButtonsFit
  <2>2. C!Button(q)' = IF q = p THEN <<to.note, to.chan>> ELSE C!Button(q)
    BY <2>1 DEF C!Button
  <2> QED
    BY <2>1, <2>2 DEF ButtonsFit, PressFits
<1> QED
  BY <1>1, <1>3, <1>4 DEF ButtonsFit

LEMMA ChatLoopFits ==
  ASSUME ButtonsFit, NEW p \in Presses, C!ChatLoop(p)
  PROVE  ButtonsFit'
<1> DEFINE fields == {"at", "note", "chan", "who", "via", "seen"}
<1>1. PressFits(p) /\ DOMAIN press = Presses
  BY DEF ButtonsFit
<1>2. C!NoPress.at = "none" /\ DOMAIN C!NoPress = fields
  BY DEF C!NoPress
<1>3. CASE C!Dispatched(p) \/ C!Missed(p) \/ C!Inboxed(p)
  <2>1. press[p].at = "sent"
    BY <1>3 DEF C!Dispatched, C!Missed, C!Inboxed
  <2>2. C!Handed(p, C!NoPress) \/ C!Handed(p, [press[p] EXCEPT !.at = "given"])
    BY <1>3 DEF C!Dispatched, C!Missed, C!Inboxed
  <2> DEFINE given == [press[p] EXCEPT !.at = "given"]
  <2>3. given.at = "given" /\ <<given.note, given.chan>> \in C!Deliveries /\ DOMAIN given = fields
    BY <1>1, <2>1 DEF PressFits, C!Button
  <2> HIDE DEF given
  <2> QED
    BY <1>2, <2>1, <2>2, <2>3, HandedFits DEF given
<1>4. CASE C!RecordInbound(p)
  <2>1. press[p].at \in {"given", "sent"}
    BY <1>4 DEF C!RecordInbound, C!Polled
  <2> DEFINE seen == [press[p] EXCEPT !.at = "seen", !.seen = TRUE]
  <2>2. C!Handed(p, C!NoPress) \/ C!Handed(p, seen)
    BY <1>4 DEF C!RecordInbound
  <2>3. seen.at = "seen" /\ <<seen.note, seen.chan>> \in C!Deliveries /\ DOMAIN seen = fields
    BY <1>1, <2>1 DEF PressFits, C!Button
  <2> HIDE DEF seen
  <2> QED
    BY <1>2, <2>1, <2>2, <2>3, HandedFits
<1>5. ASSUME NEW n \in Notes, NEW c \in Chans, NEW who, NEW via, C!Press(p, n, c, who, via)
      PROVE  ButtonsFit'
  <2> DEFINE to == [at |-> "sent", note |-> n, chan |-> c, who |-> who, via |-> via, seen |-> FALSE]
  <2>1. press[p].at = "none" /\ C!Handed(p, to)
    BY <1>5 DEF C!Press, C!Handed
  <2>2. to.at = "sent" /\ <<to.note, to.chan>> \in C!Deliveries /\ DOMAIN to = fields
    BY DEF C!Deliveries
  <2> HIDE DEF to
  <2> QED
    BY <2>1, <2>2, HandedFits
<1>6. CASE C!TakeToken(p)
  <2>1. press[p].at = "seen" /\ UNCHANGED <<subject, cause>>
    BY <1>6 DEF C!TakeToken
  <2>2. CASE press' = [press EXCEPT ![p] = C!NoPress] /\ UNCHANGED token
    <3>1. C!Handed(p, C!NoPress)
      BY <1>6, <2>2 DEF C!TakeToken, C!Handed
    <3> QED
      BY <1>2, <2>1, <3>1, HandedFits
  <2>3. CASE /\ C!Valid(p) /\ token' = [token EXCEPT ![C!Button(p)] = "used"]
             /\ press' = [press EXCEPT ![p].at = "taken"]
    <3> DEFINE e == C!Button(p)
    <3>1. press[p].who = "owner" /\ token[e] = "live" /\ e \in C!Deliveries
      BY <1>1, <2>1, <2>3 DEF C!Valid, PressFits
    <3>2. \A q \in Presses : /\ C!Button(q)' = C!Button(q) /\ press'[q].who = press[q].who
                             /\ DOMAIN press'[q] = DOMAIN press[q]
                             /\ press'[q].at = IF q = p THEN "taken" ELSE press[q].at
      BY <1>1, <2>3 DEF C!Button, PressFits, ButtonsFit
    <3>3. \A q \in Presses : PressFits(q)'
      BY <1>1, <2>1, <3>1, <3>2 DEF PressFits, ButtonsFit
    <3>4. ASSUME NEW d \in C!Deliveries
          PROVE  ButtonFits(d)'
      <4>1. ButtonFits(d)
        BY DEF ButtonsFit
      <4>2. CASE d = e
        <5>1. subject[d[1]] \in C!Approval
          BY <3>1, <4>1, <4>2 DEF ButtonFits
        <5> HIDE DEF e
        <5>2. press'[p].at = "taken" /\ C!Button(p)' = d
          BY <3>2, <4>2 DEF e
        <5> QED
          BY <2>1, <5>1, <5>2 DEF ButtonFits
      <4>3. CASE d # e
        <5>1. token'[d] = token[d]
          BY <2>3, <4>3 DEF ButtonsFit
        <5> QED
          BY <2>1, <3>2, <4>1, <5>1 DEF ButtonFits
      <4> QED
        BY <4>2, <4>3
    <3> QED
      BY <1>1, <2>1, <2>3, <3>3, <3>4 DEF ButtonsFit
  <2> QED
    BY <1>6, <2>2, <2>3 DEF C!TakeToken
<1>7. CASE C!DecideByButton(p)
  <2> DEFINE n == press[p].note
  <2>1. /\ press[p].at = "taken" /\ C!Button(p) \in C!Deliveries
        /\ subject' = [subject EXCEPT ![n] = IF @ = "asked" THEN "closed" ELSE @]
        /\ press' = [press EXCEPT ![p] = C!NoPress] /\ UNCHANGED <<token, cause>>
    BY <1>1, <1>7 DEF C!DecideByButton, PressFits
  <2>2. ASSUME NEW d \in C!Deliveries
        PROVE  ButtonFits(d)'
    <3>1. ButtonFits(d) /\ d[1] \in Notes
      BY DEF ButtonsFit, C!Deliveries
    <3>2. CASE d[1] = n
      <4>1. subject'[n] # "asked" /\ (subject[n] \in C!Approval => subject'[n] \in C!Approval)
        BY <2>1, <3>1, <3>2 DEF ButtonsFit, C!Approval
      <4> QED
        BY <2>1, <3>1, <3>2, <4>1 DEF ButtonFits
    <3>3. CASE d[1] # n
      <4>1. subject'[d[1]] = subject[d[1]]
        BY <2>1, <3>1, <3>3 DEF ButtonsFit
      <4>2. ASSUME NEW q \in Presses, press[q].at = "taken", C!Button(q) = d
            PROVE  press'[q].at = "taken" /\ C!Button(q)' = d
        <5>1. q # p
          BY <3>3, <4>2 DEF C!Button
        <5> QED
          BY <1>1, <2>1, <4>2, <5>1 DEF C!Button
      <4> QED
        BY <2>1, <3>1, <4>1, <4>2 DEF ButtonFits
    <3> QED
      BY <3>2, <3>3
  <2>3. ASSUME NEW q \in Presses
        PROVE  PressFits(q)'
    BY <1>1, <1>2, <2>1 DEF ButtonsFit, PressFits, C!Button
  <2> QED
    BY <1>1, <2>1, <2>2, <2>3 DEF ButtonsFit
<1>8. CASE C!LoopCut(p)
  <2> DEFINE back == IF press[p].via = "telegram" THEN [press[p] EXCEPT !.at = "sent"]
                     ELSE C!NoPress
  <2>1. /\ press[p].at # "none" /\ press' = [press EXCEPT ![p] = back]
        /\ UNCHANGED <<subject, token>>
        /\ IF press[p].at = "taken" THEN C!Tell({C!Button(p)}, "cut") ELSE UNCHANGED cause
    BY <1>8, <1>1 DEF C!LoopCut
  <2>2. back.at # "taken" /\ DOMAIN back = fields
        /\ (back.at # "none" => <<back.note, back.chan>> \in C!Deliveries)
    BY <1>1, <1>2, <2>1 DEF PressFits, C!Button
  <2> HIDE DEF back
  <2>3. CausesStay
    BY <2>1, CausesGrow DEF ButtonsFit
  <2>4. ASSUME NEW d \in C!Deliveries
        PROVE  ButtonFits(d)'
    <3>1. press[p].at = "taken" /\ C!Button(p) = d => "cut" \in cause'[d]
      BY <2>1 DEF C!Tell
    <3> QED
      BY <2>1, <2>3, <3>1, ButtonsStay
  <2>5. ASSUME NEW q \in Presses
        PROVE  PressFits(q)'
    <3>1. press'[q] = IF q = p THEN back ELSE press[q]
      BY <1>1, <2>1
    <3>2. C!Button(q)' = IF q = p THEN <<back.note, back.chan>> ELSE C!Button(q)
      BY <3>1 DEF C!Button
    <3> QED
      BY <2>2, <3>1, <3>2 DEF ButtonsFit, PressFits
  <2> QED
    BY <1>1, <2>1, <2>3, <2>4, <2>5 DEF ButtonsFit, CausesStay
<1> QED
  BY <1>3, <1>4, <1>5, <1>6, <1>7, <1>8 DEF C!ChatLoop

\* A button that no longer works has decided, is deciding by its owner's hand, or was cut
\* off by a crash of the loop (channels.py, handle_action).
THEOREM UsedButtonHasDecided == ServicesSpec => []UsedButtonDecided
<1>1. ServicesInit => ButtonsFit
  BY DEF ServicesInit, C!ChannelsInit, ButtonsFit, ButtonFits, PressFits, C!NoPress
<1>2. ButtonsFit /\ [ServicesNext]_servicesVars => ButtonsFit'
  <2>1. ButtonsFit /\ UNCHANGED channelsVars => ButtonsFit'
    BY DEF channelsVars, ButtonsFit, ButtonFits, PressFits, C!Button
  <2>2. ButtonsFit /\ C!ChannelsNext => ButtonsFit'
    BY ChatLoopFits, ElsewhereInStep, ElsewhereFits
  <2> QED
    BY <2>1, <2>2 DEF ServicesNext, OthersRest, servicesVars
<1>3. ButtonsFit => UsedButtonDecided
  BY DEF ButtonsFit, ButtonFits, PressFits, UsedButtonDecided, C!UsedButtonDecided
<1> QED
  BY <1>1, <1>2, <1>3, PTL DEF ServicesSpec

\* Nothing that the outbox cannot exclude has happened to a delivery.
Clean(d) == "again" \notin cause[d] /\ "renewed" \notin cause[d]

Carries(w, d) == wire[w][d[2]] # Nowhere /\ wire[w][d[2]].note = d[1]

\* A delivery to which nothing happened: sent at most once, by the one worker that
\* claimed it; who carries it has claimed it, and knows whether it arrived; it is pending
\* again only when it did not; and it is not made twice.
OnceFits(d) ==
  /\ copies[d] \in {0, 1}
  /\ outbox[d].status = "sending" => outbox[d].locked
  /\ outbox[d].status = "pending" => copies[d] = 0
  /\ note[d[1]] = "none" =>
       outbox[d].status = "none" /\ copies[d] = 0 /\ \A w \in Workers : d \notin claimed[w]
  /\ \A w \in Workers : d \in claimed[w] =>
       /\ outbox[d].status \in {"none", "sending"}
       /\ \A v \in Workers : d \in claimed[v] => v = w
       /\ outbox[d].status = "sending" /\ copies[d] = 1 =>
            Carries(w, d) /\ wire[w][d[2]].arrived
  /\ \A w \in Workers : Carries(w, d) =>
       d \in claimed[w] /\ (wire[w][d[2]].arrived \/ copies[d] = 0)

WireFits(w, c) ==
  wire[w][c] # Nowhere =>
    wire[w][c] \in [note : Notes, attempts : 0..MaxAttempts, arrived : BOOLEAN]

RowFits(d) ==
  /\ DOMAIN outbox[d] = {"status", "attempts", "locked"}
  /\ outbox[d].attempts \in 0..MaxAttempts
  /\ outbox[d].status = "sending" => outbox[d].attempts > 0

OutboxShapes ==
  /\ DOMAIN outbox = C!Deliveries /\ DOMAIN copies = C!Deliveries
  /\ DOMAIN cause = C!Deliveries /\ DOMAIN note = Notes
  /\ DOMAIN claimed = Workers /\ DOMAIN wire = Workers
  /\ \A w \in Workers : DOMAIN wire[w] = Chans /\ \A c \in Chans : WireFits(w, c)
  /\ \A d \in C!Deliveries : RowFits(d)

OutboxFits ==
  /\ OutboxShapes
  /\ \A d \in C!Deliveries : Clean(d) => OnceFits(d)

\* A delivery that a step is not about, but for its row, which may go.
LEMMA Untouched ==
  ASSUME OutboxFits, CausesStay, NEW d \in C!Deliveries,
         outbox'[d] = outbox[d] \/ outbox'[d] = C!NoRow, copies'[d] = copies[d],
         note'[d[1]] = "none" => note[d[1]] = "none",
         \A w \in Workers : d \in claimed'[w] <=> d \in claimed[w],
         \A w \in Workers : \/ wire'[w][d[2]] = wire[w][d[2]]
                            \/ ~Carries(w, d) /\ ~Carries(w, d)'
  PROVE  Clean(d)' => OnceFits(d)'
<1> SUFFICES ASSUME Clean(d)'
             PROVE  OnceFits(d)'
  OBVIOUS
<1>1. OnceFits(d)
  BY DEF OutboxFits, Clean, CausesStay
<1>2. ASSUME NEW w \in Workers
      PROVE  /\ Carries(w, d)' <=> Carries(w, d)
             /\ Carries(w, d) => (wire'[w][d[2]].arrived <=> wire[w][d[2]].arrived)
  BY DEF Carries
<1>3. CASE outbox'[d] = outbox[d]
  BY <1>1, <1>2, <1>3 DEF OnceFits
<1>4. CASE outbox'[d] = C!NoRow
  <2>1. outbox'[d].status = "none"
    BY <1>4 DEF C!NoRow
  <2> QED
    BY <1>1, <1>2, <2>1 DEF OnceFits
<1> QED
  BY <1>3, <1>4

\* Steps that are not about deliveries
LEMMA Quiet ==
  ASSUME OutboxFits, CausesStay, UNCHANGED <<outbox, claimed, wire, copies>>,
         DOMAIN note' = Notes, \A n \in Notes : note'[n] = "none" => note[n] = "none"
  PROVE  OutboxFits'
<1>1. OutboxShapes'
  BY DEF OutboxFits, OutboxShapes, CausesStay, WireFits, RowFits
<1>2. ASSUME NEW d \in C!Deliveries
      PROVE  Clean(d)' => OnceFits(d)'
  <2>1. d[1] \in Notes
    BY DEF C!Deliveries
  <2> QED
    BY <2>1, Untouched
<1> QED
  BY <1>1, <1>2 DEF OutboxFits

\* Rows that go with their channel, or with their notification
LEMMA CascadeFits ==
  ASSUME OutboxFits, CausesStay, NEW ds \in SUBSET C!Deliveries, C!Cascade(ds), DOMAIN note' = Notes,
         UNCHANGED <<claimed, wire, copies>>,
         \A n \in Notes : note'[n] = note[n] \/ \A d \in C!Deliveries : d[1] = n => ~Clean(d)',
         ChannelsAssumption
  PROVE  OutboxFits'
<1>1. outbox' = [d \in C!Deliveries |-> IF d \in ds THEN C!NoRow ELSE outbox[d]]
  BY DEF C!Cascade
<1>2. OutboxShapes'
  BY <1>1 DEF OutboxFits, OutboxShapes, CausesStay, WireFits, RowFits, C!NoRow,
     ChannelsAssumption
<1>3. ASSUME NEW d \in C!Deliveries
      PROVE  Clean(d)' => OnceFits(d)'
  <2>1. d[1] \in Notes /\ (outbox'[d] = outbox[d] \/ outbox'[d] = C!NoRow)
    BY <1>1 DEF C!Deliveries
  <2>2. CASE note'[d[1]] = note[d[1]]
    BY <2>1, <2>2, Untouched
  <2> QED
    BY <2>1, <2>2
<1> QED
  BY <1>2, <1>3 DEF OutboxFits

LEMMA NotifyFits ==
  ASSUME OutboxFits, ChannelsAssumption, NEW n \in Notes, C!Notify(n)
  PROVE  OutboxFits'
<1>1. /\ note[n] = "none" /\ note' = [note EXCEPT ![n] = "unread"]
      /\ UNCHANGED <<claimed, wire, copies, cause>>
      /\ outbox' = [d \in C!Deliveries |->
           IF d[1] = n /\ channel[d[2]].status = "active"
             THEN [C!NoRow EXCEPT !.status = "pending"] ELSE outbox[d]]
  BY DEF C!Notify, C!Enqueued
<1>2. CausesStay
  BY <1>1 DEF CausesStay, OutboxFits, OutboxShapes
<1>3. OutboxShapes'
  BY <1>1 DEF OutboxFits, OutboxShapes, WireFits, RowFits, C!NoRow, ChannelsAssumption
<1>4. ASSUME NEW d \in C!Deliveries
      PROVE  Clean(d)' => OnceFits(d)'
  <2>1. d[1] \in Notes
    BY DEF C!Deliveries
  <2>2. CASE outbox'[d] = outbox[d]
    <3>1. note'[d[1]] = "none" => note[d[1]] = "none"
      BY <1>1, <2>1 DEF OutboxFits, OutboxShapes
    <3> QED
      BY <1>1, <1>2, <2>2, <3>1, Untouched
  <2>3. CASE d[1] = n /\ outbox'[d] = [C!NoRow EXCEPT !.status = "pending"]
    <3>1. outbox'[d].status = "pending"
      BY <2>3 DEF C!NoRow
    <3>2. Clean(d)' => OnceFits(d)
      BY <1>1 DEF OutboxFits, Clean
    <3>3. note'[d[1]] = "unread"
      BY <1>1, <2>3 DEF OutboxFits, OutboxShapes
    <3> QED
      BY <1>1, <2>3, <3>1, <3>2, <3>3 DEF OnceFits, Carries
  <2> QED
    BY <1>1, <2>2, <2>3
<1> QED
  BY <1>3, <1>4 DEF OutboxFits

LEMMA ClaimFits ==
  ASSUME OutboxFits, ChannelsAssumption, NEW w \in Workers, C!ClaimDue(w)
  PROVE  OutboxFits'
<1>1. PICK ds \in SUBSET C!Due :
        /\ claimed[w] = {} /\ claimed' = [claimed EXCEPT ![w] = ds]
        /\ UNCHANGED <<note, wire, copies, cause>>
        /\ outbox' = [d \in C!Deliveries |->
             IF d \in ds THEN [status |-> "sending", locked |-> TRUE,
                               attempts |-> outbox[d].attempts + 1]
             ELSE outbox[d]]
  BY DEF C!ClaimDue
<1>2. CausesStay
  BY <1>1 DEF CausesStay, OutboxFits, OutboxShapes
<1>3. \A d \in ds : /\ d \in C!Deliveries /\ outbox[d].attempts < MaxAttempts
                    /\ \/ outbox[d].status = "pending"
                       \/ outbox[d].status = "sending" /\ ~outbox[d].locked
  BY DEF C!Due
<1>4. OutboxShapes'
  <2>1. ASSUME NEW d \in C!Deliveries
        PROVE  RowFits(d)'
    <3>1. RowFits(d)
      BY DEF OutboxFits, OutboxShapes
    <3>2. CASE d \in ds
      <4>1. /\ DOMAIN outbox'[d] = {"status", "attempts", "locked"}
            /\ outbox'[d].attempts = outbox[d].attempts + 1
        BY <1>1, <3>2
      <4> QED
        BY <1>3, <3>1, <3>2, <4>1 DEF RowFits, ChannelsAssumption
    <3>3. CASE d \notin ds
      BY <1>1, <3>1, <3>3 DEF RowFits
    <3> QED
      BY <3>2, <3>3
  <2> QED
    BY <1>1, <2>1 DEF OutboxFits, OutboxShapes, WireFits
<1>5. ASSUME NEW d \in C!Deliveries
      PROVE  Clean(d)' => OnceFits(d)'
  <2>1. Clean(d)' => OnceFits(d)
    BY <1>1 DEF OutboxFits, Clean
  <2>2. \A v \in Workers : d \in claimed'[v] <=> IF v = w THEN d \in ds ELSE d \in claimed[v]
    BY <1>1 DEF OutboxFits, OutboxShapes
  <2>3. CASE d \in ds
    <3>1. outbox'[d].status = "sending" /\ outbox'[d].locked
      BY <1>1, <2>3
    <3>2. Clean(d)' => outbox[d].status = "pending"
      BY <1>3, <2>1, <2>3 DEF OnceFits
    <3> QED
      BY <1>1, <2>1, <2>2, <2>3, <3>1, <3>2 DEF OnceFits, Carries
  <2>4. CASE d \notin ds
    <3>1. outbox'[d] = outbox[d] /\ \A v \in Workers : d \in claimed'[v] <=> d \in claimed[v]
      BY <1>1, <2>2, <2>4
    <3> QED
      BY <1>1, <1>2, <3>1, Untouched
  <2> QED
    BY <2>3, <2>4
<1> QED
  BY <1>4, <1>5 DEF OutboxFits

\* A delivery to which nothing happened and that its worker is not sending did not arrive.
LEMMA NotCarried ==
  ASSUME NEW w \in Workers, NEW d \in C!Deliveries, OnceFits(d), d \in claimed[w],
         wire[w][d[2]] = Nowhere, outbox[d].status = "sending"
  PROVE  copies[d] = 0
BY DEF OnceFits, Carries

LEMMA NotSentFits ==
  ASSUME OutboxFits, ChannelsAssumption, NEW w \in Workers, NEW d \in C!Deliveries,
         C!NotSent(w, d)
  PROVE  OutboxFits'
<1>1. /\ d \in claimed[w] /\ wire[w][d[2]] = Nowhere
      /\ claimed' = [claimed EXCEPT ![w] = @ \ {d}]
      /\ UNCHANGED <<note, wire, copies, cause>>
  BY DEF C!NotSent, C!Turn, C!Done
<1>2. \/ outbox[d].status # "sending" /\ outbox' = outbox
      \/ outbox[d].status = "sending" /\ outbox' = [outbox EXCEPT ![d].status = "skipped"]
      \/ outbox[d].status = "sending" /\ outbox' = [outbox EXCEPT ![d] =
           [status |-> "pending", locked |-> FALSE, attempts |-> outbox[d].attempts - 1]]
  BY DEF C!NotSent
<1>3. CausesStay
  BY <1>1 DEF CausesStay, OutboxFits, OutboxShapes
<1>4. /\ DOMAIN outbox' = C!Deliveries
      /\ \A e \in C!Deliveries \ {d} : outbox'[e] = outbox[e]
      /\ RowFits(d)'
      /\ \/ outbox'[d] = outbox[d] /\ outbox[d].status # "sending"
         \/ outbox[d].status = "sending" /\ outbox'[d].status \in {"skipped", "pending"}
  <2>1. RowFits(d) /\ DOMAIN outbox = C!Deliveries
    BY DEF OutboxFits, OutboxShapes
  <2>2. CASE outbox[d].status # "sending" /\ outbox' = outbox
    BY <2>1, <2>2 DEF RowFits
  <2>3. CASE outbox[d].status = "sending" /\ outbox' = [outbox EXCEPT ![d].status = "skipped"]
    BY <2>1, <2>3 DEF RowFits
  <2>4. CASE outbox[d].status = "sending" /\ outbox' = [outbox EXCEPT ![d] =
           [status |-> "pending", locked |-> FALSE, attempts |-> outbox[d].attempts - 1]]
    <3>1. outbox'[d] = [status |-> "pending", locked |-> FALSE,
                        attempts |-> outbox[d].attempts - 1]
      BY <2>1, <2>4
    <3> QED
      BY <2>1, <2>4, <3>1 DEF RowFits, ChannelsAssumption
  <2> QED
    BY <1>2, <2>2, <2>3, <2>4
<1>5. OutboxShapes'
  BY <1>1, <1>4 DEF OutboxFits, OutboxShapes, WireFits, RowFits
<1>6. ASSUME NEW e \in C!Deliveries
      PROVE  Clean(e)' => OnceFits(e)'
  <2>1. Clean(e)' => OnceFits(e)
    BY <1>1 DEF OutboxFits, Clean
  <2>2. \A v \in Workers : e \in claimed'[v] <=> e \in claimed[v] /\ ~(v = w /\ e = d)
    BY <1>1 DEF OutboxFits, OutboxShapes
  <2>3. CASE e = d
    <3>1. OnceFits(d) => \A v \in Workers : d \notin claimed'[v] /\ ~Carries(v, d)
      BY <1>1, <2>2, <2>3 DEF OnceFits, Carries
    <3>2. OnceFits(d) /\ outbox[d].status = "sending" => copies[d] = 0
      BY <1>1, NotCarried
    <3> QED
      BY <1>1, <1>4, <2>1, <2>3, <3>1, <3>2 DEF OnceFits, Carries
  <2>4. CASE e # d
    <3>1. outbox'[e] = outbox[e] /\ \A v \in Workers : e \in claimed'[v] <=> e \in claimed[v]
      BY <1>4, <2>2, <2>4
    <3> QED
      BY <1>1, <1>3, <3>1, Untouched
  <2> QED
    BY <2>3, <2>4
<1> QED
  BY <1>5, <1>6 DEF OutboxFits

LEMMA BeginSendFits ==
  ASSUME OutboxFits, ChannelsAssumption, NEW w \in Workers, NEW d \in C!Deliveries,
         C!BeginSend(w, d)
  PROVE  OutboxFits'
<1> DEFINE carried == [note |-> d[1], attempts |-> outbox[d].attempts, arrived |-> FALSE]
<1>1. /\ d \in claimed[w] /\ wire[w][d[2]] = Nowhere /\ outbox[d].status = "sending"
      /\ wire' = [wire EXCEPT ![w][d[2]] = carried]
      /\ UNCHANGED <<note, outbox, claimed, copies, cause>>
  BY DEF C!BeginSend, C!Turn
<1>2. d[1] \in Notes /\ d[2] \in Chans /\ d = <<d[1], d[2]>>
  BY DEF C!Deliveries
<1>3. CausesStay
  BY <1>1 DEF CausesStay, OutboxFits, OutboxShapes
<1>4. carried \in [note : Notes, attempts : 0..MaxAttempts, arrived : BOOLEAN]
      /\ carried.note = d[1] /\ ~carried.arrived
  BY <1>2 DEF OutboxFits, OutboxShapes, RowFits
<1> HIDE DEF carried
<1>5. \A v \in Workers, c \in Chans :
        wire'[v][c] = IF v = w /\ c = d[2] THEN carried ELSE wire[v][c]
  BY <1>1 DEF OutboxFits, OutboxShapes
<1>6. OutboxShapes'
  BY <1>1, <1>4, <1>5 DEF OutboxFits, OutboxShapes, WireFits, RowFits
<1>7. ASSUME NEW e \in C!Deliveries
      PROVE  Clean(e)' => OnceFits(e)'
  <2>1. e[2] \in Chans /\ e = <<e[1], e[2]>>
    BY DEF C!Deliveries
  <2>2. CASE e = d
    <3>1. Clean(e)' => OnceFits(e) /\ copies[e] = 0
      BY <1>1, <2>2, NotCarried DEF OutboxFits, Clean
    <3>2. \A v \in Workers : v # w => (Carries(v, e)' <=> Carries(v, e))
      BY <1>5, <2>1 DEF Carries
    <3> QED
      BY <1>1, <2>2, <3>1, <3>2 DEF OnceFits
  <2>3. CASE e # d
    <3>1. ASSUME NEW v \in Workers
          PROVE  \/ wire'[v][e[2]] = wire[v][e[2]]
                 \/ ~Carries(v, e) /\ ~Carries(v, e)'
      <4>1. CASE v = w /\ e[2] = d[2]
        BY <1>1, <1>2, <1>4, <1>5, <2>1, <2>3, <4>1 DEF Carries
      <4>2. CASE ~(v = w /\ e[2] = d[2])
        BY <1>5, <2>1, <4>2
      <4> QED
        BY <4>1, <4>2
    <3> QED
      BY <1>1, <1>3, <3>1, Untouched
  <2> QED
    BY <2>2, <2>3
<1> QED
  BY <1>6, <1>7 DEF OutboxFits

LEMMA ArriveFits ==
  ASSUME OutboxFits, ChannelsAssumption, NEW w \in Workers, NEW c \in Chans, C!Arrive(w, c)
  PROVE  OutboxFits'
<1> DEFINE d == <<wire[w][c].note, c>>
           there == [wire[w][c] EXCEPT !.arrived = TRUE]
<1>1. /\ wire[w][c] # Nowhere /\ ~wire[w][c].arrived
      /\ wire' = [wire EXCEPT ![w][c].arrived = TRUE]
      /\ copies' = [copies EXCEPT ![d] = IF @ = 2 THEN 2 ELSE @ + 1]
      /\ UNCHANGED <<note, outbox, claimed, cause>>
  BY DEF C!Arrive
<1>2. wire[w][c] \in [note : Notes, attempts : 0..MaxAttempts, arrived : BOOLEAN]
  BY <1>1 DEF OutboxFits, OutboxShapes, WireFits
<1>3. /\ there \in [note : Notes, attempts : 0..MaxAttempts, arrived : BOOLEAN]
      /\ there.note = wire[w][c].note /\ there.arrived /\ there # Nowhere
  BY <1>2 DEF ChannelsAssumption
<1>4. d \in C!Deliveries
  BY <1>2 DEF C!Deliveries
<1>5. CausesStay
  BY <1>1 DEF CausesStay, OutboxFits, OutboxShapes
<1>6. \A v \in Workers, a \in Chans :
        wire'[v][a] = IF v = w /\ a = c THEN there ELSE wire[v][a]
  BY <1>1 DEF OutboxFits, OutboxShapes
<1> HIDE DEF there
<1>7. OutboxShapes'
  BY <1>1, <1>3, <1>6 DEF OutboxFits, OutboxShapes, WireFits, RowFits
<1>8. ASSUME NEW e \in C!Deliveries
      PROVE  Clean(e)' => OnceFits(e)'
  <2>1. e[2] \in Chans /\ e = <<e[1], e[2]>>
    BY DEF C!Deliveries
  <2>2. ASSUME NEW v \in Workers
        PROVE  Carries(v, e)' <=> Carries(v, e)
    <3>1. wire'[v][e[2]] = IF v = w /\ e[2] = c THEN there ELSE wire[v][e[2]]
      BY <1>6, <2>1
    <3>2. CASE v = w /\ e[2] = c
      BY <1>1, <1>3, <3>1, <3>2 DEF Carries
    <3>3. CASE ~(v = w /\ e[2] = c)
      BY <3>1, <3>3 DEF Carries
    <3> QED
      BY <3>2, <3>3
  <2>3. CASE e = d
    <3>1. Carries(w, e) /\ e[2] = c
      BY <1>1, <2>3 DEF Carries
    <3>2. Clean(e)' => OnceFits(e) /\ copies[e] = 0
      BY <1>1, <2>3, <3>1 DEF OutboxFits, Clean, OnceFits
    <3>3. copies[e] = 0 => copies'[e] = 1
      BY <1>1, <1>4, <2>3 DEF OutboxFits, OutboxShapes
    <3>4. wire'[w][e[2]].arrived
      BY <1>3, <1>6, <3>1
    <3> HIDE DEF d
    <3>5. OnceFits(e) => e \in claimed[w] /\ \A v \in Workers : Carries(v, e) => v = w
      BY <3>1 DEF OnceFits
    <3> QED
      BY <1>1, <2>2, <3>1, <3>2, <3>3, <3>4, <3>5 DEF OnceFits
  <2>4. CASE e # d
    <3>1. copies'[e] = copies[e]
      BY <1>1, <2>4 DEF OutboxFits, OutboxShapes
    <3>2. ASSUME NEW v \in Workers
          PROVE  \/ wire'[v][e[2]] = wire[v][e[2]]
                 \/ ~Carries(v, e) /\ ~Carries(v, e)'
      <4>1. CASE v = w /\ e[2] = c
        BY <2>1, <2>2, <2>4, <4>1 DEF Carries
      <4>2. CASE ~(v = w /\ e[2] = c)
        BY <1>6, <2>1, <4>2
      <4> QED
        BY <4>1, <4>2
    <3> QED
      BY <1>1, <1>5, <3>1, <3>2, Untouched
  <2> QED
    BY <2>3, <2>4
<1> QED
  BY <1>7, <1>8 DEF OutboxFits

LEMMA EndSendFits ==
  ASSUME OutboxFits, ChannelsAssumption, NEW w \in Workers, NEW c \in Chans, NEW result,
         C!EndSend(w, c, result)
  PROVE  OutboxFits'
<1>1. PICK d, status :
      /\ d = <<wire[w][c].note, c>> /\ status = C!Recorded(result, wire[w][c].attempts)
      /\ wire[w][c] # Nowhere
      /\ claimed' = [claimed EXCEPT ![w] = @ \ {d}]
      /\ wire' = [wire EXCEPT ![w][c] = Nowhere]
      /\ \/ outbox[d].status = "none" /\ outbox' = outbox
         \/ outbox' = [outbox EXCEPT ![d].status = status, ![d].locked = FALSE]
      /\ IF wire[w][c].arrived /\ result # "ok" THEN C!Tell({d}, "again") ELSE UNCHANGED cause
      /\ UNCHANGED <<note, copies>>
  BY DEF C!EndSend, C!Done
<1>2. wire[w][c] \in [note : Notes, attempts : 0..MaxAttempts, arrived : BOOLEAN]
  BY <1>1 DEF OutboxFits, OutboxShapes, WireFits
<1>3. d \in C!Deliveries
  BY <1>1, <1>2 DEF C!Deliveries
<1>4. CausesStay
  BY <1>1, CausesGrow DEF OutboxFits, OutboxShapes
<1>5. /\ status \in {"sent", "pending", "dead"}
      /\ status = "pending" => result # "ok"
  BY <1>1 DEF C!Recorded
<1>6. \A v \in Workers, a \in Chans :
        wire'[v][a] = IF v = w /\ a = c THEN Nowhere ELSE wire[v][a]
  BY <1>1 DEF OutboxFits, OutboxShapes
<1>7. Clean(d)' => ~wire[w][c].arrived \/ result = "ok"
  BY <1>1, <1>3 DEF C!Tell, Clean
<1>8. /\ DOMAIN outbox' = C!Deliveries
      /\ \A e \in C!Deliveries \ {d} : outbox'[e] = outbox[e]
      /\ RowFits(d)'
      /\ \/ outbox'[d] = outbox[d] /\ outbox[d].status = "none"
         \/ outbox'[d].status = status
  <2>1. RowFits(d) /\ DOMAIN outbox = C!Deliveries
    BY <1>3 DEF OutboxFits, OutboxShapes
  <2>2. CASE outbox[d].status = "none" /\ outbox' = outbox
    BY <2>1, <2>2 DEF RowFits
  <2>3. CASE outbox' = [outbox EXCEPT ![d].status = status, ![d].locked = FALSE]
    <3>1. /\ DOMAIN outbox'[d] = DOMAIN outbox[d]
          /\ outbox'[d].status = status /\ outbox'[d].attempts = outbox[d].attempts
      BY <1>3, <2>1, <2>3 DEF RowFits
    <3> QED
      BY <1>5, <2>1, <2>3, <3>1 DEF RowFits
  <2> QED
    BY <1>1, <2>2, <2>3
<1>9. OutboxShapes'
  BY ZenonT(40), <1>1, <1>4, <1>6, <1>8 DEF OutboxFits, OutboxShapes, WireFits, RowFits, CausesStay
<1>10. ASSUME NEW e \in C!Deliveries
       PROVE  Clean(e)' => OnceFits(e)'
  <2>1. e[2] \in Chans /\ e = <<e[1], e[2]>>
    BY DEF C!Deliveries
  <2>2. \A v \in Workers : e \in claimed'[v] <=> e \in claimed[v] /\ ~(v = w /\ e = d)
    BY <1>1 DEF OutboxFits, OutboxShapes
  <2>3. Clean(e)' => Clean(e) /\ OnceFits(e)
    BY <1>4 DEF OutboxFits, Clean, CausesStay
  <2>4. CASE e = d
    <3>1. Carries(w, e) /\ e[2] = c
      BY <1>1, <2>4 DEF Carries
    <3>2. OnceFits(e) =>
            /\ e \in claimed[w] /\ \A v \in Workers : e \in claimed[v] => v = w
            /\ \A v \in Workers : Carries(v, e) => v = w
            /\ wire[w][c].arrived \/ copies[e] = 0
            /\ note[e[1]] # "none"
      BY <3>1 DEF OnceFits
    <3>3. OnceFits(e) => \A v \in Workers : e \notin claimed'[v] /\ ~Carries(v, e)'
      BY <1>6, <2>1, <2>2, <2>4, <3>1, <3>2 DEF Carries
    <3>4. Clean(e)' => outbox'[e].status \in {"none", "sent", "dead", "pending"}
                       /\ (outbox'[e].status = "pending" => copies[e] = 0)
      BY <1>5, <1>7, <1>8, <2>3, <2>4, <3>2
    <3> QED
      BY <1>1, <2>3, <3>2, <3>3, <3>4 DEF OnceFits
  <2>5. CASE e # d
    <3>1. outbox'[e] = outbox[e] /\ \A v \in Workers : e \in claimed'[v] <=> e \in claimed[v]
      BY <1>8, <2>2, <2>5
    <3>2. ASSUME NEW v \in Workers
          PROVE  \/ wire'[v][e[2]] = wire[v][e[2]]
                 \/ ~Carries(v, e) /\ ~Carries(v, e)'
      <4>1. CASE v = w /\ e[2] = c
        <5>1. wire'[v][e[2]] = Nowhere /\ wire[w][c].note # e[1]
          BY <1>1, <1>6, <2>1, <2>5, <4>1
        <5> QED
          BY <4>1, <5>1 DEF Carries
      <4>2. CASE ~(v = w /\ e[2] = c)
        BY <1>6, <2>1, <4>2
      <4> QED
        BY <4>1, <4>2
    <3> QED
      BY <1>1, <1>4, <3>1, <3>2, Untouched
  <2> QED
    BY <2>4, <2>5
<1> QED
  BY <1>9, <1>10 DEF OutboxFits

LEMMA LockLapsesFits ==
  ASSUME OutboxFits, ChannelsAssumption, NEW d \in C!Deliveries, C!LockLapses(d)
  PROVE  OutboxFits'
<1>1. /\ outbox' = [outbox EXCEPT ![d].locked = FALSE] /\ C!Tell({d}, "again")
      /\ UNCHANGED <<note, claimed, wire, copies>>
  BY DEF C!LockLapses
<1>2. CausesStay
  BY <1>1, CausesGrow DEF OutboxFits, OutboxShapes
<1>3. OutboxShapes'
  BY <1>1, <1>2 DEF OutboxFits, OutboxShapes, WireFits, RowFits, CausesStay
<1>4. ASSUME NEW e \in C!Deliveries
      PROVE  Clean(e)' => OnceFits(e)'
  <2>1. CASE e = d
    BY <1>1, <2>1 DEF C!Tell, Clean
  <2>2. CASE e # d
    <3>1. outbox'[e] = outbox[e]
      BY <1>1, <2>2 DEF OutboxFits, OutboxShapes
    <3> QED
      BY <1>1, <1>2, <3>1, Untouched
  <2> QED
    BY <2>1, <2>2
<1> QED
  BY <1>3, <1>4 DEF OutboxFits

LEMMA WorkerDiesFits ==
  ASSUME OutboxFits, ChannelsAssumption, NEW w \in Workers, C!WorkerDies(w)
  PROVE  OutboxFits'
<1>1. /\ claimed' = [claimed EXCEPT ![w] = {}]
      /\ wire' = [wire EXCEPT ![w] = [c \in Chans |-> Nowhere]]
      /\ UNCHANGED <<note, outbox, copies, cause>>
  BY DEF C!WorkerDies
<1>2. CausesStay
  BY <1>1 DEF CausesStay, OutboxFits, OutboxShapes
<1>3. \A v \in Workers, c \in Chans :
        wire'[v][c] = IF v = w THEN Nowhere ELSE wire[v][c]
  BY <1>1 DEF OutboxFits, OutboxShapes
<1>4. OutboxShapes'
  BY <1>1, <1>3 DEF OutboxFits, OutboxShapes, WireFits, RowFits
<1>5. ASSUME NEW d \in C!Deliveries
      PROVE  Clean(d)' => OnceFits(d)'
  <2>1. d[2] \in Chans
    BY DEF C!Deliveries
  <2>2. \A v \in Workers : d \in claimed'[v] <=> d \in claimed[v] /\ v # w
    BY <1>1 DEF OutboxFits, OutboxShapes
  <2>3. \A v \in Workers : Carries(v, d)' <=> Carries(v, d) /\ v # w
    BY <1>3, <2>1 DEF Carries
  <2>4. Clean(d)' => OnceFits(d)
    BY <1>1 DEF OutboxFits, Clean
  <2>5. \A v \in Workers : v # w => wire'[v][d[2]] = wire[v][d[2]]
    BY <1>3, <2>1
  <2> QED
    BY <1>1, <2>2, <2>3, <2>4, <2>5 DEF OnceFits
<1> QED
  BY <1>4, <1>5 DEF OutboxFits

LEMMA OutboxStep ==
  ASSUME OutboxFits, ChannelsAssumption, [C!ChannelsNext]_channelsVars
  PROVE  OutboxFits'
<1> USE DEF OutboxFits, OutboxShapes
<1>1. ASSUME UNCHANGED <<note, outbox, claimed, wire, copies>>,
             UNCHANGED cause \/ \E ds, why : C!Tell(ds, why)
      PROVE  OutboxFits'
  <2>1. CausesStay
    BY <1>1, CausesGrow
  <2> QED
    BY <1>1, <2>1, Quiet
<1>2. CASE UNCHANGED channelsVars
  BY <1>1, <1>2 DEF channelsVars
<1>3. ASSUME NEW c \in Chans, C!UserOnChannel(c)
      PROVE  OutboxFits'
  <2>1. CASE C!DeleteChannel(c)
    <3>1. /\ C!Cascade(Notes \X {c}) /\ UNCHANGED <<note, claimed, wire, copies, cause>>
          /\ Notes \X {c} \in SUBSET C!Deliveries
      BY <2>1 DEF C!DeleteChannel, C!Deliveries
    <3>2. CausesStay
      BY <3>1, CausesGrow
    <3> QED
      BY <3>1, <3>2, CascadeFits
  <2> QED
    BY <1>1, <1>3, <2>1 DEF C!UserOnChannel, C!CreateChannel, C!PairChannel, C!PauseChannel
<1>4. ASSUME NEW p \in Presses, C!ChatLoop(p)
      PROVE  OutboxFits'
  BY <1>1, <1>4 DEF C!ChatLoop, C!Dispatched, C!Missed, C!Inboxed, C!RecordInbound, C!Handed,
     C!TakeToken, C!DecideByButton, C!LoopCut, C!Press
<1>5. ASSUME NEW n \in Notes, C!Purge(n)
      PROVE  OutboxFits'
  <2>1. /\ C!Cascade({n} \X Chans) /\ UNCHANGED <<claimed, wire, copies>>
        /\ C!Tell({n} \X Chans, "renewed") /\ note' = [note EXCEPT ![n] = "none"]
        /\ {n} \X Chans \in SUBSET C!Deliveries
    BY <1>5 DEF C!Purge, C!Deliveries
  <2>2. CausesStay
    BY <2>1, CausesGrow
  <2>3. \A d \in C!Deliveries : d[1] = n => ~Clean(d)'
    BY <2>1 DEF C!Tell, Clean, C!Deliveries
  <2> QED
    BY <2>1, <2>2, <2>3, CascadeFits
<1>6. ASSUME NEW n \in Notes, C!UserOnNote(n) \/ C!Maintenance(n)
      PROVE  OutboxFits'
  <2>1. CASE C!MarkRead(n)
    <3>1. UNCHANGED <<outbox, claimed, wire, copies, cause>> /\ note' = [note EXCEPT ![n] = "read"]
      BY <2>1 DEF C!MarkRead
    <3>2. CausesStay
      BY <3>1, CausesGrow
    <3> QED
      BY <3>1, <3>2, Quiet
  <2>2. CASE C!Settle(n) \/ \E what : C!Arises(n, what)
    BY <1>1, <2>2 DEF C!Settle, C!Arises
  <2> QED
    BY <1>5, <1>6, <2>1, <2>2, NotifyFits DEF C!UserOnNote, C!Maintenance, C!DeleteNote,
       C!Retention
<1>7. ASSUME NEW w \in Workers, C!DeliveryLoop(w)
      PROVE  OutboxFits'
  BY <1>7, ClaimFits, WorkerDiesFits, NotSentFits, BeginSendFits, ArriveFits, EndSendFits
     DEF C!DeliveryLoop
<1> QED
  BY <1>2, <1>3, <1>4, <1>6, <1>7, LockLapsesFits DEF C!ChannelsNext

LEMMA OutboxHolds == ASSUME ChannelsAssumption PROVE ServicesSpec => []OutboxFits
<1>1. ServicesInit => OutboxFits
  <2> SUFFICES ASSUME ServicesInit
               PROVE  OutboxFits
    OBVIOUS
  <2>1. /\ note = [n \in Notes |-> "none"] /\ outbox = [d \in C!Deliveries |-> C!NoRow]
        /\ claimed = [w \in Workers |-> {}] /\ wire = [w \in Workers |-> [c \in Chans |-> Nowhere]]
        /\ copies = [d \in C!Deliveries |-> 0] /\ cause = [d \in C!Deliveries |-> {}]
    BY DEF ServicesInit, C!ChannelsInit
  <2>2. OutboxShapes
    BY <2>1 DEF ChannelsAssumption, OutboxShapes, RowFits, WireFits, C!NoRow
  <2>3. ASSUME NEW d \in C!Deliveries
        PROVE  OnceFits(d)
    <3>1. d[2] \in Chans
      BY DEF C!Deliveries
    <3>2. \A w \in Workers : ~Carries(w, d)
      BY <2>1, <3>1 DEF Carries
    <3> QED
      BY <2>1, <3>2 DEF OnceFits, C!NoRow
  <2> QED
    BY <2>2, <2>3 DEF OutboxFits
<1>2. OutboxFits /\ [ServicesNext]_servicesVars => OutboxFits'
  BY OutboxStep DEF ServicesNext, OthersRest, servicesVars, channelsVars
<1> QED
  BY <1>1, <1>2, PTL DEF ServicesSpec

\* A message reaches the service a second time only when its lock ran out, when the
\* answer was lost or an error, or when its notification was deleted (channels.py,
\* claim_due and deliver_one).
THEOREM DuplicatesHaveCause ==
  ASSUME ChannelsAssumption PROVE ServicesSpec => []DuplicateHasCause
<1>1. OutboxFits => DuplicateHasCause
  BY DEF OutboxFits, OnceFits, Clean, DuplicateHasCause, C!DuplicateHasCause
<1> QED
  BY <1>1, OutboxHolds, PTL

-----------------------------------------------------------------------------
(* Discovery *)

\* A listing is in the catalogue and matched for a case
Matched(c, l) == listed[l] # NoListing /\ match[c][listed[l]] # "none"
\* ... as those of a source are before a page
MatchedBefore(c, s, p) ==
  \A i \in 1..Len(Pages[s]) : i < p => \A l \in Pages[s][i] \cap Wanted[c] : Matched(c, l)

\* What a case has read of what it takes: of every source the pages before the checkpoint,
\* of the sources that were read all pages, of the page at hand what is not left.
ReadFits(c) ==
  /\ \A s \in D!Sources : MatchedBefore(c, s, checkpoint[c][s])
  /\ \A s \in sync[c].read : \A i \in 1..Len(Pages[s]) :
       \A l \in Pages[s][i] \cap Wanted[c] : Matched(c, l)
  /\ sync[c].at \in {"page", "locked"} =>
       /\ MatchedBefore(c, sync[c].source, sync[c].page)
       /\ \A l \in (Pages[sync[c].source][sync[c].page] \cap Wanted[c]) \ sync[c].left :
            Matched(c, l)

\* The other opportunities of an employer or with a URL
Close(q, o)  == Employer[q] = Employer[o] \/ Url[q] = Url[o]
Others(o, p) == {q \in posting \ {o, p} : Close(q, o)}

\* Who looked a listing up holds the locks of its employer and its URL until it has been
\* written, and found that it is in the catalogue, or that as many others are as dedup looks at, or no
\* duplicate of it.
LockFits(c) ==
  sync[c].at = "locked" =>
    /\ sync[c].one \in Listings /\ sync[c].into \in Listings
    /\ held[Employer[sync[c].one]] = c /\ held[Url[sync[c].one]] = c
    /\ listed[sync[c].one] # NoListing => sync[c].into = listed[sync[c].one]
    /\ \/ sync[c].into \in posting
       \/ /\ sync[c].into = sync[c].one
          /\ \A p \in posting : p # sync[c].one /\ Posting[p] = Posting[sync[c].one] =>
               Cardinality(Others(sync[c].one, p)) >= DedupLimit

SyncShape(c) ==
  /\ DOMAIN sync[c] = {"at", "todo", "source", "page", "left", "one", "into", "read"}
  /\ sync[c].at \in {"page", "locked"} =>
       sync[c].source \in D!Sources /\ sync[c].page \in 1..Len(Pages[sync[c].source])
  /\ sync[c].read \subseteq D!Sources

CatalogueShape ==
  /\ DOMAIN listed = Listings /\ posting \subseteq Listings
  /\ \A l \in Listings : listed[l] \in posting \cup {NoListing}
  /\ DOMAIN match = Cases /\ DOMAIN checkpoint = Cases
  /\ DOMAIN sync = Cases /\ DOMAIN held = D!LockKeys
  /\ \A c \in Cases :
       /\ DOMAIN match[c] = Listings /\ DOMAIN checkpoint[c] = D!Sources
       /\ \A s \in D!Sources : checkpoint[c][s] \in 1..Len(Pages[s])

Crowded(o) == Cardinality({q \in posting \ {o} : Close(q, o)}) > DedupLimit

FewPerPosting ==
  \A o, p \in posting : o # p /\ Posting[o] = Posting[p] => Crowded(o) \/ Crowded(p)

CatalogueFits ==
  /\ CatalogueShape /\ FewPerPosting
  /\ \A c \in Cases : SyncShape(c) /\ ReadFits(c) /\ LockFits(c)

\* What dedup finds: an opportunity, or none of one posting among those it looked at.
LEMMA MergesInto ==
  ASSUME DiscoveryAssumption, posting \subseteq Listings, NEW l \in Listings,
         NEW o \in D!Merges(l)
  PROVE  /\ o \in Listings
         /\ \/ o \in posting
            \/ /\ o = l
               /\ \A p \in posting : p # l /\ Posting[p] = Posting[l] =>
                    Cardinality(Others(l, p)) >= DedupLimit
<1> DEFINE all == D!Near(l)
<1>1. PICK some \in SUBSET all :
        /\ some = all \/ Cardinality(some) = DedupLimit
        /\ o = IF \E q \in some : Posting[q] = Posting[l]
                 THEN CHOOSE q \in some : Posting[q] = Posting[l] ELSE l
  BY DEF D!Merges, D!Duplicates, Cardinality, D!Cardinality
<1>2. CASE \E q \in some : Posting[q] = Posting[l]
  BY <1>1, <1>2 DEF D!Near
<1>3. CASE ~ \E q \in some : Posting[q] = Posting[l]
  <2>1. o = l
    BY <1>1, <1>3
  <2>2. ASSUME NEW p \in posting, p # l, Posting[p] = Posting[l]
        PROVE  Cardinality(Others(l, p)) >= DedupLimit
    <3>1. p \in all /\ p \notin some
      BY <1>3, <2>2 DEF DiscoveryAssumption, D!Near
    <3>2. Cardinality(some) = DedupLimit
      BY <1>1, <3>1
    <3>3. some \in SUBSET Others(l, p) /\ Others(l, p) \in SUBSET Listings
      BY <1>3, <3>1 DEF Others, Close, D!Near
    <3>4. IsFiniteSet(Others(l, p))
      BY <3>3, FS_Subset DEF DiscoveryAssumption
    <3>5. Cardinality(some) <= Cardinality(Others(l, p)) /\ Cardinality(Others(l, p)) \in Nat
      BY <3>3, <3>4, FS_Subset, FS_CardinalityType
    <3> QED
      BY <3>2, <3>5 DEF DiscoveryAssumption
  <2> QED
    BY <2>1, <2>2
<1> QED
  BY <1>2, <1>3

\* A duplicate that is written where dedup had looked at enough others is one too many
\* for it to be excluded.
LEMMA AddedPosting ==
  ASSUME DiscoveryAssumption, posting \subseteq Listings, FewPerPosting, NEW l \in Listings,
         \A p \in posting : p # l /\ Posting[p] = Posting[l] =>
           Cardinality(Others(l, p)) >= DedupLimit,
         posting' = posting \cup {l}
  PROVE  FewPerPosting'
<1> DEFINE Rest(ps, o) == {q \in ps \ {o} : Close(q, o)}
<1>0. DedupLimit \in Nat
  BY DEF DiscoveryAssumption
<1>1. ASSUME NEW o \in Listings
      PROVE  IsFiniteSet(Rest(posting', o)) /\ Cardinality(Rest(posting', o)) \in Nat
  <2>1. Rest(posting', o) \in SUBSET Listings
    OBVIOUS
  <2> HIDE DEF Rest
  <2> QED
    BY <2>1, FS_Subset, FS_CardinalityType DEF DiscoveryAssumption
<1>2. ASSUME NEW p \in posting, p # l, Posting[p] = Posting[l]
      PROVE  Cardinality(Rest(posting', l)) > DedupLimit
  <2>1. Close(p, l) /\ p \in Listings
    BY <1>2 DEF DiscoveryAssumption, Close
  <2>2. Others(l, p) \in SUBSET Listings
    BY DEF Others
  <2>3. IsFiniteSet(Others(l, p))
    BY <2>2, FS_Subset DEF DiscoveryAssumption
  <2>4. /\ Cardinality(Others(l, p) \cup {p}) = Cardinality(Others(l, p)) + 1
        /\ Cardinality(Others(l, p)) \in Nat
    <3>1. p \notin Others(l, p)
      BY DEF Others
    <3> QED
      BY <2>3, <3>1, FS_AddElement, FS_CardinalityType
  <2>5. Others(l, p) \cup {p} \in SUBSET Rest(posting', l)
    BY <1>2, <2>1 DEF Others
  <2> HIDE DEF Rest
  <2>6. Cardinality(Others(l, p) \cup {p}) <= Cardinality(Rest(posting', l))
    BY <1>1, <2>5, FS_Subset
  <2>7. Cardinality(Others(l, p)) >= DedupLimit
    BY <1>2
  <2>8. Cardinality(Rest(posting', l)) \in Nat
    BY <1>1
  <2> QED
    BY <1>0, <2>4, <2>6, <2>7, <2>8
<1>3. ASSUME NEW o \in posting, Crowded(o)
      PROVE  Cardinality(Rest(posting', o)) > DedupLimit
  <2>1. Cardinality(Rest(posting, o)) > DedupLimit
    BY <1>3 DEF Crowded
  <2>2. Rest(posting, o) \in SUBSET Rest(posting', o) /\ o \in Listings
    OBVIOUS
  <2> HIDE DEF Rest
  <2>3. Cardinality(Rest(posting, o)) <= Cardinality(Rest(posting', o))
        /\ Cardinality(Rest(posting, o)) \in Nat
    BY <1>1, <2>2, FS_Subset, FS_CardinalityType
  <2> QED
    BY <1>1, <1>0, <2>1, <2>2, <2>3
<1> HIDE DEF Rest
<1>4. ASSUME NEW o \in posting', NEW p \in posting', o # p, Posting[o] = Posting[p]
      PROVE  \/ Cardinality(Rest(posting', o)) > DedupLimit
             \/ Cardinality(Rest(posting', p)) > DedupLimit
  <2>1. CASE o \in posting /\ p \in posting
    BY <1>3, <1>4, <2>1 DEF FewPerPosting
  <2>2. CASE o = l
    BY <1>2, <1>4, <2>2
  <2>3. CASE p = l
    BY <1>2, <1>4, <2>3
  <2> QED
    BY <2>1, <2>2, <2>3
<1> QED
  BY <1>4 DEF FewPerPosting, Crowded, Close, Rest

LEMMA PagesAre ==
  ASSUME DiscoveryAssumption, NEW s \in D!Sources
  PROVE  /\ Len(Pages[s]) \in Nat /\ Len(Pages[s]) >= 1
         /\ \A i \in 1..Len(Pages[s]) : Pages[s][i] \subseteq Listings
<1>1. Pages[s] \in Seq(SUBSET Listings) /\ Pages[s] # <<>>
  BY DEF DiscoveryAssumption, D!Sources
<1> QED
  BY <1>1

\* What is matched stays so: then what a case has read does.
Grows(c) == \A l \in Listings : Matched(c, l) => Matched(c, l)'

LEMMA ReadKept ==
  ASSUME DiscoveryAssumption, NEW c \in Cases, SyncShape(c), CatalogueShape, ReadFits(c),
         checkpoint'[c] = checkpoint[c], Grows(c), sync'[c].read = sync[c].read,
         sync'[c].at \in {"page", "locked"} =>
           /\ sync[c].at \in {"page", "locked"}
           /\ sync'[c].source = sync[c].source /\ sync'[c].page = sync[c].page
           /\ \A l \in sync[c].left \ sync'[c].left : Matched(c, l)'
  PROVE  ReadFits(c)'
<1>1. ASSUME NEW s \in D!Sources, NEW i \in 1..Len(Pages[s]), NEW l \in Pages[s][i] \cap Wanted[c],
             Matched(c, l)
      PROVE  Matched(c, l)'
  BY <1>1, PagesAre DEF Grows
<1>2. ASSUME NEW s \in D!Sources, NEW p, MatchedBefore(c, s, p)
      PROVE  MatchedBefore(c, s, p)'
  BY <1>1, <1>2 DEF MatchedBefore
<1>3. ASSUME NEW s \in D!Sources
      PROVE  MatchedBefore(c, s, checkpoint[c][s])'
  <2>1. PICK p : p = checkpoint[c][s]
    OBVIOUS
  <2>2. MatchedBefore(c, s, p)'
    BY <1>2, <2>1 DEF ReadFits
  <2> QED
    BY <2>1, <2>2 DEF MatchedBefore
<1>4. \A s \in sync'[c].read : \A i \in 1..Len(Pages[s]) :
        \A l \in Pages[s][i] \cap Wanted[c] : Matched(c, l)'
  BY <1>1 DEF ReadFits, SyncShape
<1>5. ASSUME sync'[c].at \in {"page", "locked"}
      PROVE  /\ MatchedBefore(c, sync[c].source, sync[c].page)'
             /\ \A l \in (Pages[sync'[c].source][sync'[c].page] \cap Wanted[c]) \ sync'[c].left :
                  Matched(c, l)'
  <2>1. PICK s \in D!Sources, p \in 1..Len(Pages[sync[c].source]) :
          /\ s = sync[c].source /\ p = sync[c].page
          /\ s = sync'[c].source /\ p = sync'[c].page
    BY <1>5 DEF SyncShape
  <2>2. MatchedBefore(c, s, p)'
    BY <1>2, <1>5, <2>1 DEF ReadFits
  <2>3. \A l \in (Pages[s][p] \cap Wanted[c]) \ sync[c].left : Matched(c, l)'
    BY <1>1, <1>5, <2>1 DEF ReadFits
  <2> QED
    BY <1>5, <2>1, <2>2, <2>3 DEF MatchedBefore
<1> QED
  BY <1>3, <1>4, <1>5 DEF ReadFits

LEMMA LockKept ==
  ASSUME NEW c \in Cases, LockFits(c), sync'[c] = sync[c], UNCHANGED <<listed, posting>>,
         \A e \in D!LockKeys : held[e] = c => held'[e] = c
  PROVE  LockFits(c)'
<1>1. sync[c].one \in Listings => /\ Employer[sync[c].one] \in D!LockKeys
                                  /\ Url[sync[c].one] \in D!LockKeys
  BY DEF D!LockKeys
<1> QED
  BY <1>1 DEF LockFits, Others, Close

\* A case's sync moves on, and nothing of the catalogue changes.
LEMMA SyncMoves ==
  ASSUME DiscoveryAssumption, CatalogueFits, NEW c \in Cases, NEW row,
         sync' = [sync EXCEPT ![c] = row],
         UNCHANGED <<listed, posting, match>>,
         DOMAIN held' = D!LockKeys,
         \A a \in Cases \ {c}, e \in D!LockKeys : held[e] = a => held'[e] = a,
         \A a \in Cases \ {c} : checkpoint'[a] = checkpoint[a],
         DOMAIN checkpoint' = Cases, DOMAIN checkpoint'[c] = D!Sources,
         \A s \in D!Sources : checkpoint'[c][s] \in 1..Len(Pages[s]),
         SyncShape(c)', ReadFits(c)', LockFits(c)'
  PROVE  CatalogueFits'
<1>1. ASSUME NEW a \in Cases, a # c
      PROVE  (SyncShape(a) /\ ReadFits(a) /\ LockFits(a))'
  <2>1. sync'[a] = sync[a] /\ SyncShape(a) /\ ReadFits(a) /\ LockFits(a) /\ CatalogueShape
    BY <1>1 DEF CatalogueFits, CatalogueShape
  <2>2. Grows(a)
    BY DEF Grows, Matched
  <2>3. ReadFits(a)'
    BY <1>1, <2>1, <2>2, ReadKept
  <2>4. LockFits(a)'
    BY <1>1, <2>1, LockKept
  <2> QED
    BY <2>1, <2>3, <2>4 DEF SyncShape
<1>2. CatalogueShape'
  BY DEF CatalogueFits, CatalogueShape
<1>3. FewPerPosting'
  BY DEF CatalogueFits, FewPerPosting, Crowded, Close
<1> QED
  BY <1>1, <1>2, <1>3 DEF CatalogueFits

\* A case that reads no page keeps what it has read.
LEMMA RestingSync ==
  ASSUME DiscoveryAssumption, CatalogueFits, NEW c \in Cases, NEW row,
         sync' = [sync EXCEPT ![c] = row],
         DOMAIN row = {"at", "todo", "source", "page", "left", "one", "into", "read"},
         row.at \notin {"page", "locked"}, row.read \subseteq sync[c].read,
         UNCHANGED <<listed, posting, match, checkpoint>>,
         DOMAIN held' = D!LockKeys,
         \A a \in Cases \ {c}, e \in D!LockKeys : held[e] = a => held'[e] = a
  PROVE  CatalogueFits'
<1>1. sync'[c] = row /\ SyncShape(c) /\ ReadFits(c) /\ CatalogueShape
  BY DEF CatalogueFits, CatalogueShape
<1>2. SyncShape(c)' /\ LockFits(c)'
  BY <1>1 DEF SyncShape, LockFits
<1>3. ReadFits(c)'
  BY <1>1 DEF ReadFits, MatchedBefore, Matched
<1> QED
  BY <1>1, <1>2, <1>3, SyncMoves DEF CatalogueShape

LEMMA RestingSteps ==
  ASSUME DiscoveryAssumption, CatalogueFits, NEW c \in Cases,
         \/ \E todo : D!StartSync(c, todo)
         \/ \E s \in D!Sources : D!SourceFails(c, s)
         \/ D!SyncDone(c) \/ D!SyncCut(c)
  PROVE  CatalogueFits'
<1> DEFINE fields == {"at", "todo", "source", "page", "left", "one", "into", "read"}
<1>1. DOMAIN sync[c] = fields /\ DOMAIN sync = Cases /\ DOMAIN held = D!LockKeys
  BY DEF CatalogueFits, CatalogueShape, SyncShape
<1>2. DOMAIN D!Idle = fields /\ D!Idle.read = {} /\ D!Idle.at = "idle"
  BY DEF D!Idle
<1>3. ASSUME NEW todo, D!StartSync(c, todo)
      PROVE  CatalogueFits'
  <2> DEFINE row == [D!Idle EXCEPT !.at = "choose", !.todo = todo]
  <2>1. sync' = [sync EXCEPT ![c] = row] /\ UNCHANGED <<listed, posting, match, checkpoint, held>>
    BY <1>3 DEF D!StartSync
  <2>2. DOMAIN row = fields /\ row.at = "choose" /\ row.read = {}
    BY <1>2
  <2> HIDE DEF row
  <2> QED
    BY <1>1, <2>1, <2>2, RestingSync
<1>4. ASSUME NEW s \in D!Sources, D!SourceFails(c, s)
      PROVE  CatalogueFits'
  <2> DEFINE row == [sync[c] EXCEPT !.todo = sync[c].todo \ {s}]
  <2>1. /\ sync[c].at = "choose" /\ sync' = [sync EXCEPT ![c] = row]
        /\ UNCHANGED <<listed, posting, match, checkpoint, held>>
    BY <1>1, <1>4 DEF D!SourceFails
  <2>2. DOMAIN row = fields /\ row.at = "choose" /\ row.read = sync[c].read
    BY <1>1, <2>1
  <2> HIDE DEF row
  <2> QED
    BY <1>1, <2>1, <2>2, RestingSync
<1>5. CASE D!SyncDone(c)
  <2> DEFINE row == [sync[c] EXCEPT !.at = "done"]
  <2>1. /\ sync' = [sync EXCEPT ![c] = row]
        /\ UNCHANGED <<listed, posting, match, checkpoint, held>>
    BY <1>1, <1>5 DEF D!SyncDone
  <2>2. DOMAIN row = fields /\ row.at = "done" /\ row.read = sync[c].read
    BY <1>1, <2>1
  <2> HIDE DEF row
  <2> QED
    BY <1>1, <2>1, <2>2, RestingSync
<1>6. CASE D!SyncCut(c)
  <2>1. /\ sync' = [sync EXCEPT ![c] = D!Idle] /\ UNCHANGED <<listed, posting, match, checkpoint>>
        /\ held' = [e \in D!LockKeys |-> IF held[e] = c THEN NoListing ELSE held[e]]
    BY <1>6 DEF D!SyncCut
  <2>2. DOMAIN held' = D!LockKeys
        /\ \A a \in Cases \ {c}, e \in D!LockKeys : held[e] = a => held'[e] = a
    BY <2>1
  <2> QED
    BY <1>1, <1>2, <2>1, <2>2, RestingSync
<1> QED
  BY <1>3, <1>4, <1>5, <1>6

LEMMA OpenSourceFits ==
  ASSUME DiscoveryAssumption, CatalogueFits, NEW c \in Cases, NEW s \in D!Sources,
         D!OpenSource(c, s)
  PROVE  CatalogueFits'
<1> DEFINE page == checkpoint[c][s]
           row == [sync[c] EXCEPT !.at = "page", !.source = s, !.page = page,
                     !.left = Pages[s][page] \cap Wanted[c], !.todo = sync[c].todo \ {s}]
<1>1. /\ DOMAIN sync[c] = {"at", "todo", "source", "page", "left", "one", "into", "read"}
      /\ sync[c].read \subseteq D!Sources /\ ReadFits(c) /\ CatalogueShape
      /\ page \in 1..Len(Pages[s])
  BY DEF CatalogueFits, CatalogueShape, SyncShape
<1>2. /\ sync' = [sync EXCEPT ![c] = row]
      /\ UNCHANGED <<listed, posting, match, checkpoint, held>>
  BY <1>1 DEF D!OpenSource, D!Taken
<1>3. /\ DOMAIN row = {"at", "todo", "source", "page", "left", "one", "into", "read"}
      /\ row.at = "page" /\ row.source = s /\ row.page = page
      /\ row.left = Pages[s][page] \cap Wanted[c] /\ row.read = sync[c].read
  BY <1>1
<1> HIDE DEF row
<1>4. sync'[c] = row
  BY <1>1, <1>2 DEF CatalogueShape
<1>5. SyncShape(c)' /\ LockFits(c)'
  BY <1>1, <1>3, <1>4 DEF SyncShape, LockFits
<1>6. ReadFits(c)'
  BY <1>1, <1>2, <1>3, <1>4 DEF ReadFits, MatchedBefore, Matched
<1> QED
  BY <1>1, <1>2, <1>5, <1>6, SyncMoves DEF CatalogueShape

LEMMA LockListingFits ==
  ASSUME DiscoveryAssumption, CatalogueFits, NEW c \in Cases, NEW l \in Listings,
         D!LockListing(c, l)
  PROVE  CatalogueFits'
<1>1. /\ DOMAIN sync[c] = {"at", "todo", "source", "page", "left", "one", "into", "read"}
      /\ SyncShape(c) /\ ReadFits(c) /\ CatalogueShape
  BY DEF CatalogueFits, SyncShape
<1>2. PICK o \in IF listed[l] # NoListing THEN {listed[l]} ELSE D!Merges(l) :
        sync' = [sync EXCEPT ![c].at = "locked", ![c].one = l, ![c].into = o]
  BY DEF D!LockListing
<1>3. /\ sync[c].at = "page" /\ held[Employer[l]] = NoListing /\ held[Url[l]] = NoListing
      /\ held' = [k \in D!LockKeys |-> IF k \in {Employer[l], Url[l]} THEN c ELSE held[k]]
      /\ UNCHANGED <<listed, posting, match, checkpoint>>
  BY DEF D!LockListing, D!Locks
<1> DEFINE row == [sync[c] EXCEPT !.at = "locked", !.one = l, !.into = o]
<1>4. sync' = [sync EXCEPT ![c] = row]
  BY <1>1, <1>2 DEF CatalogueShape
<1>5. /\ DOMAIN row = {"at", "todo", "source", "page", "left", "one", "into", "read"}
      /\ row.at = "locked" /\ row.source = sync[c].source /\ row.page = sync[c].page
      /\ row.left = sync[c].left /\ row.read = sync[c].read /\ row.one = l /\ row.into = o
  BY <1>1
<1> HIDE DEF row
<1>6. sync'[c] = row
  BY <1>1, <1>4 DEF CatalogueShape
<1>7. SyncShape(c)'
  BY <1>1, <1>3, <1>5, <1>6 DEF SyncShape
<1>8. ReadFits(c)'
  BY <1>1, <1>3, <1>5, <1>6 DEF ReadFits, MatchedBefore, Matched
<1>9. LockFits(c)'
  <2>1. /\ o \in Listings /\ (listed[l] # NoListing => o = listed[l])
        /\ \/ o \in posting
           \/ /\ o = l
              /\ \A p \in posting : p # l /\ Posting[p] = Posting[l] =>
                   Cardinality(Others(l, p)) >= DedupLimit
    <3>1. CASE listed[l] # NoListing
      BY <1>1, <1>2, <3>1 DEF CatalogueShape
    <3>2. CASE listed[l] = NoListing
      BY <1>1, <1>2, <3>2, MergesInto DEF CatalogueShape
    <3> QED
      BY <3>1, <3>2
  <2>2. held'[Employer[l]] = c /\ held'[Url[l]] = c
    BY <1>3 DEF D!LockKeys
  <2>3. \A p : Others(l, p)' = Others(l, p)
    BY <1>3 DEF Others, Close
  <2> QED
    BY <1>3, <1>5, <1>6, <2>1, <2>2, <2>3 DEF LockFits
<1>10. \A a \in Cases \ {c}, e \in D!LockKeys : held[e] = a => held'[e] = a
  BY <1>3 DEF DiscoveryAssumption
<1> QED
  BY <1>1, <1>3, <1>4, <1>7, <1>8, <1>9, <1>10, SyncMoves DEF CatalogueShape

LEMMA PageDoneFits ==
  ASSUME DiscoveryAssumption, CatalogueFits, NEW c \in Cases, D!PageDone(c)
  PROVE  CatalogueFits'
<1> DEFINE s == sync[c].source
           p == sync[c].page
           next == D!NextPage(s, p)
           fields == {"at", "todo", "source", "page", "left", "one", "into", "read"}
<1>1. /\ DOMAIN sync[c] = fields /\ SyncShape(c) /\ ReadFits(c) /\ CatalogueShape
  BY DEF CatalogueFits, SyncShape
<1>2. /\ sync[c].at = "page" /\ sync[c].left = {}
      /\ checkpoint' = [checkpoint EXCEPT ![c][s] = next]
      /\ UNCHANGED <<listed, posting, match, held>>
  BY DEF D!PageDone, D!Leftover
<1>3. s \in D!Sources /\ p \in 1..Len(Pages[s]) /\ Len(Pages[s]) \in Nat
  BY <1>1, <1>2, PagesAre DEF SyncShape
<1>4. MatchedBefore(c, s, p) /\ \A l \in Pages[s][p] \cap Wanted[c] : Matched(c, l)
  BY <1>1, <1>2 DEF ReadFits
<1>5. \A i \in 1..Len(Pages[s]) : i <= p => \A l \in Pages[s][i] \cap Wanted[c] : Matched(c, l)
  BY <1>3, <1>4 DEF MatchedBefore
<1>6. /\ next \in 1..Len(Pages[s]) /\ MatchedBefore(c, s, next)
      /\ next = 1 => p = Len(Pages[s])
  <2>1. CASE p = Len(Pages[s])
    BY <1>3, <1>4, <1>5, <2>1 DEF D!NextPage, MatchedBefore
  <2>2. CASE p # Len(Pages[s])
    BY <1>3, <1>4, <1>5, <2>2 DEF D!NextPage, MatchedBefore
  <2> QED
    BY <2>1, <2>2
<1>7. \A a \in Cases, x \in D!Sources :
        checkpoint'[a][x] = IF a = c /\ x = s THEN next ELSE checkpoint[a][x]
  BY <1>1, <1>2, <1>3 DEF CatalogueShape
\* It goes on with the next page, or leaves the source there
<1>8. PICK row : /\ sync' = [sync EXCEPT ![c] = row] /\ DOMAIN row = fields
                 /\ \/ /\ row.at = "page" /\ row.source = s /\ row.page = next
                       /\ row.left = Pages[s][next] \cap Wanted[c] /\ row.read = sync[c].read
                    \/ /\ row.at = "choose"
                       /\ row.read = sync[c].read \/ (next = 1 /\ row.read = sync[c].read \cup {s})
  <2>1. CASE sync' = [sync EXCEPT ![c].page = next, ![c].left = Pages[s][next] \cap Wanted[c]]
    <3> DEFINE on == [sync[c] EXCEPT !.page = next, !.left = Pages[s][next] \cap Wanted[c]]
    <3>1. /\ DOMAIN on = fields /\ on.at = "page" /\ on.source = s /\ on.page = next
          /\ on.left = Pages[s][next] \cap Wanted[c] /\ on.read = sync[c].read
      BY <1>1, <1>2
    <3>2. sync' = [sync EXCEPT ![c] = on]
      BY <1>1, <2>1 DEF CatalogueShape
    <3> HIDE DEF on, next
    <3> QED
      BY <3>1, <3>2
  <2>2. CASE sync' = [sync EXCEPT ![c].at = "choose", ![c].page = 1, ![c].left = {},
                                  ![c].read = IF next = 1 THEN @ \cup {s} ELSE @]
    <3> DEFINE ended == IF next = 1 THEN sync[c].read \cup {s} ELSE sync[c].read
               left == [sync[c] EXCEPT !.at = "choose", !.page = 1, !.left = {}, !.read = ended]
    <3>1. DOMAIN left = fields /\ left.at = "choose" /\ left.read = ended
      BY <1>1
    <3>2. sync' = [sync EXCEPT ![c] = left]
      BY <1>1, <2>2 DEF CatalogueShape
    <3>3. ended = sync[c].read \/ (next = 1 /\ ended = sync[c].read \cup {s})
      OBVIOUS
    <3> HIDE DEF left, ended, next
    <3> QED
      BY <3>1, <3>2, <3>3
  <2> QED
    BY <2>1, <2>2 DEF D!PageDone, D!Taken
<1>9. sync'[c] = row
  BY <1>1, <1>8 DEF CatalogueShape
<1> HIDE DEF next
<1>10. SyncShape(c)' /\ LockFits(c)'
  BY <1>1, <1>3, <1>6, <1>8, <1>9 DEF SyncShape, LockFits
<1>11. \A l : Matched(c, l)' <=> Matched(c, l)
  BY <1>2 DEF Matched
<1>12. ReadFits(c)'
  <2>1. ASSUME NEW x \in D!Sources
        PROVE  MatchedBefore(c, x, checkpoint[c][x])'
    <3>1. CASE x = s
      BY <1>6, <1>7, <1>11, <2>1, <3>1 DEF MatchedBefore
    <3>2. CASE x # s
      <4>1. MatchedBefore(c, x, checkpoint[c][x]) /\ checkpoint'[c][x] = checkpoint[c][x]
        BY <1>1, <1>7, <3>2 DEF ReadFits
      <4> QED
        BY <1>11, <4>1 DEF MatchedBefore
    <3> QED
      BY <3>1, <3>2
  <2>2. ASSUME NEW x \in sync'[c].read, NEW i \in 1..Len(Pages[x]), NEW l \in Pages[x][i] \cap Wanted[c]
        PROVE  Matched(c, l)'
    <3>1. CASE x \in sync[c].read
      BY <1>1, <1>11, <2>2, <3>1 DEF ReadFits
    <3>2. CASE x \notin sync[c].read
      <4>1. next = 1 /\ x = s
        BY <1>8, <1>9, <2>2, <3>2
      <4> QED
        BY <1>3, <1>5, <1>6, <1>11, <2>2, <4>1
    <3> QED
      BY <3>1, <3>2
  <2>3. ASSUME sync'[c].at \in {"page", "locked"}
        PROVE  /\ MatchedBefore(c, sync[c].source, sync[c].page)'
               /\ \A l \in (Pages[sync'[c].source][sync'[c].page] \cap Wanted[c]) \ sync'[c].left :
                    Matched(c, l)'
    <3>1. /\ sync'[c].source = s /\ sync'[c].page = next
          /\ sync'[c].left = Pages[s][next] \cap Wanted[c]
      BY <1>8, <1>9, <2>3
    <3> QED
      BY <1>6, <1>11, <3>1 DEF MatchedBefore
  <2> QED
    BY <2>1, <2>2, <2>3 DEF ReadFits
<1>13. /\ DOMAIN checkpoint' = Cases /\ DOMAIN checkpoint'[c] = D!Sources
       /\ \A a \in Cases \ {c} : checkpoint'[a] = checkpoint[a]
       /\ \A x \in D!Sources : checkpoint'[c][x] \in 1..Len(Pages[x])
  BY <1>1, <1>2, <1>6, <1>7 DEF CatalogueShape
<1> QED
  BY <1>1, <1>2, <1>8, <1>10, <1>12, <1>13, SyncMoves DEF CatalogueShape

LEMMA UpsertFits ==
  ASSUME DiscoveryAssumption, CatalogueFits, NEW c \in Cases, D!UpsertListing(c)
  PROVE  CatalogueFits'
<1>1. /\ DOMAIN sync[c] = {"at", "todo", "source", "page", "left", "one", "into", "read"}
      /\ SyncShape(c) /\ ReadFits(c) /\ LockFits(c) /\ CatalogueShape /\ FewPerPosting
  BY DEF CatalogueFits, SyncShape
<1>2. PICK l, o :
        /\ l = sync[c].one /\ o = sync[c].into /\ sync[c].at = "locked"
        /\ listed' = [listed EXCEPT ![l] = o] /\ posting' = posting \cup {o}
        /\ match' = [match EXCEPT ![c][o] = D!MatchOf(@)]
        /\ sync' = [sync EXCEPT ![c].at = "page", ![c].left = @ \ {l},
                                ![c].one = NoListing, ![c].into = NoListing]
        /\ held' = [k \in D!LockKeys |->
                     IF k \in {Employer[l], Url[l]} THEN NoListing ELSE held[k]]
        /\ checkpoint' = checkpoint
  BY DEF D!UpsertListing, D!Locks
<1>3. /\ l \in Listings /\ o \in Listings /\ held[Employer[l]] = c /\ held[Url[l]] = c
      /\ listed[l] # NoListing => o = listed[l]
      /\ \/ o \in posting
         \/ /\ o = l
            /\ \A p \in posting : p # l /\ Posting[p] = Posting[l] =>
                 Cardinality(Others(l, p)) >= DedupLimit
  BY <1>1, <1>2 DEF LockFits
<1>4. /\ \A m \in Listings : listed'[m] = IF m = l THEN o ELSE listed[m]
      /\ \A a \in Cases, m \in Listings :
           match'[a][m] = IF a = c /\ m = o THEN D!MatchOf(match[c][o]) ELSE match[a][m]
  BY <1>1, <1>2, <1>3 DEF CatalogueShape
<1>5. \A x : D!MatchOf(x) # "none"
  BY DEF D!MatchOf
<1>6. ASSUME NEW a \in Cases
      PROVE  Grows(a)
  <2>1. ASSUME NEW m \in Listings, Matched(a, m)
        PROVE  Matched(a, m)'
    <3>1. listed[m] \in Listings /\ listed[m] # NoListing /\ match[a][listed[m]] # "none"
      BY <1>1, <2>1 DEF Matched, CatalogueShape
    <3>2. listed'[m] = listed[m]
      BY <1>3, <1>4, <3>1
    <3>3. match'[a][listed[m]] # "none"
      BY <1>4, <1>5, <3>1
    <3> QED
      BY <3>1, <3>2, <3>3 DEF Matched
  <2> QED
    BY <2>1 DEF Grows
<1>7. Matched(c, l)'
  BY <1>3, <1>4, <1>5 DEF Matched, DiscoveryAssumption
<1>8. /\ \A a \in Cases \ {c} : sync'[a] = sync[a]
      /\ DOMAIN sync' = Cases
      /\ DOMAIN sync'[c] = DOMAIN sync[c]
      /\ sync'[c].at = "page" /\ sync'[c].left = sync[c].left \ {l}
      /\ sync'[c].source = sync[c].source /\ sync'[c].page = sync[c].page
      /\ sync'[c].read = sync[c].read
  BY <1>1, <1>2 DEF CatalogueShape
<1>9. SyncShape(c)' /\ LockFits(c)'
  BY <1>1, <1>2, <1>8 DEF SyncShape, LockFits
<1>10. ReadFits(c)'
  <2>1. Grows(c) /\ checkpoint'[c] = checkpoint[c]
    BY <1>2, <1>6
  <2>2. \A m \in sync[c].left \ sync'[c].left : Matched(c, m)'
    BY <1>7, <1>8
  <2> QED
    BY <1>1, <1>2, <1>8, <2>1, <2>2, ReadKept
<1>11. ASSUME NEW a \in Cases, a # c
       PROVE  (SyncShape(a) /\ ReadFits(a) /\ LockFits(a))'
  <2>1. sync'[a] = sync[a] /\ SyncShape(a) /\ ReadFits(a) /\ LockFits(a) /\ checkpoint'[a] = checkpoint[a]
    BY <1>2, <1>8, <1>11 DEF CatalogueFits
  <2>2. ReadFits(a)'
    BY <1>1, <1>6, <1>11, <2>1, ReadKept
  <2>3. ASSUME sync[a].at = "locked"
        PROVE  LockFits(a)'
    <3> DEFINE m == sync[a].one
               n == sync[a].into
    <3>1. /\ m \in Listings /\ n \in Listings /\ held[Employer[m]] = a /\ held[Url[m]] = a
          /\ listed[m] # NoListing => n = listed[m]
          /\ \/ n \in posting
             \/ /\ n = m
                /\ \A p \in posting : p # m /\ Posting[p] = Posting[m] =>
                     Cardinality(Others(m, p)) >= DedupLimit
      BY <2>1, <2>3 DEF LockFits
    <3>2. {Employer[m], Url[m]} \cap {Employer[l], Url[l]} = {} /\ m # l
      BY <1>3, <1>11, <3>1
    <3>3. /\ posting' = posting \/ posting' = posting \cup {l}
          /\ posting \subseteq posting'
      BY <1>2, <1>3
    <3>4. held'[Employer[m]] = a /\ held'[Url[m]] = a /\ listed'[m] = listed[m]
      BY <1>2, <1>4, <3>1, <3>2 DEF D!LockKeys
    <3> HIDE DEF m, n
    <3>5. \A p : {q \in posting' \ {m, p} : Close(q, m)} = Others(m, p)
      <4>1. ~Close(l, m)
        BY <3>2 DEF Close
      <4>2. ASSUME NEW q, q \in posting', Close(q, m)
            PROVE  q \in posting
        <5>1. q # l
          BY <4>1, <4>2
        <5> QED
          BY <3>3, <4>2, <5>1
      <4>3. {q \in posting' : Close(q, m)} = {q \in posting : Close(q, m)}
        BY <3>3, <4>2
      <4> QED
        BY <4>3 DEF Others
    <3>6. \A p \in posting' : Posting[p] = Posting[m] => p \in posting
      <4>1. Employer[l] # Employer[m] /\ Url[l] # Url[m]
        BY <3>2
      <4>2. Posting[l] # Posting[m]
        BY <1>3, <3>1, <4>1 DEF DiscoveryAssumption
      <4> QED
        BY <3>3, <4>2
    <3>7. \/ n \in posting'
          \/ /\ n = m
             /\ \A p \in posting' : p # m /\ Posting[p] = Posting[m] =>
                  Cardinality({q \in posting' \ {m, p} : Close(q, m)}) >= DedupLimit
      BY <3>1, <3>3, <3>5, <3>6
    <3> QED
      BY <2>1, <2>3, <3>1, <3>4, <3>7 DEF LockFits, Others, Close, m, n
  <2> QED
    BY <2>1, <2>2, <2>3 DEF SyncShape, LockFits
<1>12. CatalogueShape'
  <2>1. posting' \subseteq Listings /\ \A m \in Listings : listed'[m] \in posting' \cup {NoListing}
    BY <1>1, <1>2, <1>3, <1>4 DEF CatalogueShape
  <2>2. /\ DOMAIN listed' = Listings /\ DOMAIN match' = Cases /\ DOMAIN held' = D!LockKeys
        /\ \A a \in Cases : DOMAIN match'[a] = Listings
    BY <1>1, <1>2 DEF CatalogueShape
  <2> QED
    BY <1>1, <1>2, <1>8, <2>1, <2>2 DEF CatalogueShape
<1>13. FewPerPosting'
  <2>1. CASE o \in posting
    <3>1. posting' = posting
      BY <1>2, <2>1
    <3> QED
      BY <1>1, <3>1 DEF FewPerPosting, Crowded, Close
  <2>2. CASE o \notin posting
    BY <1>1, <1>2, <1>3, <2>2, AddedPosting DEF CatalogueShape
  <2> QED
    BY <2>1, <2>2
<1> QED
  BY <1>9, <1>10, <1>11, <1>12, <1>13 DEF CatalogueFits

LEMMA SetMatchStatusFits ==
  ASSUME DiscoveryAssumption, CatalogueFits, NEW c \in Cases, NEW o \in Listings,
         NEW status \in D!MatchStatus, D!SetMatchStatus(c, o, status)
  PROVE  CatalogueFits'
<1>1. /\ match' = [match EXCEPT ![c][o] = status] /\ status # "none"
      /\ UNCHANGED <<listed, posting, checkpoint, sync, held>>
  BY DEF D!SetMatchStatus, D!MatchStatus
<1>2. CatalogueShape /\ FewPerPosting
  BY DEF CatalogueFits
<1>3. CatalogueShape' /\ FewPerPosting'
  BY <1>1, <1>2 DEF CatalogueShape, FewPerPosting, Crowded, Close
<1>4. \A a \in Cases, m \in Listings :
        match'[a][m] = IF a = c /\ m = o THEN status ELSE match[a][m]
  BY <1>1, <1>2 DEF CatalogueShape
<1>5. ASSUME NEW a \in Cases
      PROVE  (SyncShape(a) /\ ReadFits(a) /\ LockFits(a))'
  <2>1. SyncShape(a) /\ ReadFits(a) /\ LockFits(a)
    BY DEF CatalogueFits
  <2>2. Grows(a)
    BY <1>1, <1>2, <1>4 DEF Grows, Matched, CatalogueShape
  <2>3. ReadFits(a)'
    BY <1>1, <1>2, <2>1, <2>2, ReadKept
  <2>4. LockFits(a)'
    BY <1>1, <2>1, LockKept
  <2> QED
    BY <1>1, <2>1, <2>3, <2>4 DEF SyncShape
<1> QED
  BY <1>3, <1>5 DEF CatalogueFits

LEMMA DiscoveryStep ==
  ASSUME DiscoveryAssumption, CatalogueFits, [D!DiscoveryNext]_discoveryVars
  PROVE  CatalogueFits'
<1>1. CASE UNCHANGED discoveryVars
  <2>1. UNCHANGED <<listed, posting, match, checkpoint, sync, held>>
    BY <1>1 DEF discoveryVars
  <2>2. CatalogueShape' /\ FewPerPosting'
    BY <2>1 DEF CatalogueFits, CatalogueShape, FewPerPosting, Crowded, Close
  <2>3. ASSUME NEW a \in Cases
        PROVE  (SyncShape(a) /\ ReadFits(a) /\ LockFits(a))'
    <3>1. SyncShape(a) /\ ReadFits(a) /\ LockFits(a) /\ CatalogueShape
      BY DEF CatalogueFits
    <3>2. Grows(a)
      BY <2>1 DEF Grows, Matched
    <3>3. ReadFits(a)'
      BY <2>1, <3>1, <3>2, ReadKept
    <3> QED
      BY <2>1, <3>1, <3>3, LockKept DEF SyncShape
  <2> QED
    BY <2>2, <2>3 DEF CatalogueFits
<1>2. CASE D!DiscoveryNext
  BY <1>2, RestingSteps, OpenSourceFits, LockListingFits, PageDoneFits, UpsertFits,
     SetMatchStatusFits DEF D!DiscoveryNext, D!SyncStep, D!UserOnOpportunities
<1> QED
  BY <1>1, <1>2

LEMMA DiscoveryHolds == ASSUME DiscoveryAssumption PROVE ServicesSpec => []CatalogueFits
<1>1. ASSUME ServicesInit
      PROVE  CatalogueFits
  <2>1. D!DiscoveryInit
    BY <1>1 DEF ServicesInit
  <2>2. CatalogueShape
    BY <2>1, PagesAre DEF D!DiscoveryInit, CatalogueShape, DiscoveryAssumption
  <2>3. FewPerPosting
    BY <2>1 DEF D!DiscoveryInit, FewPerPosting
  <2>4. ASSUME NEW c \in Cases
        PROVE  SyncShape(c) /\ ReadFits(c) /\ LockFits(c)
    <3>1. sync[c] = D!Idle /\ \A s \in D!Sources : checkpoint[c][s] = 1
      BY <2>1 DEF D!DiscoveryInit
    <3>2. SyncShape(c) /\ LockFits(c)
      BY <3>1 DEF SyncShape, LockFits, D!Idle
    <3>3. ReadFits(c)
      BY <3>1, PagesAre DEF ReadFits, D!Idle, MatchedBefore
    <3> QED
      BY <3>2, <3>3
  <2> QED
    BY <2>2, <2>3, <2>4 DEF CatalogueFits
<1>2. CatalogueFits /\ [ServicesNext]_servicesVars => CatalogueFits'
  BY DiscoveryStep DEF ServicesNext, OthersRest, servicesVars, discoveryVars
<1> QED
  BY <1>1, <1>2, PTL DEF ServicesSpec

\* Two opportunities of one posting mean that one of them has more neighbours, of its
\* employer or with its URL, than dedup looks at, whoever synchronises at once
\* (opportunities.py, _upsert_listing).
THEOREM PostingsMerged == ASSUME DiscoveryAssumption PROVE ServicesSpec => []OnePerPosting
<1>1. ASSUME NEW o, Crowded(o)
      PROVE  D!Cardinality(D!Near(o) \ {o}) > DedupLimit
  <2>1. {q \in posting \ {o} : Close(q, o)} = D!Near(o) \ {o}
    BY DEF Close, D!Near
  <2> QED
    BY <1>1, <2>1 DEF Crowded, Cardinality, D!Cardinality
<1>2. CatalogueFits => OnePerPosting
  BY <1>1 DEF CatalogueFits, FewPerPosting, OnePerPosting, D!OnePerPosting
<1> QED
  BY <1>2, DiscoveryHolds, PTL

\* A source that was read to its end is in the catalogue and matched for the case,
\* whatever was interrupted (opportunities.py, sync_case).
THEOREM ReadIsMatched == ASSUME DiscoveryAssumption PROVE ServicesSpec => []ReadMeansMatched
<1>1. CatalogueFits => ReadMeansMatched
  BY DEF CatalogueFits, ReadFits, Matched, ReadMeansMatched, D!ReadMeansMatched, D!Taken
<1> QED
  BY <1>1, DiscoveryHolds, PTL

\* A sync leaves the status of a match as the user set it (opportunities.py,
\* _upsert_match).
THEOREM StatusKept == ASSUME DiscoveryAssumption PROVE ServicesSpec => SyncKeepsStatus
<1>1. CatalogueFits /\ [ServicesNext]_servicesVars =>
        [sync' # sync => \A c \in Cases, o \in Listings :
           match[c][o] # "none" => match'[c][o] = match[c][o]]_discoveryVars
  <2> SUFFICES ASSUME CatalogueFits, D!DiscoveryNext, sync' # sync,
                      NEW c \in Cases, NEW o \in Listings, match[c][o] # "none"
               PROVE  match'[c][o] = match[c][o]
    BY DEF ServicesNext, OthersRest, servicesVars, discoveryVars
  <2>1. CatalogueShape
    BY DEF CatalogueFits
  <2>2. ASSUME NEW a \in Cases, D!UpsertListing(a)
        PROVE  match'[c][o] = match[c][o]
    <3>1. PICK i : match' = [match EXCEPT ![a][i] = D!MatchOf(@)]
      BY <2>2 DEF D!UpsertListing
    <3> QED
      BY <2>1, <3>1 DEF CatalogueShape, D!MatchOf
  <2>3. ASSUME NEW a \in Cases, D!SyncStep(a) \/ D!SyncCut(a), ~D!UpsertListing(a)
        PROVE  match' = match
    BY <2>3 DEF D!SyncStep, D!SyncCut, D!PageDone, D!SyncDone, D!SourceFails, D!OpenSource,
       D!LockListing
  <2>4. ASSUME NEW a \in Cases, D!UserOnOpportunities(a)
        PROVE  match' = match
    BY <2>4 DEF D!UserOnOpportunities, D!StartSync, D!SetMatchStatus
  <2> QED
    BY <2>2, <2>3, <2>4 DEF D!DiscoveryNext
<1> QED
  BY <1>1, DiscoveryHolds, PTL DEF ServicesSpec, SyncKeepsStatus, D!SyncKeepsStatus,
     discoveryVars, D!dVars

-----------------------------------------------------------------------------
(* Types: sessions *)

RequestRows == [at : {"none", "resolved", "locked"}, of : Logins \cup {NoLogin},
                kind : S!Kinds, copy : SessionRow]

\* What a request is to write keeps to the lifetime of its session.
LifetimesFit ==
  /\ S!SessionsTypeOK
  /\ session \in [Logins -> SessionRow] /\ served \in [Requests -> RequestRows]
  /\ \A q \in Requests : served[q].at # "none" =>
       served[q].of \in Logins /\ served[q].copy.idle <= session[served[q].of].expires

LEMMA LifetimesInitially == ServicesAssumption /\ S!SessionsInit => LifetimesFit
<1> SUFFICES ASSUME ServicesAssumption, S!SessionsInit
             PROVE  LifetimesFit
  OBVIOUS
<1>1. S!NoSession \in SessionRow
  BY DEF S!NoSession, SessionRow
<1>2. S!NoRequest \in RequestRows /\ S!NoRequest.at = "none"
  BY <1>1 DEF S!NoRequest, RequestRows, S!Kinds
<1>3. S!NoSession.idle <= S!NoSession.expires
  BY DEF S!NoSession
<1>4. S!NoRequest.of \in Logins \cup {NoLogin}
  BY DEF S!NoRequest
<1>5. now = 0 /\ 0 \in 0..MaxTime
  BY DEF ServicesAssumption, SessionsAssumption, S!SessionsInit
<1> QED
  BY <1>1, <1>2, <1>3, <1>4, <1>5
     DEF S!SessionsInit, LifetimesFit, S!SessionsTypeOK

LEMMA LifetimesStep ==
  ASSUME ServicesAssumption, LifetimesFit, [S!SessionsNext]_sessionVars
  PROVE  LifetimesFit'
<1>1. /\ now \in 0..MaxTime /\ now \in Nat /\ MaxTime \in Nat
      /\ session \in [Logins -> SessionRow] /\ served \in [Requests -> RequestRows]
      /\ \A s \in Logins : session[s].idle <= session[s].expires
      /\ attempts \in Nat /\ guesses \in Nat /\ tokens \in Nat
      /\ login \in [Guessers -> {"none", "checks"}]
      /\ \A q \in Requests : served[q].at # "none" =>
           served[q].of \in Logins /\ served[q].copy.idle <= session[served[q].of].expires
  BY DEF LifetimesFit, S!SessionsTypeOK, ServicesAssumption, SessionsAssumption
<1>2. IdleTime \in Nat /\ Lifetime \in Nat /\ IdleTime <= Lifetime
  BY DEF ServicesAssumption, SessionsAssumption
<1>3. S!NoRequest \in RequestRows /\ S!NoRequest.at = "none"
  BY DEF S!NoRequest, S!NoSession, RequestRows, SessionRow, S!Kinds
\* What is left to show
<1> DEFINE Times == now' \in 0..MaxTime /\ attempts' \in Nat /\ guesses' \in Nat
                    /\ login' \in [Guessers -> {"none", "checks"}]
           Rows == /\ session' \in [Logins -> SessionRow]
                   /\ \A s \in Logins : session'[s].idle <= session'[s].expires
                   /\ \A s \in Logins : session[s].expires <= session'[s].expires
           Waiting == /\ served' \in [Requests -> RequestRows]
                      /\ \A q \in Requests : served'[q].at # "none" =>
                           /\ served'[q].of \in Logins
                           /\ served'[q].copy.idle <= session[served'[q].of].expires
<1>4. Times /\ Rows /\ Waiting /\ tokens' \in Nat => LifetimesFit'
  <2> SUFFICES ASSUME Times, Rows, Waiting, tokens' \in Nat
               PROVE  LifetimesFit'
    OBVIOUS
  <2>1. \A q \in Requests : /\ served'[q].at \in {"none", "resolved", "locked"}
                            /\ served'[q].of \in Logins \cup {NoLogin}
    BY DEF RequestRows
  <2>2. ASSUME NEW q \in Requests, served'[q].at # "none"
        PROVE  /\ served'[q].of \in Logins
               /\ served'[q].copy.idle <= session'[served'[q].of].expires
    <3> DEFINE s == served'[q].of
    <3>1. s \in Logins /\ served'[q].copy.idle <= session[s].expires
      BY <2>2
    <3>2. served'[q].copy.idle \in Nat
      BY DEF RequestRows, SessionRow
    <3>3. session[s].expires \in Nat /\ session'[s].expires \in Nat
      BY <1>1, <3>1 DEF SessionRow
    <3>4. session[s].expires <= session'[s].expires
      BY <3>1
    <3> HIDE DEF s
    <3>5. served'[q].copy.idle <= session'[s].expires
      BY <3>1, <3>2, <3>3, <3>4
    <3> QED
      BY <3>1, <3>5 DEF s
  <2> QED
    BY <2>1, <2>2 DEF LifetimesFit, S!SessionsTypeOK
<1> SUFFICES Times /\ Rows /\ Waiting /\ tokens' \in Nat
  BY <1>4
<1>5. ASSUME NEW s \in Logins
      PROVE  /\ session[s].seen \in Nat /\ session[s].idle \in Nat /\ session[s].expires \in Nat
             /\ session[s].expires <= session[s].expires
  BY <1>1 DEF SessionRow
<1>6. ASSUME NEW q \in Requests
      PROVE  /\ served[q].copy \in SessionRow /\ served[q].copy.idle \in Nat
             /\ served[q].copy.seen \in Nat
             /\ served[q].of \in Logins \cup {NoLogin} /\ served[q].kind \in S!Kinds
             /\ served[q].at \in {"none", "resolved", "locked"}
  BY <1>1 DEF SessionRow, RequestRows
<1>7. UNCHANGED session => Rows
  BY <1>1, <1>5
<1>8. UNCHANGED served => Waiting
  BY <1>1
<1>9. UNCHANGED <<now, attempts, guesses, login>> => Times
  BY <1>1
<1>10. \A q \in Requests : served' = [served EXCEPT ![q] = S!NoRequest] => Waiting
  BY <1>1, <1>3
<1>11. CASE UNCHANGED sessionVars
  BY <1>1, <1>7, <1>8, <1>9, <1>11 DEF sessionVars
<1>12. CASE S!Tick
  <2>1. now' \in 0..MaxTime
    BY <1>1, <1>12 DEF S!Tick
  <2> QED
    BY <1>1, <1>7, <1>8, <1>12, <2>1 DEF S!Tick
<1>13. ASSUME NEW g \in Guessers, S!LoginBegin(g)
       PROVE  Times /\ Rows /\ Waiting /\ tokens' \in Nat
  BY <1>1, <1>7, <1>8, <1>13 DEF S!LoginBegin
<1>14. ASSUME NEW g \in Guessers, S!WrongPassword(g)
       PROVE  Times /\ Rows /\ Waiting /\ tokens' \in Nat
  BY <1>1, <1>7, <1>8, <1>14 DEF S!WrongPassword, S!Kept
<1>15. ASSUME NEW g \in Guessers, NEW s \in Logins, S!LoggedIn(g, s)
       PROVE  Times /\ Rows /\ Waiting /\ tokens' \in Nat
  <2> DEFINE row == [here |-> TRUE, revoked |-> FALSE, seen |-> now, idle |-> now + IdleTime,
                     expires |-> now + Lifetime]
  <2>1. row \in SessionRow /\ row.idle <= row.expires
    BY <1>1, <1>2 DEF SessionRow
  <2>2. session[s].expires <= row.expires
    BY <1>1, <1>2, <1>15 DEF S!LoggedIn
  <2>3. session' = [session EXCEPT ![s] = row]
    BY <1>15 DEF S!LoggedIn
  <2> HIDE DEF row
  <2>4. Rows
    BY <1>1, <1>5, <2>1, <2>2, <2>3
  <2> QED
    BY <1>1, <1>8, <1>15, <2>4 DEF S!LoggedIn
<1>16. ASSUME NEW q \in Requests, NEW s \in Logins, NEW kind \in S!Kinds, S!Resolve(q, s, kind)
       PROVE  Times /\ Rows /\ Waiting /\ tokens' \in Nat
  <2> DEFINE copy == IF now > session[s].seen
                       THEN [session[s] EXCEPT !.seen = now,
                               !.idle = S!Min2(now + IdleTime, session[s].expires)]
                       ELSE session[s]
             r == [at |-> "resolved", of |-> s, kind |-> kind, copy |-> copy]
  <2>1. S!Min2(now + IdleTime, session[s].expires) \in Nat
        /\ S!Min2(now + IdleTime, session[s].expires) <= session[s].expires
    BY <1>1, <1>2, <1>5 DEF S!Min2
  <2>2. copy \in SessionRow /\ copy.idle <= session[s].expires
    <3> DEFINE end == S!Min2(now + IdleTime, session[s].expires)
    <3>1. session[s] \in SessionRow /\ session[s].idle <= session[s].expires /\ now \in Nat
      BY <1>1
    <3>2. end \in Nat /\ end <= session[s].expires
      BY <2>1
    <3> HIDE DEF end
    <3>3. ASSUME now > session[s].seen
          PROVE  copy = [session[s] EXCEPT !.seen = now, !.idle = end]
      BY <3>3 DEF end
    <3>4. [session[s] EXCEPT !.seen = now, !.idle = end] \in SessionRow
          /\ [session[s] EXCEPT !.seen = now, !.idle = end].idle = end
      BY <3>1, <3>2 DEF SessionRow
    <3>5. CASE now > session[s].seen
      BY <3>2, <3>3, <3>4, <3>5
    <3>6. CASE ~(now > session[s].seen)
      BY <3>1, <3>6
    <3> QED
      BY <3>5, <3>6
  <2>3. served' = [served EXCEPT ![q] = r]
    BY <1>16 DEF S!Resolve
  <2> HIDE DEF copy
  <2>4. r \in RequestRows
    BY <2>2 DEF RequestRows
  <2>5. r.of = s /\ r.copy = copy
    OBVIOUS
  <2> HIDE DEF r
  <2>6. Waiting
    BY <1>1, <2>2, <2>3, <2>4, <2>5
  <2> QED
    BY <1>1, <1>7, <1>9, <1>16, <2>6 DEF S!Resolve, S!clientVars
<1>17. ASSUME NEW q \in Requests, S!LockSession(q)
       PROVE  Times /\ Rows /\ Waiting /\ tokens' \in Nat
  <2>1. served[q].at # "none" /\ served' = [served EXCEPT ![q].at = "locked"]
    BY <1>17 DEF S!LockSession
  <2>2. [served[q] EXCEPT !.at = "locked"] \in RequestRows
    BY <1>1 DEF RequestRows
  <2>3. Waiting
    BY <1>1, <2>1, <2>2 DEF RequestRows
  <2> QED
    BY <1>1, <1>7, <1>9, <1>17, <2>3 DEF S!LockSession, S!clientVars
<1>18. ASSUME NEW q \in Requests, S!RequestEnds(q)
       PROVE  Times /\ Rows /\ Waiting /\ tokens' \in Nat
  <2> DEFINE r == served[q]
             s == r.of
  <2>1. r.at # "none" /\ s \in Logins /\ r.copy.idle <= session[s].expires
    BY <1>1, <1>18 DEF S!RequestEnds
  <2>2. tokens' \in Nat
    <3>1. CASE tokens' = tokens - 1 /\ tokens > 0
      BY <1>1, <3>1
    <3>2. tokens' \in {tokens, 0, tokens + 1} \/ (tokens' = tokens - 1 /\ tokens > 0)
      <4>1. tokens' = IF ~session[s].here THEN tokens ELSE
                      CASE r.kind = "delete account" -> 0
                        [] r.kind = "create token" -> tokens + 1
                        [] r.kind = "revoke token" /\ tokens > 0 -> tokens - 1
                        [] OTHER -> tokens
        BY <1>18 DEF S!RequestEnds
      <4> HIDE DEF s, r
      <4> QED
        BY <4>1
    <3> QED
      BY <1>1, <3>1, <3>2
  <2> DEFINE new == [S!Touched(session[s], r.copy) EXCEPT !.revoked = @ \/ r.kind = "logout"]
             gone == [t \in Logins |-> [session[t] EXCEPT !.here = FALSE]]
             one == [session EXCEPT ![s] = new]
  <2>3. session' \in {session, gone, one}
    <3>1. session' = IF ~session[s].here THEN session ELSE
                     CASE r.kind = "delete account" -> gone
                       [] r.kind # "delete account" /\ r.at = "locked" -> one
                       [] OTHER -> session
      BY <1>18 DEF S!RequestEnds
    <3> HIDE DEF gone, one, new, s, r
    <3> QED
      BY <3>1
  <2>4. new \in SessionRow /\ new.idle <= new.expires /\ new.expires = session[s].expires
    <3>1. session[s] \in SessionRow /\ r.copy.seen \in Nat /\ r.copy.idle \in Nat
      BY <1>1, <1>6, <2>1
    <3> HIDE DEF r
    <3>2. S!Touched(session[s], r.copy) \in SessionRow
          /\ S!Touched(session[s], r.copy).idle = r.copy.idle
          /\ S!Touched(session[s], r.copy).expires = session[s].expires
      BY <3>1 DEF S!Touched, SessionRow
    <3> HIDE DEF s
    <3>3. new \in SessionRow /\ new.idle = r.copy.idle /\ new.expires = session[s].expires
      BY <3>2 DEF SessionRow
    <3> QED
      BY <2>1, <3>3
  <2>5. ASSUME session' = gone
        PROVE  Rows
    <3>1. \A t \in Logins : gone[t] \in SessionRow /\ gone[t].idle = session[t].idle
                            /\ gone[t].expires = session[t].expires
      BY ZenonT(40), <1>1 DEF SessionRow
    <3> HIDE DEF gone
    <3>2. gone \in [Logins -> SessionRow]
      BY <1>1, <3>1 DEF gone
    <3> QED
      BY <1>1, <1>5, <2>5, <3>1, <3>2
  <2>6. ASSUME session' = one
        PROVE  Rows
    <3> HIDE DEF new, s, r
    <3> QED
      BY <1>1, <1>5, <2>1, <2>4, <2>6 DEF one
  <2>7. Rows
    BY <1>7, <2>3, <2>5, <2>6
  <2> QED
    BY <1>9, <1>10, <1>18, <2>2, <2>7 DEF S!RequestEnds
<1>19. ASSUME NEW q \in Requests, S!RequestFails(q)
       PROVE  Times /\ Rows /\ Waiting /\ tokens' \in Nat
  BY <1>1, <1>7, <1>9, <1>10, <1>19 DEF S!RequestFails, S!clientVars
<1> QED
  BY <1>11, <1>12, <1>13, <1>14, <1>15, <1>16, <1>17, <1>18, <1>19
     DEF S!SessionsNext, S!SignIn, S!ServeRequest

-----------------------------------------------------------------------------
(* Types: drafts *)

Places == W!Nodes \cup {"waiting", "asked", "repair", "saved", "declined", "failed", "ended"}
WriterRow == [at : Places, kind : W!Kinds, facts : SUBSET Entries, known : SUBSET Entries,
              answer : SUBSET Sentences, since : Nat, made : BOOLEAN, again : BOOLEAN]
ConsentRow == [status : {"none", "pending", "approved", "rejected"},
               model : Models \cup {NoModel}, facts : SUBSET Entries]
CallRow == [model : Models \cup {NoModel}, beyond : SUBSET Entries,
            agreed : {"none", "pending", "approved", "rejected"},
            named : Models \cup {NoModel}, switched : BOOLEAN, again : BOOLEAN]
DocumentRow == [here : BOOLEAN, current : 0..MaxVersions, rendered : SUBSET Nat,
                lost : SUBSET Nat, deleting : BOOLEAN]
RenderRow == [at : {"none", "asked", "read"}, version : Nat \ {0}]
SavedRow == [times : 0..2, early : BOOLEAN]

VersionsFit == /\ generated.rendered \subseteq 1..generated.current
               /\ generated.lost \subseteq generated.rendered
WriterFits == writer \in WriterRow
ProfileUsed == fact \in [Entries -> W!EntryStates] /\ standard \in Models /\ switches \in 0..MaxSwitches
FilesFit == /\ generated \in DocumentRow /\ VersionsFit
            /\ renders \in [{"run", "user"} -> RenderRow] /\ produced \in SavedRow
DraftsFit == WriterFits /\ ProfileUsed /\ FilesFit /\ request \in ConsentRow /\ call \in CallRow

LEMMA DraftsFitInitially == ServicesAssumption /\ W!DraftsInit => DraftsFit
<1> SUFFICES ASSUME ServicesAssumption, W!DraftsInit PROVE DraftsFit
  OBVIOUS
<1>1. WriterFits
  BY DEF W!DraftsInit, WriterFits, WriterRow, Places, W!NoRun, W!Kinds
<1>2. ProfileUsed
  <2>1. 0 \in 0..MaxSwitches
    BY DEF ServicesAssumption, DraftsAssumption
  <2> QED
    BY <2>1 DEF W!DraftsInit, ProfileUsed, W!EntryStates
<1>3. FilesFit
  <2>1. 0 \in 0..MaxVersions
    BY DEF ServicesAssumption, DraftsAssumption
  <2>2. /\ W!NoDocument \in DocumentRow
        /\ W!NoDocument.rendered = {} /\ W!NoDocument.lost = {}
    BY <2>1 DEF W!NoDocument, DocumentRow
  <2>3. W!NoRender \in RenderRow
    BY DEF W!NoRender, RenderRow
  <2> QED
    BY <2>2, <2>3 DEF W!DraftsInit, FilesFit, VersionsFit, W!NothingYet, SavedRow
<1>4. request \in ConsentRow /\ call \in CallRow
  BY DEF W!DraftsInit, ConsentRow, CallRow, W!NoRequest, W!NoCall
<1> QED
  BY <1>1, <1>2, <1>3, <1>4 DEF DraftsFit

LEMMA DraftsFitStep ==
  ASSUME ServicesAssumption, DraftsFit, [W!DraftsNext]_draftVars
  PROVE  DraftsFit'
<1> USE DEF W!Go, W!sourceVars, W!filesVars
<1>1. writer \in WriterRow /\ writer.facts \subseteq Entries /\ writer.known \subseteq Entries
  BY DEF DraftsFit, WriterFits, WriterRow
<1>2. switches \in Nat /\ standard \in Models /\ fact \in [Entries -> W!EntryStates]
      /\ switches \in 0..MaxSwitches /\ MaxSwitches \in Nat
      /\ MaxVersions \in Nat /\ MaxVersions >= 1
      /\ {SummaryEntry, SkillEntry, CvText} \subseteq Entries
  BY DEF DraftsFit, ProfileUsed, ServicesAssumption, DraftsAssumption
<1>3. request \in ConsentRow /\ call \in CallRow
  BY DEF DraftsFit
<1>4. generated \in DocumentRow /\ generated.rendered \subseteq 1..generated.current
      /\ generated.lost \subseteq generated.rendered
      /\ renders \in [{"run", "user"} -> RenderRow] /\ produced \in SavedRow
  BY DEF DraftsFit, FilesFit, VersionsFit
<1>5. UNCHANGED writer => WriterFits'
  BY DEF DraftsFit, WriterFits
<1>6. UNCHANGED <<fact, standard, switches>> => ProfileUsed'
  BY DEF DraftsFit, ProfileUsed
<1>7. UNCHANGED <<generated, renders, produced>> => FilesFit'
  BY DEF DraftsFit, FilesFit, VersionsFit
<1>8. UNCHANGED request => request' \in ConsentRow
  BY <1>3
<1>9. UNCHANGED call => call' \in CallRow
  BY <1>3
<1> SUFFICES WriterFits' /\ ProfileUsed' /\ FilesFit' /\ request' \in ConsentRow /\ call' \in CallRow
  BY DEF DraftsFit
<1>10. W!Nodes \cup {"waiting", "saved", "declined", "failed", "ended"} \subseteq Places
  BY DEF Places
\* The run goes to another place
<1>11. ASSUME NEW at \in Places, writer' = [writer EXCEPT !.at = at]
       PROVE  WriterFits'
  BY <1>1, <1>11 DEF WriterFits, WriterRow
<1>12. CASE UNCHANGED draftVars
  BY <1>3, <1>5, <1>6, <1>7, <1>12 DEF draftVars
<1>13. CASE W!Gather
  <2> DEFINE to == CASE writer.kind = "resume" -> "assemble"
                     [] writer.kind = "summary" /\ W!Shareable("summary") = {} -> "ended"
                     [] OTHER -> "consent"
             known == IF writer.kind = "skills" THEN W!KnownSkills ELSE {}
  <2>1. to \in {"assemble", "ended", "consent"}
    OBVIOUS
  <2>2. writer' = [writer EXCEPT !.facts = W!Shareable(writer.kind), !.known = known, !.at = to]
    BY <1>13 DEF W!Gather
  <2>3. W!Shareable(writer.kind) \in SUBSET Entries /\ known \in SUBSET Entries
    BY <1>2 DEF W!Shareable, W!KnownSkills
  <2>4. UNCHANGED <<fact, standard, switches, request, call, generated, renders, produced>>
    BY <1>13 DEF W!Gather
  <2>5. to \in Places
    BY <2>1 DEF Places, W!Nodes
  <2> HIDE DEF to, known
  <2>6. WriterFits'
    BY <1>1, <2>2, <2>3, <2>5 DEF WriterFits, WriterRow
  <2> QED
    BY <1>3, <1>6, <1>7, <2>4, <2>6
<1>14. CASE W!GatherRefused \/ W!Assemble \/ W!Declined \/ W!RetryWriter
  <2>1. PICK at \in {"ended", "save", "draft"} : writer' = [writer EXCEPT !.at = at]
    BY <1>14 DEF W!GatherRefused, W!Assemble, W!Declined, W!RetryWriter
  <2>2. UNCHANGED <<fact, standard, switches, request, call, generated, renders, produced>>
    BY <1>14 DEF W!GatherRefused, W!Assemble, W!Declined, W!RetryWriter
  <2>3. at \in Places
    BY DEF Places, W!Nodes
  <2> QED
    BY <1>3, <1>6, <1>7, <1>11, <2>1, <2>2, <2>3
<1>15. CASE W!Consent
  <2>1. writer.at = "consent" /\ UNCHANGED <<fact, standard, switches, call, generated, renders, produced>>
    BY <1>15 DEF W!Consent
  <2>2. CASE UNCHANGED request /\ \E at \in {"draft", "declined"} :
               writer' = [writer EXCEPT !.at = at] \/ writer' = [writer EXCEPT !.at = at, !.since = switches]
    <3>1. WriterFits'
      BY <1>1, <1>2, <2>1, <2>2 DEF WriterFits, WriterRow, Places, W!Nodes
    <3> QED
      BY <1>3, <1>6, <1>7, <2>1, <2>2, <3>1
  <2>3. CASE request.status = "pending" /\ UNCHANGED request
               /\ writer' = [writer EXCEPT !.at = "waiting", !.since = @]
    <3>1. WriterFits'
      BY <1>1, <2>1, <2>3 DEF WriterFits, WriterRow, Places, W!Nodes
    <3> QED
      BY <1>3, <1>6, <1>7, <2>1, <2>3, <3>1
  <2>4. CASE /\ request' = [status |-> "pending", model |-> standard, facts |-> writer.facts]
             /\ writer' = [writer EXCEPT !.at = "waiting", !.since = switches]
    <3>1. WriterFits'
      BY <1>1, <1>2, <2>1, <2>4 DEF WriterFits, WriterRow, Places, W!Nodes
    <3>2. request' \in ConsentRow
      BY <1>1, <1>2, <2>4 DEF ConsentRow
    <3> QED
      BY <1>6, <1>7, <1>9, <2>1, <3>1, <3>2
  <2> QED
    BY <1>15, <2>2, <2>3, <2>4 DEF W!Consent, W!Permits
<1>16. ASSUME NEW status \in {"approved", "rejected"}, W!Decided(status)
       PROVE  DraftsFit'
  <2>1. /\ writer' = [writer EXCEPT !.at = "consent"] /\ writer.at = "waiting"
        /\ request' = [request EXCEPT !.status = status]
        /\ UNCHANGED <<fact, standard, switches, call, generated, renders, produced>>
    BY <1>16 DEF W!Decided
  <2>2. "consent" \in Places
    BY DEF Places, W!Nodes
  <2>3. request' \in ConsentRow
    BY <1>3, <2>1 DEF ConsentRow
  <2> QED
    BY <1>6, <1>7, <1>9, <1>11, <2>1, <2>2, <2>3 DEF DraftsFit
<1>17. ASSUME NEW from \in {"draft", "repair"}, NEW o \in W!Outcomes, W!Complete(from, o)
       PROVE  DraftsFit'
  <2>1. PICK shared \in SUBSET writer.facts :
          call' = IF from = "repair" THEN call ELSE
                   [model |-> standard, beyond |-> (shared \cup writer.known) \ request.facts,
                    agreed |-> request.status, named |-> request.model,
                    switched |-> switches # writer.since, again |-> writer.again]
    BY <1>17 DEF W!Complete
  <2>2. call' \in CallRow
    <3>1. (shared \cup writer.known) \ request.facts \in SUBSET Entries /\ (switches # writer.since) \in BOOLEAN
          /\ request.status \in {"none", "pending", "approved", "rejected"}
          /\ request.model \in Models \cup {NoModel} /\ writer.again \in BOOLEAN
      BY <1>1, <1>3 DEF ConsentRow, WriterRow
    <3> QED
      BY <1>2, <1>3, <2>1, <3>1 DEF CallRow
  <2>3. PICK answer \in SUBSET Sentences, at \in {"repair", "asked"} :
          writer' = [writer EXCEPT !.answer = answer, !.at = at, !.made = o = "valid"]
    BY <1>17 DEF W!Complete
  <2>4. UNCHANGED <<fact, standard, switches, request, generated, renders, produced>>
    BY <1>17 DEF W!Complete
  <2>5. (o = "valid") \in BOOLEAN /\ at \in Places
    BY DEF Places
  <2>6. WriterFits'
    BY <1>1, <2>3, <2>5 DEF WriterFits, WriterRow
  <2> QED
    BY <1>3, <1>6, <1>7, <2>2, <2>4, <2>6 DEF DraftsFit
<1>18. ASSUME NEW from \in {"draft", "repair"}, W!CallFails(from)
       PROVE  DraftsFit'
  BY <1>3, <1>6, <1>7, <1>10, <1>11, <1>18 DEF W!CallFails, DraftsFit
<1>19. CASE W!Record
  <2>1. PICK at \in {"failed", "verify"} : writer' = [writer EXCEPT !.at = at]
    BY <1>19 DEF W!Record
  <2>2. at \in Places
    BY DEF Places, W!Nodes
  <2> QED
    BY <1>3, <1>6, <1>7, <1>11, <1>19, <2>1, <2>2 DEF W!Record
<1>20. CASE W!Verify
  <2>1. PICK node \in {"ended", "save"} :
          writer' = [writer EXCEPT !.answer = {s \in @ : W!Supported(s)}, !.at = node]
    BY <1>20 DEF W!Verify
  <2>2. writer.at = "verify" /\ UNCHANGED <<fact, standard, switches, request, call, generated, renders, produced>>
    BY <1>20 DEF W!Verify
  <2>3. {s \in writer.answer : W!Supported(s)} \in SUBSET Sentences
    BY <1>1 DEF WriterRow
  <2>4. WriterFits'
    BY <1>1, <2>1, <2>2, <2>3 DEF WriterFits, WriterRow, Places, W!Nodes
  <2> QED
    BY <1>3, <1>6, <1>7, <2>2, <2>4
<1>21. \A kind \in W!Kinds, at \in Places :
         writer' = [W!NoRun EXCEPT !.at = at, !.kind = kind] => WriterFits'
  <2>1. W!NoRun \in WriterRow
    BY DEF WriterRow, Places, W!NoRun, W!Kinds
  <2> QED
    BY <2>1 DEF WriterFits, WriterRow
<1>22. W!NoRequest \in ConsentRow /\ W!NoCall \in CallRow
  BY DEF W!NoRequest, W!NoCall, ConsentRow, CallRow
<1>36. W!SavedAgain \in SavedRow
  BY <1>4 DEF W!SavedAgain, SavedRow
<1>23. CASE W!SaveDocument
  <2>1. /\ writer' = [W!NoRun EXCEPT !.at = "saved", !.kind = writer.kind]
        /\ writer.kind \in W!Kinds /\ "saved" \in Places
        /\ request' = W!NoRequest /\ call' = W!NoCall
        /\ UNCHANGED <<fact, standard, switches, renders>>
    BY <1>1, <1>23 DEF W!SaveDocument, WriterRow, Places
  <2>2. \/ UNCHANGED <<generated, produced>>
        \/ /\ generated' = [W!NoDocument EXCEPT !.here = TRUE, !.current = 1]
           /\ produced' = W!SavedAgain
    BY <1>23 DEF W!SaveDocument
  <2>3. generated' \in DocumentRow /\ VersionsFit' /\ produced' \in SavedRow
    <3>1. ASSUME NEW r \in DocumentRow, NEW n \in 0..MaxVersions
          PROVE  /\ [r EXCEPT !.here = TRUE, !.current = n] \in DocumentRow
                 /\ [r EXCEPT !.here = TRUE, !.current = n].rendered = r.rendered
                 /\ [r EXCEPT !.here = TRUE, !.current = n].lost = r.lost
      BY DEF DocumentRow
    <3>2. 1 \in 0..MaxVersions /\ 0 \in 0..MaxVersions
      BY <1>2
    <3>3. W!NoDocument \in DocumentRow /\ W!NoDocument.rendered = {} /\ W!NoDocument.lost = {}
      BY <3>2 DEF W!NoDocument, DocumentRow
    <3> DEFINE first == [W!NoDocument EXCEPT !.here = TRUE, !.current = 1]
    <3>4. first \in DocumentRow /\ first.rendered = {} /\ first.lost = {}
      BY <3>1, <3>2, <3>3
    <3>5. UNCHANGED <<generated, produced>> \/ (generated' = first /\ produced' = W!SavedAgain)
      BY <2>2
    <3> HIDE DEF first
    <3> QED
      BY <1>4, <1>36, <3>4, <3>5 DEF VersionsFit
  <2>4. WriterFits'
    BY <1>21, <2>1
  <2>5. FilesFit'
    BY <1>4, <2>1, <2>3 DEF FilesFit
  <2> QED
    BY <1>6, <1>22, <2>1, <2>4, <2>5
<1>24. ASSUME NEW kind \in W!Kinds, W!StartDraft(kind)
       PROVE  DraftsFit'
  <2>1. /\ writer' = [W!NoRun EXCEPT !.at = "gather", !.kind = kind] /\ "gather" \in Places
        /\ produced' = W!NothingYet /\ W!NothingYet \in SavedRow
        /\ request' = W!NoRequest /\ call' = W!NoCall
        /\ UNCHANGED <<fact, standard, switches, generated>>
    BY <1>24 DEF W!StartDraft, Places, W!Nodes, W!NothingYet, SavedRow
  <2>2. renders' \in [{"run", "user"} -> RenderRow]
    BY <1>4, <1>24 DEF W!StartDraft, W!NoRender, RenderRow
  <2>3. WriterFits'
    BY <1>21, <2>1
  <2>4. FilesFit'
    BY <1>4, <2>1, <2>2 DEF FilesFit, VersionsFit
  <2> QED
    BY <1>6, <1>22, <2>1, <2>3, <2>4 DEF DraftsFit
<1>25. ASSUME NEW e, NEW state \in W!EntryStates,
              fact' = [fact EXCEPT ![e] = state], UNCHANGED <<standard, switches>>
       PROVE  ProfileUsed'
  BY <1>2, <1>25 DEF ProfileUsed, W!EntryStates
<1>26. CASE W!SaveSummary
  <2>1. /\ writer' = [writer EXCEPT !.at = "saved"] /\ produced' \in {produced, W!SavedAgain}
        /\ UNCHANGED <<standard, switches, request, call, generated, renders>>
    BY <1>26 DEF W!SaveSummary
  <2>2. ProfileUsed'
    <3>1. \/ UNCHANGED fact
          \/ fact' = [fact EXCEPT ![SummaryEntry] =
                        IF fact[SummaryEntry] = "gone" THEN "withheld" ELSE fact[SummaryEntry]]
      BY <1>26 DEF W!SaveSummary
    <3>2. (IF fact[SummaryEntry] = "gone" THEN "withheld" ELSE fact[SummaryEntry]) \in W!EntryStates
      BY <1>2 DEF W!EntryStates
    <3> QED
      BY <1>6, <1>25, <2>1, <3>1, <3>2
  <2>3. "saved" \in Places
    BY DEF Places
  <2> QED
    BY <1>3, <1>4, <1>11, <1>36, <2>1, <2>2, <2>3 DEF FilesFit, VersionsFit
<1>27. CASE W!AddSkills
  BY <1>3, <1>5, <1>7, <1>25, <1>27 DEF W!AddSkills, W!EntryStates
<1>28. ASSUME NEW e \in Entries, NEW state \in {"usable", "withheld"}, W!ReviewEntry(e, state)
       PROVE  DraftsFit'
  BY <1>3, <1>5, <1>7, <1>25, <1>28 DEF W!ReviewEntry, W!EntryStates, DraftsFit
<1>29. CASE W!WriterCut
  <2> DEFINE at == CASE writer.at \in {"asked", "repair"} -> "draft"
                     [] writer.at = "saved" -> "save"
                     [] OTHER -> writer.at
  <2>1. /\ writer' = [writer EXCEPT !.at = at]
        /\ UNCHANGED <<fact, standard, switches, request, call, generated, produced>>
    BY <1>29 DEF W!WriterCut
  <2>2. at \in Places
    BY <1>1 DEF WriterRow, Places, W!Nodes
  <2>3. renders' \in [{"run", "user"} -> RenderRow]
    <3>1. \A r \in RenderRow : \A to \in {"none", "asked"} : [r EXCEPT !.at = to] \in RenderRow
      BY DEF RenderRow
    <3>2. PICK to \in {"none", "asked"} : renders' = [renders EXCEPT !["run"].at = to]
      BY <1>29 DEF W!WriterCut
    <3> QED
      BY <1>4, <3>1, <3>2
  <2> HIDE DEF at
  <2> QED
    BY <1>3, <1>4, <1>6, <1>11, <2>1, <2>2, <2>3 DEF FilesFit, VersionsFit
<1>30. ASSUME NEW m \in Models, W!SetStandard(m)
       PROVE  DraftsFit'
  <2>1. ProfileUsed'
    BY <1>2, <1>30 DEF W!SetStandard, ProfileUsed
  <2> QED
    BY <1>3, <1>5, <1>7, <1>30, <2>1 DEF W!SetStandard, DraftsFit
<1>31. CASE W!SaveEdit
  <2>1. generated' = [generated EXCEPT !.current = @ + 1] /\ generated.current + 1 \in 0..MaxVersions
        /\ UNCHANGED <<fact, standard, switches, writer, request, call, renders, produced>>
    BY <1>2, <1>4, <1>31 DEF W!SaveEdit, DocumentRow
  <2>2. generated' \in DocumentRow /\ generated'.current = generated.current + 1
        /\ generated'.rendered = generated.rendered /\ generated.current \in Nat
        /\ generated'.lost = generated.lost
    BY <1>4, <2>1 DEF DocumentRow
  <2>3. VersionsFit'
    BY <1>4, <2>2 DEF VersionsFit
  <2> QED
    BY <1>3, <1>4, <1>5, <1>6, <2>1, <2>2, <2>3 DEF FilesFit
<1>32. CASE W!UnlinkFiles \/ W!DeleteDocument
  <2>1. UNCHANGED <<fact, standard, switches, writer, request, call, renders>>
    BY <1>32 DEF W!UnlinkFiles, W!DeleteDocument
  <2>2. generated' \in DocumentRow /\ VersionsFit' /\ produced' \in SavedRow
    <3>1. CASE W!UnlinkFiles
      BY <1>4, <3>1 DEF W!UnlinkFiles, DocumentRow, VersionsFit
    <3>2. CASE /\ generated' = W!Cleared(generated)
               /\ produced' = [produced EXCEPT !.early = @ \/ writer.at \notin W!PastSave]
      <4>1. 0 \in 0..MaxVersions
        BY <1>2
      <4>2. produced' \in SavedRow
        BY <1>4, <3>2 DEF SavedRow
      <4> QED
        BY <3>2, <4>1, <4>2 DEF W!Cleared, W!NoDocument, DocumentRow, VersionsFit
    <3>3. CASE generated' = [generated EXCEPT !.deleting = FALSE] /\ UNCHANGED produced
      BY <1>4, <3>3 DEF DocumentRow, VersionsFit
    <3> QED
      BY <1>32, <3>1, <3>2, <3>3 DEF W!DeleteDocument
  <2> QED
    BY <1>3, <1>4, <1>5, <1>6, <2>1, <2>2 DEF FilesFit
<1>33. CASE W!SaveDone
  <2>1. WriterFits'
    <3>1. PICK at \in {"ended", "render"} : writer' = [writer EXCEPT !.at = at]
      BY <1>33 DEF W!SaveDone
    <3> QED
      BY <1>11, <3>1 DEF Places, W!Nodes
  <2>2. renders' \in [{"run", "user"} -> RenderRow]
    <3>1. [at |-> "asked", version |-> 1] \in RenderRow
      BY DEF RenderRow
    <3>2. renders' \in {renders, [renders EXCEPT !["run"] = [at |-> "asked", version |-> 1]]}
      BY <1>33 DEF W!SaveDone
    <3> QED
      BY <1>4, <3>1, <3>2
  <2> QED
    BY <1>3, <1>4, <1>6, <1>33, <2>1, <2>2 DEF W!SaveDone, FilesFit, VersionsFit
<1>34. ASSUME NEW n \in 1..MaxVersions, W!StartRender(n)
       PROVE  DraftsFit'
  <2>1. renders' \in [{"run", "user"} -> RenderRow]
    BY <1>2, <1>4, <1>34 DEF W!StartRender, RenderRow
  <2> QED
    BY <1>3, <1>4, <1>5, <1>6, <1>34, <2>1 DEF W!StartRender, FilesFit, VersionsFit, DraftsFit
<1>35. ASSUME NEW p \in {"run", "user"}, W!RenderRead(p) \/ W!RenderRecord(p)
       PROVE  DraftsFit'
  <2>1. PICK at \in {"none", "read"} : renders' = [renders EXCEPT ![p].at = at]
    BY <1>35 DEF W!RenderRead, W!RenderRecord, W!Rendered
  <2>2. renders' \in [{"run", "user"} -> RenderRow]
    BY <1>4, <2>1 DEF RenderRow
  <2>3. WriterFits'
    <3>1. writer' = writer \/ writer' = [writer EXCEPT !.at = "ended"]
      BY <1>35 DEF W!RenderRead, W!RenderRecord, W!Rendered
    <3> QED
      BY <1>5, <1>10, <1>11, <3>1
  <2>4. UNCHANGED <<fact, standard, switches, request, call, produced>>
    BY <1>35 DEF W!RenderRead, W!RenderRecord
  <2>5. generated' \in DocumentRow /\ VersionsFit'
    <3> DEFINE n == renders[p].version
    <3>1. n \in Nat /\ n >= 1
      BY <1>4 DEF RenderRow
    <3>2. generated' = generated \/ (n <= generated.current /\
            generated' = [generated EXCEPT !.rendered = @ \cup {n}, !.lost = @ \ {n}])
      BY <1>35 DEF W!RenderRead, W!RenderRecord
    <3> HIDE DEF n
    <3>3. CASE n <= generated.current /\
               generated' = [generated EXCEPT !.rendered = @ \cup {n}, !.lost = @ \ {n}]
      <4>1. generated.current \in Nat /\ n \in 1..generated.current
        BY <1>2, <1>4, <3>1, <3>3 DEF DocumentRow
      <4>2. generated.rendered \cup {n} \subseteq 1..generated.current
        BY <1>4, <4>1
      <4>3. generated.rendered \cup {n} \in SUBSET Nat /\ generated.lost \ {n} \in SUBSET Nat
        BY <1>4, <3>1 DEF DocumentRow
      <4>4. /\ generated' \in DocumentRow /\ generated'.current = generated.current
            /\ generated'.rendered = generated.rendered \cup {n}
            /\ generated'.lost = generated.lost \ {n}
        BY <1>4, <3>3, <4>3 DEF DocumentRow
      <4> QED
        BY <1>4, <4>2, <4>4 DEF VersionsFit
    <3> QED
      BY <1>4, <3>2, <3>3 DEF VersionsFit
  <2> QED
    BY <1>3, <1>4, <1>6, <2>2, <2>3, <2>4, <2>5 DEF FilesFit, DraftsFit
<1>37. CASE W!RerunWriter
  <2>1. writer' = [W!NoRun EXCEPT !.at = "gather", !.kind = writer.kind, !.since = writer.since,
                                 !.again = request.status # "none"]
        /\ call' = W!NoCall /\ UNCHANGED <<fact, standard, switches, request, generated, renders>>
    BY <1>37 DEF W!RerunWriter
  <2>2. WriterFits'
    BY <1>1, <2>1 DEF WriterFits, WriterRow, Places, W!Nodes, W!NoRun
  <2>3. produced' \in SavedRow
    BY <1>4, <1>37 DEF W!RerunWriter, SavedRow
  <2> QED
    BY <1>3, <1>4, <1>6, <1>22, <2>1, <2>2, <2>3 DEF FilesFit, VersionsFit
<1> QED
  BY <1>12, <1>13, <1>14, <1>15, <1>16, <1>17, <1>18, <1>19, <1>20, <1>23, <1>24, <1>26, <1>27,
     <1>28, <1>29, <1>30, <1>31, <1>32, <1>33, <1>34, <1>35, <1>37
     DEF W!DraftsNext, W!WriterStep, W!LetterStep, W!ResumeStep, W!SummaryStep, W!SkillsStep,
         W!NodeStep, W!RenderStep, W!UserOnDrafts, DraftsFit

LEMMA DraftsTypes == DraftsFit => W!DraftsTypeOK
<1> SUFFICES ASSUME DraftsFit PROVE W!DraftsTypeOK
  OBVIOUS
<1>1. fact \in [Entries -> W!EntryStates] /\ standard \in Models /\ switches \in 0..MaxSwitches
  BY DEF DraftsFit, ProfileUsed
<1>2. /\ writer.at \in Places /\ writer.kind \in W!Kinds /\ writer.facts \subseteq Entries
      /\ writer.known \subseteq Entries /\ writer.answer \subseteq Sentences
  BY DEF DraftsFit, WriterFits, WriterRow
<1>3. /\ request.status \in {"none", "pending", "approved", "rejected"}
      /\ call.model \in Models \cup {NoModel} /\ call.beyond \subseteq Entries
  BY DEF DraftsFit, ConsentRow, CallRow
<1>4. /\ generated.current \in 0..MaxVersions
      /\ generated.rendered \subseteq 1..generated.current
      /\ generated.lost \subseteq generated.rendered /\ produced \in [times : 0..2, early : BOOLEAN]
      /\ \A p \in {"run", "user"} : renders[p].at \in {"none", "asked", "read"}
  BY DEF DraftsFit, FilesFit, VersionsFit, DocumentRow, RenderRow, SavedRow
<1> QED
  BY <1>1, <1>2, <1>3, <1>4 DEF W!DraftsTypeOK, Places

\* What a run that has not gone on from its save has saved is there, unless the user
\* deleted it in that time.
SavedOnce ==
  /\ writer.at \notin W!PastSave /\ writer.kind # "summary" =>
       produced.times = 0 \/ produced.early \/ generated.here
  /\ produced.times <= 1 \/ produced.early

LEMMA SavedOnceStep ==
  ASSUME DraftsFit, SavedOnce, [W!DraftsNext]_draftVars
  PROVE  SavedOnce'
<1> USE DEF W!Go, W!sourceVars, W!filesVars
<1>1. writer \in WriterRow /\ produced \in SavedRow /\ generated \in DocumentRow
  BY DEF DraftsFit, WriterFits, FilesFit
\* The run goes on, and nothing is saved or deleted
<1>2. ASSUME UNCHANGED <<generated, produced>>, writer'.kind = writer.kind,
             writer.at \notin W!PastSave \/ writer'.at \in W!PastSave
      PROVE  SavedOnce'
  BY <1>2 DEF SavedOnce
<1>3. CASE UNCHANGED draftVars
  BY <1>3 DEF draftVars, SavedOnce
<1>4. CASE W!Gather \/ W!GatherRefused \/ W!Assemble \/ W!Consent \/ W!Declined \/ W!Record
            \/ W!Verify \/ W!RetryWriter \/ W!SaveDone \/ (\E status : W!Decided(status))
            \/ (\E from \in {"draft", "repair"} :
                  W!CallFails(from) \/ \E o \in W!Outcomes : W!Complete(from, o))
  <2>1. UNCHANGED <<generated, produced>> /\ writer.at \notin W!PastSave
    BY <1>4 DEF W!Gather, W!GatherRefused, W!Assemble, W!Consent, W!Declined, W!Record, W!Verify,
       W!RetryWriter, W!SaveDone, W!Decided, W!CallFails, W!Complete, W!PastSave
  <2>2. writer'.kind = writer.kind
    BY <1>1, <1>4 DEF W!Gather, W!GatherRefused, W!Assemble, W!Consent, W!Declined, W!Record,
       W!Verify, W!RetryWriter, W!SaveDone, W!Decided, W!CallFails, W!Complete, WriterRow
  <2> QED
    BY <1>2, <2>1, <2>2
<1>5. CASE W!RerunWriter
  <2>1. /\ writer'.kind = writer.kind /\ UNCHANGED generated
        /\ produced' = [produced EXCEPT !.early = @ \/
              (writer.kind # "summary" /\ produced.times # 0 /\ ~generated.here)]
    BY <1>5 DEF W!RerunWriter, W!NoRun
  <2>2. /\ produced'.times = produced.times
        /\ produced'.early = (produced.early \/
              (writer.kind # "summary" /\ produced.times # 0 /\ ~generated.here))
    BY <1>1, <2>1 DEF SavedRow
  <2> QED
    BY <2>1, <2>2 DEF SavedOnce
<1>6. CASE W!WriterCut
  <2>1. UNCHANGED <<generated, produced>> /\ writer'.kind = writer.kind
        /\ writer'.at = CASE writer.at \in {"asked", "repair"} -> "draft"
                           [] writer.at = "saved" -> "save"
                           [] OTHER -> writer.at
    BY <1>1, <1>6 DEF W!WriterCut, WriterRow
  <2> QED
    BY <1>2, <2>1 DEF W!PastSave
<1>7. CASE W!SaveDocument
  <2>1. writer.at = "save" /\ writer.kind \in {"letter", "resume"}
        /\ writer'.at = "saved" /\ writer'.kind = writer.kind
    BY <1>7 DEF W!SaveDocument, W!NoRun
  <2>2. CASE generated.here
    BY <1>2, <1>7, <2>1, <2>2 DEF W!SaveDocument, W!AlreadyThere, W!PastSave
  <2>3. CASE ~generated.here
    <3>1. produced' = W!SavedAgain /\ generated' = [W!NoDocument EXCEPT !.here = TRUE, !.current = 1]
      BY <1>7, <2>1, <2>3 DEF W!SaveDocument, W!AlreadyThere
    <3>2. generated'.here
      BY <3>1 DEF W!NoDocument
    <3>3. produced.times = 0 \/ produced.early
      BY <2>1, <2>3 DEF SavedOnce, W!PastSave
    <3>4. produced'.early = produced.early /\ (produced.times = 0 => produced'.times = 1)
      BY <1>1, <3>1 DEF W!SavedAgain, SavedRow
    <3> QED
      BY <3>2, <3>3, <3>4 DEF SavedOnce
  <2> QED
    BY <2>2, <2>3
<1>8. CASE W!SaveSummary
  <2>1. writer.at = "save" /\ writer.kind = "summary" /\ writer'.kind = writer.kind
    BY <1>1, <1>8 DEF W!SaveSummary, WriterRow
  <2>2. CASE UNCHANGED produced
    BY <2>1, <2>2 DEF SavedOnce
  <2>3. CASE produced.times = 0 /\ produced' = W!SavedAgain
    <3>1. produced'.times = 1
      BY <1>1, <2>3 DEF W!SavedAgain, SavedRow
    <3> QED
      BY <2>1, <3>1 DEF SavedOnce
  <2> QED
    BY <1>8, <2>2, <2>3 DEF W!SaveSummary, W!AlreadyThere
<1>9. ASSUME NEW kind, W!StartDraft(kind) PROVE SavedOnce'
  <2>1. produced'.times = 0
    BY <1>9 DEF W!StartDraft, W!NothingYet
  <2> QED
    BY <2>1 DEF SavedOnce
<1>10. CASE W!DeleteDocument
  <2>1. UNCHANGED writer
    BY <1>10 DEF W!DeleteDocument
  <2>2. CASE generated' = [generated EXCEPT !.deleting = FALSE] /\ UNCHANGED produced
    BY <1>1, <2>1, <2>2 DEF SavedOnce, DocumentRow
  <2>3. CASE produced' = [produced EXCEPT !.early = @ \/ writer.at \notin W!PastSave]
    <3>1. /\ produced'.times = produced.times
          /\ produced.early => produced'.early
          /\ writer.at \notin W!PastSave => produced'.early
      BY <1>1, <2>3 DEF SavedRow
    <3> QED
      BY <2>1, <3>1 DEF SavedOnce
  <2> QED
    BY <1>10, <2>2, <2>3 DEF W!DeleteDocument
<1>11. ASSUME UNCHANGED <<writer, produced>>, generated'.here = generated.here PROVE SavedOnce'
  BY <1>11 DEF SavedOnce
<1>12. CASE W!SaveEdit \/ W!UnlinkFiles
  BY <1>1, <1>11, <1>12 DEF W!SaveEdit, W!UnlinkFiles, DocumentRow
<1>13. CASE W!AddSkills \/ (\E m : W!SetStandard(m)) \/ (\E n : W!StartRender(n))
            \/ (\E e, state : W!ReviewEntry(e, state))
  BY <1>11, <1>13 DEF W!AddSkills, W!SetStandard, W!StartRender, W!ReviewEntry
<1>14. ASSUME NEW p \in {"run", "user"}, W!RenderRead(p) \/ W!RenderRecord(p) PROVE SavedOnce'
  <2>1. UNCHANGED produced /\ generated'.here = generated.here
    BY <1>1, <1>14 DEF W!RenderRead, W!RenderRecord, DocumentRow
  <2>2. CASE UNCHANGED writer
    BY <1>11, <2>1, <2>2
  <2>3. CASE writer'.at = "ended"
    BY <2>1, <2>3 DEF SavedOnce, W!PastSave
  <2> QED
    BY <1>1, <1>14, <2>2, <2>3 DEF W!RenderRead, W!RenderRecord, W!Rendered, WriterRow
<1> QED
  BY <1>3, <1>4, <1>5, <1>6, <1>7, <1>8, <1>9, <1>10, <1>12, <1>13, <1>14
     DEF W!DraftsNext, W!WriterStep, W!LetterStep, W!ResumeStep, W!SummaryStep, W!SkillsStep,
         W!NodeStep, W!RenderStep, W!UserOnDrafts

LEMMA SavedOnceInitially == W!DraftsInit => SavedOnce
BY DEF W!DraftsInit, W!NothingYet, SavedOnce

-----------------------------------------------------------------------------
(* Types: channels *)

ChannelRow == [kind : {"chat", "hook"}, status : C!ChannelStatus, failures : 0..BreakerFailures]
DeliveryRow == [status : {"none", "pending", "sending", "sent", "dead", "skipped"},
                attempts : 0..MaxAttempts, locked : BOOLEAN]
Message == [note : Notes, attempts : 0..MaxAttempts, arrived : BOOLEAN]
PressRow == [at : {"none", "sent", "given", "seen", "taken"}, note : Notes, chan : Chans,
             who : {"owner", "stranger"}, seen : BOOLEAN,
             via : {"telegram", "discord", "whatsapp"}]

\* Rows stay rows when a column gets a value of its kind.
LEMMA RowsStay ==
  ASSUME NEW K, NEW N, NEW F
  PROVE  /\ \A row \in [kind : K, status : N, failures : F] : \A s \in N, f \in F :
              [row EXCEPT !.failures = f, !.status = s] \in [kind : K, status : N, failures : F]
         /\ \A row \in [status : K, attempts : N, locked : F] : \A s \in K, l \in F :
              /\ [row EXCEPT !.status = s, !.locked = l] \in [status : K, attempts : N, locked : F]
              /\ [row EXCEPT !.status = s] \in [status : K, attempts : N, locked : F]
              /\ [row EXCEPT !.locked = l] \in [status : K, attempts : N, locked : F]
         /\ \A row \in [note : K, attempts : N, arrived : F] : \A a \in F :
              [row EXCEPT !.arrived = a] \in [note : K, attempts : N, arrived : F]
<1>1. ASSUME NEW row \in [kind : K, status : N, failures : F], NEW s \in N, NEW f \in F
      PROVE  [row EXCEPT !.failures = f, !.status = s] \in [kind : K, status : N, failures : F]
  OBVIOUS
<1>2. ASSUME NEW row \in [status : K, attempts : N, locked : F], NEW s \in K, NEW l \in F
      PROVE  /\ [row EXCEPT !.status = s, !.locked = l] \in [status : K, attempts : N, locked : F]
             /\ [row EXCEPT !.status = s] \in [status : K, attempts : N, locked : F]
             /\ [row EXCEPT !.locked = l] \in [status : K, attempts : N, locked : F]
  OBVIOUS
<1>3. ASSUME NEW row \in [note : K, attempts : N, arrived : F], NEW a \in F
      PROVE  [row EXCEPT !.arrived = a] \in [note : K, attempts : N, arrived : F]
  OBVIOUS
<1> QED
  BY <1>1, <1>2, <1>3

LEMMA ChannelsTypesStep ==
  ASSUME ServicesAssumption, C!ChannelsTypeOK, OutboxFits, [C!ChannelsNext]_channelsVars
  PROVE  C!ChannelsTypeOK'
<1> DEFINE Subjects == subject' \in [Notes -> C!Subjects]
           Noted == note' \in [Notes -> {"none", "unread", "read"}]
           Rowed == channel' \in [Chans -> ChannelRow]
           Rows == outbox' \in [C!Deliveries -> DeliveryRow]
           Tokens == token' \in [C!Deliveries -> {"none", "live", "used"}]
           Claims == claimed' \in [Workers -> SUBSET C!Deliveries]
           Wires == wire' \in [Workers -> [Chans -> {Nowhere} \cup Message]]
           Pressed == press' \in [Presses -> PressRow]
           Counts == copies' \in [C!Deliveries -> 0..2]
           Told == cause' \in [C!Deliveries -> SUBSET C!Causes]
           Goal == Subjects /\ Noted /\ Rowed /\ Rows /\ Tokens /\ Claims /\ Wires /\ Pressed
                     /\ Counts /\ Told
<1>1. /\ subject \in [Notes -> C!Subjects]
      /\ note \in [Notes -> {"none", "unread", "read"}]
      /\ channel \in [Chans -> ChannelRow]
      /\ outbox \in [C!Deliveries -> DeliveryRow]
      /\ token \in [C!Deliveries -> {"none", "live", "used"}]
      /\ claimed \in [Workers -> SUBSET C!Deliveries]
      /\ wire \in [Workers -> [Chans -> {Nowhere} \cup Message]]
      /\ press \in [Presses -> PressRow]
      /\ copies \in [C!Deliveries -> 0..2]
      /\ cause \in [C!Deliveries -> SUBSET C!Causes]
  BY DEF C!ChannelsTypeOK, ChannelRow, DeliveryRow, Message, PressRow
<1>2. BreakerFailures \in Nat /\ MaxAttempts \in Nat /\ Notes # {} /\ Chans # {}
  BY DEF ServicesAssumption, OutboxAssumption, ChannelsAssumption
<1>3. \A d \in C!Deliveries : outbox[d].status = "sending" => outbox[d].attempts > 0
  BY DEF OutboxFits, OutboxShapes, RowFits
<1>4. C!NoPress \in PressRow
  BY <1>2 DEF C!NoPress, PressRow
<1>5. C!NoRow \in DeliveryRow
  <2>1. 0 \in 0..MaxAttempts
    BY <1>2
  <2> QED
    BY <2>1 DEF C!NoRow, DeliveryRow
<1>6. \A d \in C!Deliveries : d[1] \in Notes /\ d[2] \in Chans
  BY DEF C!Deliveries
<1>7. \A n \in Notes, c \in Chans : <<n, c>> \in C!Deliveries
  BY DEF C!Deliveries
<1>8. Goal => C!ChannelsTypeOK'
  BY DEF C!ChannelsTypeOK, ChannelRow, DeliveryRow, Message, PressRow
<1> SUFFICES Goal
  BY <1>8
<1>9. /\ UNCHANGED subject => Subjects
      /\ UNCHANGED note => Noted
      /\ UNCHANGED channel => Rowed
      /\ UNCHANGED outbox => Rows
      /\ UNCHANGED token => Tokens
      /\ UNCHANGED claimed => Claims
      /\ UNCHANGED wire => Wires
      /\ UNCHANGED press => Pressed
      /\ UNCHANGED copies => Counts
      /\ UNCHANGED cause => Told
  BY <1>1
<1>10. ASSUME NEW ds, NEW why \in C!Causes, C!Tell(ds, why)
       PROVE  Told
  BY <1>1, <1>10 DEF C!Tell
<1>11. "again" \in C!Causes /\ "renewed" \in C!Causes /\ "cut" \in C!Causes
  BY DEF C!Causes
<1>12. ASSUME NEW ds, C!Cascade(ds)
       PROVE  Rows /\ Tokens
  BY <1>1, <1>5, <1>12 DEF C!Cascade
<1>13. ASSUME NEW c \in Chans, NEW row \in ChannelRow, channel' = [channel EXCEPT ![c] = row]
       PROVE  Rowed
  BY <1>1, <1>13
<1>14. ASSUME NEW p \in Presses, NEW to \in PressRow, press' = [press EXCEPT ![p] = to]
       PROVE  Pressed
  BY <1>1, <1>14
<1>15. ASSUME NEW d \in C!Deliveries, NEW row \in DeliveryRow, outbox' = [outbox EXCEPT ![d] = row]
       PROVE  Rows
  BY <1>1, <1>15
<1>16. ASSUME NEW w \in Workers, NEW c \in Chans, NEW m \in {Nowhere} \cup Message,
              wire' = [wire EXCEPT ![w][c] = m]
       PROVE  Wires
  BY <1>1, <1>16
<1>17. ASSUME NEW w \in Workers, NEW d, C!Done(w, d)
       PROVE  Claims
  BY <1>1, <1>17 DEF C!Done
<1> HIDE DEF Subjects, Noted, Rowed, Rows, Tokens, Claims, Wires, Pressed, Counts, Told
<1>18. CASE UNCHANGED channelsVars
  BY <1>9, <1>18 DEF channelsVars
<1>19. ASSUME NEW c \in Chans, C!UserOnChannel(c)
       PROVE  Goal
  <2>1. \A row \in ChannelRow, status \in C!ChannelStatus :
          [row EXCEPT !.status = status] \in ChannelRow
          /\ [row EXCEPT !.status = status, !.failures = 0] \in ChannelRow
    <3>1. 0 \in 0..BreakerFailures
      BY <1>2
    <3> QED
      BY <3>1 DEF ChannelRow
  <2>2. {"pending_pairing", "active", "paused", "deleted"} \subseteq C!ChannelStatus
    BY DEF C!ChannelStatus
  <2>3. channel[c] \in ChannelRow
    BY <1>1
  <2>4. ASSUME NEW kind \in {"chat", "hook"}, C!CreateChannel(c, kind)
        PROVE  Goal
    <3> DEFINE row == [kind |-> kind, failures |-> 0,
                       status |-> IF kind = "chat" THEN "pending_pairing" ELSE "active"]
    <3>1. row \in ChannelRow
      <4>1. 0 \in 0..BreakerFailures
        BY <1>2
      <4>2. (IF kind = "chat" THEN "pending_pairing" ELSE "active") \in C!ChannelStatus
        BY <2>2
      <4> QED
        BY <4>1, <4>2 DEF ChannelRow
    <3>2. channel' = [channel EXCEPT ![c] = row]
      BY <2>4 DEF C!CreateChannel
    <3> HIDE DEF row
    <3> QED
      BY <1>9, <1>13, <2>4, <3>1, <3>2 DEF C!CreateChannel
  <2>5. CASE C!PairChannel(c)
    <3>1. channel' = [channel EXCEPT ![c] = [channel[c] EXCEPT !.status = "active", !.failures = 0]]
      BY <1>1, <2>5 DEF C!PairChannel, ChannelRow
    <3>2. Rowed
      BY <1>13, <2>1, <2>2, <2>3, <3>1
    <3> QED
      BY <1>9, <2>5, <3>2 DEF C!PairChannel
  <2>6. ASSUME NEW on \in BOOLEAN, C!PauseChannel(c, on)
        PROVE  Goal
    <3>1. CASE on
      <4>1. channel' = [channel EXCEPT ![c].status = "paused", ![c].failures = @]
        BY <2>6, <3>1 DEF C!PauseChannel
      <4>2. channel' = [channel EXCEPT ![c] = [channel[c] EXCEPT !.status = "paused"]]
        BY <1>1, <4>1 DEF ChannelRow
      <4>3. Rowed
        BY <1>13, <2>1, <2>2, <2>3, <4>2
      <4> QED
        BY <1>9, <2>6, <4>3 DEF C!PauseChannel
    <3>2. CASE ~on
      <4>1. channel' = [channel EXCEPT ![c].status = "active", ![c].failures = 0]
        BY <2>6, <3>2 DEF C!PauseChannel
      <4>2. channel' = [channel EXCEPT ![c] = [channel[c] EXCEPT !.status = "active", !.failures = 0]]
        BY <1>1, <4>1 DEF ChannelRow
      <4>3. Rowed
        BY <1>13, <2>1, <2>2, <2>3, <4>2
      <4> QED
        BY <1>9, <2>6, <4>3 DEF C!PauseChannel
    <3> QED
      BY <3>1, <3>2
  <2>7. CASE C!DeleteChannel(c)
    <3>1. channel' = [channel EXCEPT ![c] = [channel[c] EXCEPT !.status = "deleted", !.failures = 0]]
      BY <1>1, <2>7 DEF C!DeleteChannel, ChannelRow
    <3>2. Rowed
      BY <1>13, <2>1, <2>2, <2>3, <3>1
    <3> QED
      BY <1>9, <1>12, <2>7, <3>2 DEF C!DeleteChannel
  <2> QED
    BY <1>19, <2>4, <2>5, <2>6, <2>7 DEF C!UserOnChannel
<1>20. ASSUME NEW n \in Notes, C!Settle(n) \/ C!Arises(n, "asked") \/ C!Arises(n, "due")
       PROVE  Goal
  <2>1. PICK what \in {"closed", "done", "asked", "due"} : subject' = [subject EXCEPT ![n] = what]
    BY <1>20 DEF C!Settle, C!Arises
  <2>2. Subjects
    BY <1>1, <2>1 DEF Subjects, C!Subjects, C!Approval
  <2> QED
    BY <1>9, <1>20, <2>2 DEF C!Settle, C!Arises
<1>21. ASSUME NEW n \in Notes, C!MarkRead(n)
       PROVE  Goal
  <2>1. Noted
    BY <1>1, <1>21 DEF C!MarkRead, Noted
  <2> QED
    BY <1>9, <1>21, <2>1 DEF C!MarkRead
<1>22. ASSUME NEW n \in Notes, C!Purge(n)
       PROVE  Goal
  <2>1. Noted
    BY <1>1, <1>22 DEF C!Purge, Noted
  <2>2. Rows /\ Tokens /\ Told
    BY <1>10, <1>11, <1>12, <1>22 DEF C!Purge
  <2> QED
    BY <1>9, <1>22, <2>1, <2>2 DEF C!Purge
<1>23. ASSUME NEW n \in Notes, C!Notify(n)
       PROVE  Goal
  <2>1. Noted
    BY <1>1, <1>23 DEF C!Notify, Noted
  <2>2. subject[n] \in C!Subjects /\ "reminded" \in C!Subjects
    BY <1>1 DEF C!Subjects
  <2>3. Subjects
    BY <1>1, <1>23, <2>2 DEF C!Notify, Subjects
  <2>4. [C!NoRow EXCEPT !.status = "pending"] \in DeliveryRow
    BY <1>5 DEF DeliveryRow
  <2>5. Rows
    BY <1>1, <1>23, <2>4 DEF C!Notify, C!Enqueued, Rows
  <2> QED
    BY <1>9, <1>23, <2>1, <2>3, <2>5 DEF C!Notify
<1>24. ASSUME NEW w \in Workers, C!ClaimDue(w)
       PROVE  Goal
  <2>1. PICK ds \in SUBSET C!Due \ {{}} :
          /\ claimed' = [claimed EXCEPT ![w] = ds]
          /\ outbox' = [d \in C!Deliveries |->
               IF d \in ds THEN [status |-> "sending", locked |-> TRUE,
                                 attempts |-> outbox[d].attempts + 1]
               ELSE outbox[d]]
    BY <1>24 DEF C!ClaimDue
  <2>2. \A d \in ds : d \in C!Deliveries /\ outbox[d].attempts < MaxAttempts
    BY DEF C!Due
  <2>3. ASSUME NEW d \in ds
        PROVE  [status |-> "sending", locked |-> TRUE, attempts |-> outbox[d].attempts + 1]
                 \in DeliveryRow
    <3>1. outbox[d].attempts \in 0..MaxAttempts
      BY <1>1, <2>2 DEF DeliveryRow
    <3>2. outbox[d].attempts + 1 \in 0..MaxAttempts
      BY <1>2, <2>2, <3>1
    <3> QED
      BY <3>2 DEF DeliveryRow
  <2>4. Rows
    BY <1>1, <2>1, <2>3 DEF Rows
  <2>5. Claims
    BY <1>1, <2>1, <2>2 DEF Claims
  <2> QED
    BY <1>9, <1>24, <2>4, <2>5 DEF C!ClaimDue
<1>25. ASSUME NEW w \in Workers, C!WorkerDies(w)
       PROVE  Goal
  <2>1. Claims
    BY <1>1, <1>25 DEF C!WorkerDies, Claims
  <2>2. Wires
    BY <1>1, <1>25 DEF C!WorkerDies, Wires
  <2> QED
    BY <1>9, <1>25, <2>1, <2>2 DEF C!WorkerDies
<1>26. ASSUME NEW d \in C!Deliveries
       PROVE  /\ outbox[d] \in DeliveryRow /\ outbox[d].attempts \in 0..MaxAttempts
              /\ \A locked \in BOOLEAN :
                   \A status \in {"none", "pending", "sending", "sent", "dead", "skipped"} :
                     [outbox[d] EXCEPT !.status = status, !.locked = locked] \in DeliveryRow
              /\ [outbox[d] EXCEPT !.status = "skipped"] \in DeliveryRow
              /\ [outbox[d] EXCEPT !.locked = FALSE] \in DeliveryRow
  <2>1. outbox[d] \in DeliveryRow
    BY <1>1
  <2>2. outbox[d].attempts \in 0..MaxAttempts
    BY <2>1 DEF DeliveryRow
  <2> QED
    BY <2>1, <2>2, RowsStay DEF DeliveryRow
<1>27. ASSUME NEW w \in Workers, NEW d \in C!Deliveries, C!NotSent(w, d)
       PROVE  Goal
  <2>1. CASE outbox' = [outbox EXCEPT ![d].status = "skipped"]
    <3>1. outbox' = [outbox EXCEPT ![d] = [outbox[d] EXCEPT !.status = "skipped"]]
      BY <2>1
    <3>2. Rows
      BY <1>15, <1>26, <3>1
    <3> QED
      BY <1>9, <1>17, <1>27, <3>2 DEF C!NotSent
  <2> DEFINE row == [status |-> "pending", locked |-> FALSE, attempts |-> outbox[d].attempts - 1]
  <2>2. CASE outbox[d].status = "sending" /\ outbox' = [outbox EXCEPT ![d] = row]
    <3>1. outbox[d].attempts - 1 \in 0..MaxAttempts
      <4>1. outbox[d].attempts > 0 /\ outbox[d].attempts \in 0..MaxAttempts
        BY <1>3, <1>26, <2>2
      <4> DEFINE n == outbox[d].attempts
      <4>2. n > 0 /\ n \in 0..MaxAttempts
        BY <4>1
      <4> HIDE DEF n
      <4>3. n - 1 \in 0..MaxAttempts
        BY <1>2, <4>2
      <4> QED
        BY <4>3 DEF n
    <3>2. row \in DeliveryRow
      BY <3>1 DEF DeliveryRow
    <3> HIDE DEF row
    <3>3. Rows
      BY <1>15, <2>2, <3>2
    <3> QED
      BY <1>9, <1>17, <1>27, <3>3 DEF C!NotSent
  <2>3. CASE UNCHANGED outbox
    BY <1>9, <1>17, <1>27, <2>3 DEF C!NotSent
  <2> QED
    BY <1>27, <2>1, <2>2, <2>3 DEF C!NotSent
<1>28. ASSUME NEW w \in Workers, NEW d \in C!Deliveries, C!BeginSend(w, d)
       PROVE  Goal
  <2> DEFINE m == [note |-> d[1], attempts |-> outbox[d].attempts, arrived |-> FALSE]
  <2>1. m \in Message
    BY <1>6, <1>26 DEF Message
  <2>2. wire' = [wire EXCEPT ![w][d[2]] = m]
    BY <1>28 DEF C!BeginSend
  <2> HIDE DEF m
  <2>3. Wires
    BY <1>6, <1>16, <2>1, <2>2
  <2>4. Tokens
    BY <1>1, <1>28 DEF C!BeginSend, Tokens
  <2> QED
    BY <1>9, <1>28, <2>3, <2>4 DEF C!BeginSend
<1>29. ASSUME NEW w \in Workers, NEW c \in Chans, wire[w][c] # Nowhere
       PROVE  /\ wire[w][c] \in Message /\ wire[w][c].attempts \in 0..MaxAttempts
              /\ <<wire[w][c].note, c>> \in C!Deliveries
              /\ [wire[w][c] EXCEPT !.arrived = TRUE] \in Message
  <2>1. wire[w][c] \in Message
    BY <1>1, <1>29
  <2>2. wire[w][c].attempts \in 0..MaxAttempts /\ wire[w][c].note \in Notes
    BY <2>1 DEF Message
  <2> QED
    BY <1>7, <2>1, <2>2, RowsStay DEF Message
<1>30. ASSUME NEW w \in Workers, NEW c \in Chans, C!Arrive(w, c)
       PROVE  Goal
  <2>1. wire[w][c] # Nowhere /\ wire' = [wire EXCEPT ![w][c].arrived = TRUE]
    BY <1>30 DEF C!Arrive
  <2>2. wire' = [wire EXCEPT ![w][c] = [wire[w][c] EXCEPT !.arrived = TRUE]]
    BY <2>1
  <2>3. Wires
    BY <1>16, <1>29, <2>1, <2>2
  <2>4. Counts
    <3> DEFINE d == <<wire[w][c].note, c>>
    <3>1. d \in C!Deliveries
      BY <1>29, <2>1
    <3>2. copies' = [copies EXCEPT ![d] = IF @ = 2 THEN 2 ELSE @ + 1]
      BY <1>30 DEF C!Arrive
    <3> HIDE DEF d
    <3>3. (IF copies[d] = 2 THEN 2 ELSE copies[d] + 1) \in 0..2
      BY <1>1, <3>1
    <3> QED
      BY <1>1, <3>1, <3>2, <3>3 DEF Counts
  <2> QED
    BY <1>9, <1>30, <2>3, <2>4 DEF C!Arrive
<1>31. ASSUME NEW w \in Workers, NEW c \in Chans, NEW result \in {"ok", "transient", "permanent"},
              C!EndSend(w, c, result)
       PROVE  Goal
  <2> DEFINE d == <<wire[w][c].note, c>>
             status == C!Recorded(result, wire[w][c].attempts)
             failures == CASE status = "sent" -> 0
                           [] status = "dead" -> channel[c].failures + 1
                           [] OTHER -> channel[c].failures
  <2>1. d \in C!Deliveries /\ wire[w][c] # Nowhere
    BY <1>29, <1>31 DEF C!EndSend
  <2>2. status \in {"sent", "pending", "dead"}
    BY DEF C!Recorded
  <2>3. \/ UNCHANGED <<outbox, channel>>
        \/ /\ outbox' = [outbox EXCEPT ![d].status = status, ![d].locked = FALSE]
           /\ channel' = [channel EXCEPT
                ![c].failures = IF failures > BreakerFailures THEN @ ELSE failures,
                ![c].status = IF status = "dead" /\ failures >= BreakerFailures
                              THEN "error" ELSE @]
    BY <1>31 DEF C!EndSend
  <2>4. channel[c].failures \in 0..BreakerFailures /\ channel[c].status \in C!ChannelStatus
    BY <1>1 DEF ChannelRow
  <2>5. failures \in Nat
    <3> HIDE DEF status
    <3> QED
      BY <1>2, <2>2, <2>4
  <2> DEFINE to == IF failures > BreakerFailures THEN channel[c].failures ELSE failures
             at == IF status = "dead" /\ failures >= BreakerFailures THEN "error"
                   ELSE channel[c].status
  <2> HIDE DEF failures, status
  <2>6. to \in 0..BreakerFailures /\ at \in C!ChannelStatus
    <3>1. "error" \in C!ChannelStatus
      BY DEF C!ChannelStatus
    <3> QED
      BY <1>2, <2>4, <2>5, <3>1
  <2>7. ASSUME /\ outbox' = [outbox EXCEPT ![d].status = status, ![d].locked = FALSE]
               /\ channel' = [channel EXCEPT
                    ![c].failures = IF failures > BreakerFailures THEN @ ELSE failures,
                    ![c].status = IF status = "dead" /\ failures >= BreakerFailures
                                  THEN "error" ELSE @]
        PROVE  Rows /\ Rowed
    <3> HIDE DEF d
    <3>1. outbox' = [outbox EXCEPT ![d] = [outbox[d] EXCEPT !.status = status, !.locked = FALSE]]
      BY <1>1, <2>1, <2>7 DEF DeliveryRow
    <3>2. Rows
      BY <1>15, <1>26, <2>1, <2>2, <3>1
    <3>3. channel' = [channel EXCEPT ![c] = [channel[c] EXCEPT !.failures = to, !.status = at]]
      BY <1>1, <2>7 DEF ChannelRow
    <3>4. [channel[c] EXCEPT !.failures = to, !.status = at] \in ChannelRow
      <4> HIDE DEF to, at
      <4> QED
        <5>1. channel[c] \in ChannelRow
          BY <1>1
        <5> QED
          BY <2>6, <5>1, RowsStay DEF ChannelRow
    <3> QED
      BY <1>13, <3>2, <3>3, <3>4
  <2>8. Rows /\ Rowed
    BY <1>9, <2>3, <2>7
  <2>9. Told
    BY <1>9, <1>10, <1>11, <1>31 DEF C!EndSend
  <2>10. Wires
    BY <1>16, <1>31 DEF C!EndSend
  <2>11. Claims
    BY <1>17, <1>31 DEF C!EndSend
  <2> QED
    BY <1>9, <1>31, <2>8, <2>9, <2>10, <2>11 DEF C!EndSend
<1>32. ASSUME NEW d \in C!Deliveries, C!LockLapses(d)
       PROVE  Goal
  <2>1. outbox' = [outbox EXCEPT ![d] = [outbox[d] EXCEPT !.locked = FALSE]]
    BY <1>32 DEF C!LockLapses
  <2>2. Rows /\ Told
    BY <1>10, <1>11, <1>15, <1>26, <1>32, <2>1 DEF C!LockLapses
  <2> QED
    BY <1>9, <1>32, <2>2 DEF C!LockLapses
<1>33. ASSUME NEW p \in Presses
       PROVE  /\ press[p] \in PressRow /\ press[p].note \in Notes /\ press[p].chan \in Chans
              /\ \A at \in {"sent", "given", "seen", "taken"} : [press[p] EXCEPT !.at = at] \in PressRow
              /\ [press[p] EXCEPT !.at = "seen", !.seen = TRUE] \in PressRow
  BY ZenonT(40), <1>1 DEF PressRow
<1>34. ASSUME NEW p \in Presses, NEW c \in Chans, NEW n \in Notes, NEW who \in {"owner", "stranger"},
              NEW via \in {"telegram", "discord", "whatsapp"}, C!Press(p, n, c, who, via)
       PROVE  Goal
  <2>1. [at |-> "sent", note |-> n, chan |-> c, who |-> who, via |-> via, seen |-> FALSE] \in PressRow
    BY DEF PressRow
  <2>2. Pressed
    BY <1>14, <1>34, <2>1 DEF C!Press
  <2> QED
    BY <1>9, <1>34, <2>2 DEF C!Press
<1>35. ASSUME NEW p \in Presses, NEW to \in PressRow, C!Handed(p, to)
       PROVE  Goal
  BY <1>9, <1>14, <1>35 DEF C!Handed
<1>36. ASSUME NEW p \in Presses, C!Dispatched(p) \/ C!Missed(p) \/ C!Inboxed(p) \/ C!RecordInbound(p)
       PROVE  Goal
  <2>1. PICK to \in PressRow : C!Handed(p, to)
    <3>1. CASE C!Dispatched(p)
      BY <1>33, <3>1 DEF C!Dispatched
    <3>2. CASE C!Missed(p)
      BY <1>4, <3>2 DEF C!Missed
    <3>3. CASE C!Inboxed(p)
      BY <1>4, <1>33, <3>3 DEF C!Inboxed
    <3>4. CASE C!RecordInbound(p)
      BY <1>4, <1>33, <3>4 DEF C!RecordInbound
    <3> QED
      BY <1>36, <3>1, <3>2, <3>3, <3>4
  <2> QED
    BY <1>35, <2>1
<1>37. ASSUME NEW p \in Presses, C!TakeToken(p)
       PROVE  Goal
  <2>1. C!Button(p) \in C!Deliveries
    BY <1>7, <1>33 DEF C!Button
  <2>2. Tokens
    BY <1>1, <1>37 DEF C!TakeToken, Tokens
  <2>3. press' = [press EXCEPT ![p] = [press[p] EXCEPT !.at = "taken"]]
        \/ press' = [press EXCEPT ![p] = C!NoPress]
    BY <1>37 DEF C!TakeToken
  <2>4. Pressed
    BY <1>4, <1>14, <1>33, <2>3
  <2> QED
    BY <1>9, <1>37, <2>2, <2>4 DEF C!TakeToken
<1>38. ASSUME NEW p \in Presses, C!DecideByButton(p)
       PROVE  Goal
  <2>1. Pressed
    BY <1>4, <1>14, <1>38 DEF C!DecideByButton
  <2>2. "closed" \in C!Subjects
    BY DEF C!Subjects, C!Approval
  <2>3. Subjects
    BY <1>1, <1>38, <2>2 DEF C!DecideByButton, Subjects
  <2> QED
    BY <1>9, <1>38, <2>1, <2>3 DEF C!DecideByButton
<1>39. ASSUME NEW p \in Presses, C!LoopCut(p)
       PROVE  Goal
  <2>1. PICK to \in {C!NoPress, [press[p] EXCEPT !.at = "sent"]} : press' = [press EXCEPT ![p] = to]
    BY <1>39 DEF C!LoopCut
  <2>2. Pressed
    BY <1>4, <1>14, <1>33, <2>1
  <2>3. Told
    BY <1>9, <1>10, <1>11, <1>39 DEF C!LoopCut
  <2> QED
    BY <1>9, <1>39, <2>2, <2>3 DEF C!LoopCut
<1> QED
  BY <1>18, <1>19, <1>20, <1>21, <1>22, <1>23, <1>24, <1>25, <1>27, <1>28, <1>30, <1>31, <1>32,
     <1>34, <1>36, <1>37, <1>38, <1>39
     DEF C!ChannelsNext, C!DeliveryLoop, C!ChatLoop, C!UserOnNote, C!Maintenance, C!DeleteNote,
         C!Retention

LEMMA ChannelsTypesInitially == ServicesAssumption /\ C!ChannelsInit => C!ChannelsTypeOK
<1> SUFFICES ASSUME ServicesAssumption, C!ChannelsInit PROVE C!ChannelsTypeOK
  OBVIOUS
<1>1. 0 \in 0..BreakerFailures /\ 0 \in 0..MaxAttempts /\ 0 \in 0..2 /\ Notes # {} /\ Chans # {}
  BY DEF ServicesAssumption, OutboxAssumption, ChannelsAssumption
<1>2. C!NoPress.note \in Notes /\ C!NoPress.chan \in Chans
  BY <1>1 DEF C!NoPress
<1>3. C!NoRow \in [status : {"none", "pending", "sending", "sent", "dead", "skipped"},
                   attempts : 0..MaxAttempts, locked : BOOLEAN]
  BY <1>1 DEF C!NoRow
<1>4. C!NoPress \in [at : {"none", "sent", "given", "seen", "taken"}, note : Notes,
                     chan : Chans, who : {"owner", "stranger"}, seen : BOOLEAN,
                     via : {"telegram", "discord", "whatsapp"}]
  BY <1>2 DEF C!NoPress
<1>5. [kind |-> "hook", status |-> "none", failures |-> 0]
        \in [kind : {"chat", "hook"}, status : C!ChannelStatus, failures : 0..BreakerFailures]
  BY <1>1 DEF C!ChannelStatus
<1>6. /\ subject \in [Notes -> C!Subjects]
      /\ note \in [Notes -> {"none", "unread", "read"}]
      /\ token \in [C!Deliveries -> {"none", "live", "used"}]
      /\ claimed \in [Workers -> SUBSET C!Deliveries]
      /\ cause \in [C!Deliveries -> SUBSET C!Causes]
  BY DEF C!ChannelsInit, C!Subjects
<1>7. copies \in [C!Deliveries -> 0..2]
  BY <1>1 DEF C!ChannelsInit
<1>8. wire \in [Workers -> [Chans -> {Nowhere} \cup
       [note : Notes, attempts : 0..MaxAttempts, arrived : BOOLEAN]]]
  BY DEF C!ChannelsInit
<1> QED
  BY <1>3, <1>4, <1>5, <1>6, <1>7, <1>8 DEF C!ChannelsInit, C!ChannelsTypeOK

-----------------------------------------------------------------------------
(* Types: discovery *)

LEMMA DiscoveryTypesStep ==
  ASSUME DiscoveryAssumption, CatalogueFits, CatalogueFits', D!DiscoveryTypeOK,
         [D!DiscoveryNext]_discoveryVars
  PROVE  D!DiscoveryTypeOK'
<1> DEFINE Status == D!MatchStatus \cup {"none"}
           Matches == match' \in [Cases -> [Listings -> Status]]
           SyncOK(s) == /\ s.at \in {"idle", "choose", "page", "locked", "done"}
                        /\ s.todo \subseteq D!Sources /\ s.read \subseteq D!Sources
                        /\ s.left \subseteq Listings
           Syncs == \A c \in Cases : SyncOK(sync'[c])
           Locked == held' \in [D!LockKeys -> Cases \cup {NoListing}]
           Catalogue == listed' \in [Listings -> Listings \cup {NoListing}]
           Goal == Catalogue /\ Matches /\ Syncs /\ Locked
<1>1. /\ listed \in [Listings -> Listings \cup {NoListing}]
      /\ match \in [Cases -> [Listings -> Status]]
      /\ \A c \in Cases : SyncOK(sync[c])
      /\ held \in [D!LockKeys -> Cases \cup {NoListing}]
  BY DEF D!DiscoveryTypeOK
<1>2. /\ DOMAIN sync = Cases
      /\ \A c \in Cases :
           /\ DOMAIN sync[c] = {"at", "todo", "source", "page", "left", "one", "into", "read"}
           /\ sync[c].at \in {"page", "locked"} =>
                sync[c].source \in D!Sources /\ sync[c].page \in 1..Len(Pages[sync[c].source])
           /\ \A s \in D!Sources : checkpoint[c][s] \in 1..Len(Pages[s])
  BY DEF CatalogueFits, CatalogueShape, SyncShape
<1>3. Goal => D!DiscoveryTypeOK'
  <2> SUFFICES ASSUME Goal PROVE D!DiscoveryTypeOK'
    OBVIOUS
  <2>1. /\ posting' \subseteq Listings
        /\ \A c \in Cases : \A s \in D!Sources : checkpoint'[c][s] \in 1..Len(Pages[s])
    BY DEF CatalogueFits, CatalogueShape
  <2> QED
    BY <2>1 DEF D!DiscoveryTypeOK
<1> SUFFICES Goal
  BY <1>3
<1>4. /\ UNCHANGED listed => Catalogue
      /\ UNCHANGED match => Matches
      /\ UNCHANGED sync => Syncs
      /\ UNCHANGED held => Locked
  BY <1>1
<1>5. \A s \in D!Sources : \A i \in 1..Len(Pages[s]) : Pages[s][i] \subseteq Listings
  BY PagesAre
<1>6. SyncOK(D!Idle)
  BY DEF D!Idle
<1>7. ASSUME NEW c \in Cases, NEW row, SyncOK(row), sync' = [sync EXCEPT ![c] = row]
      PROVE  Syncs
  BY <1>1, <1>2, <1>7
<1> HIDE DEF Catalogue, Matches, Syncs, Locked
<1>8. CASE UNCHANGED discoveryVars
  BY <1>4, <1>8 DEF discoveryVars
<1>9. ASSUME NEW c \in Cases, NEW todo \in SUBSET D!Sources \ {{}}, D!StartSync(c, todo)
      PROVE  Goal
  <2> DEFINE row == [D!Idle EXCEPT !.at = "choose", !.todo = todo]
  <2>1. SyncOK(row)
    BY DEF D!Idle
  <2>2. sync' = [sync EXCEPT ![c] = row]
    BY <1>9 DEF D!StartSync
  <2> HIDE DEF row, SyncOK
  <2> QED
    BY <1>4, <1>7, <1>9, <2>1, <2>2 DEF D!StartSync
<1>10. ASSUME NEW c \in Cases, NEW s \in D!Sources, D!SourceFails(c, s)
       PROVE  Goal
  <2> DEFINE row == [sync[c] EXCEPT !.todo = @ \ {s}]
  <2>1. SyncOK(row)
    BY <1>1, <1>2
  <2>2. sync' = [sync EXCEPT ![c] = row]
    BY <1>10 DEF D!SourceFails
  <2> HIDE DEF row, SyncOK
  <2> QED
    BY <1>4, <1>7, <1>10, <2>1, <2>2 DEF D!SourceFails
<1>11. ASSUME NEW c \in Cases, NEW s \in D!Sources, D!OpenSource(c, s)
       PROVE  Goal
  <2> DEFINE left == D!Taken(c, s, checkpoint[c][s])
             row == [sync[c] EXCEPT !.at = "page", !.source = s, !.page = checkpoint[c][s],
                       !.left = left, !.todo = sync[c].todo \ {s}]
  <2>1. left \subseteq Listings
    BY <1>2, <1>5 DEF D!Taken
  <2>2. sync' = [sync EXCEPT ![c] = row]
    BY <1>11 DEF D!OpenSource
  <2> HIDE DEF left
  <2>3. SyncOK(row)
    BY <1>1, <1>2, <2>1
  <2> HIDE DEF row, SyncOK
  <2> QED
    BY <1>4, <1>7, <1>11, <2>2, <2>3 DEF D!OpenSource
<1>12. ASSUME NEW c \in Cases, NEW l \in Listings, D!LockListing(c, l)
       PROVE  Goal
  <2>1. PICK o : sync' = [sync EXCEPT ![c].at = "locked", ![c].one = l, ![c].into = o]
    BY <1>12 DEF D!LockListing
  <2> DEFINE row == [sync[c] EXCEPT !.at = "locked", !.one = l, !.into = o]
  <2>2. SyncOK(row)
    BY <1>1, <1>2
  <2>3. sync' = [sync EXCEPT ![c] = row]
    BY <1>2, <2>1
  <2>4. Locked
    BY <1>1, <1>12 DEF D!LockListing, Locked
  <2> HIDE DEF row, SyncOK
  <2> QED
    BY <1>4, <1>7, <1>12, <2>2, <2>3, <2>4 DEF D!LockListing
<1>13. ASSUME NEW c \in Cases, D!UpsertListing(c)
       PROVE  Goal
  <2> DEFINE l == sync[c].one
             o == sync[c].into
             row == [sync[c] EXCEPT !.at = "page", !.left = @ \ {l}, !.one = NoListing,
                                    !.into = NoListing]
  <2>1. match' = [match EXCEPT ![c][o] = D!MatchOf(@)]
    BY <1>13 DEF D!UpsertListing
  <2>2. Matches
    BY <1>1, <2>1 DEF D!MatchOf, D!MatchStatus, Matches
  <2>3. SyncOK(row)
    BY <1>1, <1>2
  <2>4. sync' = [sync EXCEPT ![c].at = "page", ![c].left = @ \ {l},
                          ![c].one = NoListing, ![c].into = NoListing]
    BY <1>13 DEF D!UpsertListing
  <2>5. sync' = [sync EXCEPT ![c] = row]
    BY <1>2, <2>4
  <2>6. Locked
    BY <1>1, <1>13 DEF D!UpsertListing, Locked
  <2>7. Catalogue
    <3>1. l \in Listings /\ o \in Listings
      BY <1>13 DEF D!UpsertListing, CatalogueFits, LockFits
    <3>2. listed' = [listed EXCEPT ![l] = o]
      BY <1>13 DEF D!UpsertListing
    <3> HIDE DEF l, o
    <3> QED
      BY <1>1, <3>1, <3>2 DEF Catalogue
  <2> HIDE DEF row, SyncOK
  <2> QED
    BY <1>7, <2>2, <2>3, <2>5, <2>6, <2>7
<1>14. ASSUME NEW c \in Cases, D!PageDone(c)
       PROVE  Goal
  <2> DEFINE s == sync[c].source
             next == D!NextPage(s, sync[c].page)
             left(all) == [sync[c] EXCEPT !.at = "choose", !.page = 1, !.left = {}, !.read = all]
             more == [sync[c] EXCEPT !.page = next, !.left = D!Taken(c, s, next)]
  <2>1. s \in D!Sources /\ sync[c].page \in 1..Len(Pages[s])
    BY <1>2, <1>14 DEF D!PageDone
  <2>2. next \in 1..Len(Pages[s])
    <3>1. Len(Pages[s]) \in Nat
      BY <2>1 DEF DiscoveryAssumption, D!Sources
    <3> QED
      BY <2>1, <3>1 DEF D!NextPage
  <2>3. D!Taken(c, s, next) \subseteq Listings
    BY <1>5, <2>1, <2>2 DEF D!Taken
  <2>4. PICK all \in {sync[c].read, sync[c].read \cup {s}} :
          sync' = [sync EXCEPT ![c] = left(all)] \/ sync' = [sync EXCEPT ![c] = more]
    BY <1>14 DEF D!PageDone
  <2> HIDE DEF next, s
  <2>5. SyncOK(left(all)) /\ SyncOK(more)
    BY <1>1, <1>2, <2>1, <2>3
  <2> HIDE DEF left, more, SyncOK
  <2> QED
    BY <1>4, <1>7, <1>14, <2>4, <2>5 DEF D!PageDone
<1>15. ASSUME NEW c \in Cases, D!SyncDone(c)
       PROVE  Goal
  <2> DEFINE row == [sync[c] EXCEPT !.at = "done"]
  <2>1. SyncOK(row)
    BY <1>1, <1>2
  <2>2. sync' = [sync EXCEPT ![c] = row]
    BY <1>15 DEF D!SyncDone
  <2> HIDE DEF row, SyncOK
  <2> QED
    BY <1>4, <1>7, <1>15, <2>1, <2>2 DEF D!SyncDone
<1>16. ASSUME NEW c \in Cases, D!SyncCut(c)
       PROVE  Goal
  <2>1. Locked
    BY <1>1, <1>16 DEF D!SyncCut, Locked
  <2> HIDE DEF SyncOK
  <2> QED
    BY <1>4, <1>6, <1>7, <1>16, <2>1 DEF D!SyncCut
<1>17. ASSUME NEW c \in Cases, NEW o \in Listings, NEW status \in D!MatchStatus,
              D!SetMatchStatus(c, o, status)
       PROVE  Goal
  <2>1. match' = [match EXCEPT ![c][o] = status] /\ UNCHANGED <<listed, sync, held>>
    BY <1>17 DEF D!SetMatchStatus
  <2>2. Matches
    BY <1>1, <2>1 DEF Matches
  <2> QED
    BY <1>4, <2>1, <2>2
<1> QED
  BY <1>8, <1>9, <1>10, <1>11, <1>12, <1>13, <1>14, <1>15, <1>16, <1>17
     DEF D!DiscoveryNext, D!SyncStep, D!UserOnOpportunities

LEMMA DiscoveryTypesInitially ==
  DiscoveryAssumption /\ D!DiscoveryInit => D!DiscoveryTypeOK
<1> SUFFICES ASSUME DiscoveryAssumption, D!DiscoveryInit PROVE D!DiscoveryTypeOK
  OBVIOUS
<1>1. \A s \in D!Sources : 1 \in 1..Len(Pages[s])
  BY PagesAre DEF D!Sources
<1> QED
  BY <1>1 DEF D!DiscoveryInit, D!DiscoveryTypeOK, D!Idle, D!MatchStatus
-----------------------------------------------------------------------------
(* Types of all the services *)

LEMMA SessionsTypes == ASSUME ServicesAssumption PROVE ServicesSpec => []S!SessionsTypeOK
<1>1. ServicesInit => LifetimesFit
  BY LifetimesInitially DEF ServicesInit
<1>2. LifetimesFit /\ [ServicesNext]_servicesVars => LifetimesFit'
  <2>1. [ServicesNext]_servicesVars => [S!SessionsNext]_sessionVars
    BY DEF ServicesNext, OthersRest, servicesVars
  <2> QED
    BY <2>1, LifetimesStep
<1>3. LifetimesFit => S!SessionsTypeOK
  BY DEF LifetimesFit
<1> QED
  BY <1>1, <1>2, <1>3, PTL DEF ServicesSpec

LEMMA DraftsFitHolds == ASSUME ServicesAssumption PROVE ServicesSpec => []DraftsFit
<1>1. ServicesInit => DraftsFit
  BY DraftsFitInitially DEF ServicesInit
<1>2. DraftsFit /\ [ServicesNext]_servicesVars => DraftsFit'
  <2>1. [ServicesNext]_servicesVars => [W!DraftsNext]_draftVars
    BY DEF ServicesNext, OthersRest, servicesVars
  <2> QED
    BY <2>1, DraftsFitStep
<1> QED
  BY <1>1, <1>2, PTL DEF ServicesSpec

LEMMA DraftsTypesHold == ASSUME ServicesAssumption PROVE ServicesSpec => []W!DraftsTypeOK
BY DraftsFitHolds, DraftsTypes, PTL

\* A run that a crash makes run again saves one document or summary (draft_document.py
\* 453-456, profile_summary.py 235-241), and so does one that is rerun: only what the user
\* deletes before the run is past its save comes back.
THEOREM DraftSavedOnce == ASSUME ServicesAssumption PROVE ServicesSpec => []OneDraftPerRun
<1>1. ServicesInit => SavedOnce
  BY SavedOnceInitially DEF ServicesInit
<1>2. DraftsFit /\ SavedOnce /\ [ServicesNext]_servicesVars => SavedOnce'
  <2>1. [ServicesNext]_servicesVars => [W!DraftsNext]_draftVars
    BY DEF ServicesNext, OthersRest, servicesVars
  <2> QED
    BY <2>1, SavedOnceStep
<1>3. SavedOnce => OneDraftPerRun
  BY DEF SavedOnce, OneDraftPerRun, W!OneDraftPerRun
<1> QED
  BY <1>1, <1>2, <1>3, DraftsFitHolds, PTL DEF ServicesSpec

LEMMA ChannelsTypes == ASSUME ServicesAssumption PROVE ServicesSpec => []C!ChannelsTypeOK
<1>1. ServicesInit => C!ChannelsTypeOK
  BY ChannelsTypesInitially DEF ServicesInit
<1>2. OutboxFits /\ C!ChannelsTypeOK /\ [ServicesNext]_servicesVars => C!ChannelsTypeOK'
  <2>1. [ServicesNext]_servicesVars => [C!ChannelsNext]_channelsVars
    BY DEF ServicesNext, OthersRest, servicesVars
  <2> QED
    BY <2>1, ChannelsTypesStep
<1>3. ServicesSpec => []OutboxFits
  BY OutboxHolds DEF ServicesAssumption, OutboxAssumption
<1> QED
  BY <1>1, <1>2, <1>3, PTL DEF ServicesSpec

LEMMA DiscoveryTypes == ASSUME ServicesAssumption PROVE ServicesSpec => []D!DiscoveryTypeOK
<1>1. ServicesInit => D!DiscoveryTypeOK
  BY DiscoveryTypesInitially DEF ServicesInit, ServicesAssumption
<1>2. CatalogueFits /\ CatalogueFits' /\ D!DiscoveryTypeOK /\ [ServicesNext]_servicesVars
        => D!DiscoveryTypeOK'
  <2>1. [ServicesNext]_servicesVars => [D!DiscoveryNext]_discoveryVars
    BY DEF ServicesNext, OthersRest, servicesVars
  <2> QED
    BY <2>1, DiscoveryTypesStep DEF ServicesAssumption
<1>3. ServicesSpec => []CatalogueFits
  BY DiscoveryHolds DEF ServicesAssumption
<1> QED
  BY <1>1, <1>2, <1>3, PTL DEF ServicesSpec

\* The rows of every service are what their columns admit: in each of them, and for any
\* number of users' rows, workers, browsers and requests.
THEOREM ServicesTyped ==
  ASSUME ServicesAssumption PROVE ServicesSpec => []ServicesTypeOK
<1>1. (ServicesSpec => []B!BoardsTypeOK) /\ (ServicesSpec => []A!TypeOK)
  BY BoardsTypes, ApplicationsTypes DEF ServicesAssumption
<1>2. ASSUME A!TypeOK, C!ChannelsTypeOK, D!DiscoveryTypeOK, W!DraftsTypeOK, P!ProfileTypeOK,
             M!ProvidersTypeOK, S!SessionsTypeOK, B!BoardsTypeOK, O!SourcesTypeOK,
             T!AssistantTypeOK
      PROVE  ServicesTypeOK
  BY <1>2, Zenon DEF ServicesTypeOK
<1> QED
  BY <1>1, <1>2, ChannelsTypes, DiscoveryTypes, DraftsTypesHold,
     ProfileTypes, ProvidersTypes, SessionsTypes, SourcesTypes, AssistantTypes, PTL
===============================================================================
