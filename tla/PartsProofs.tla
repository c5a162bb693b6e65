------------------------------ MODULE PartsProofs ------------------------------
(***************************************************************************)
(* The parts of the backend: each keeps its own specification while the     *)
(* others rest, so what is proved of applications, of model providers and   *)
(* of the assistant in modules of their own holds here; the reading of a    *)
(* board to its end; sources and the profile; and the types of all these.   *)
(***************************************************************************)
EXTENDS Services, WellFoundedInduction, SequenceTheorems, TLAPS

AP == INSTANCE ApplicationsProofs
MP == INSTANCE ModelProofs

-----------------------------------------------------------------------------
(* Applications *)

LEMMA ApplicationsPart == ServicesSpec => AP!Spec
<1> USE DEF A!AppRow, AP!AppRow, A!BrowserStart, AP!BrowserStart, A!UserTargets, AP!UserTargets,
            A!AssistFrom, AP!AssistFrom, A!Exists, AP!Exists, A!Status, AP!Status, A!Executing,
            AP!Executing, A!Ended, AP!Ended, A!Free, AP!Free, A!CanMove, AP!CanMove,
            A!ApplicationMoves, AP!ApplicationMoves, A!ActivePreSubmit, AP!ActivePreSubmit,
            A!ApplicationStatus, AP!ApplicationStatus, A!Move, AP!Move
<1>1. ServicesInit => AP!Init
  BY Zenon DEF ServicesInit, A!Init, AP!Init
<1>2. A!Next <=> AP!Next
  <2>1. \A a \in Apps : A!UserOnApplication(a) <=> AP!UserOnApplication(a)
    BY Zenon DEF A!UserOnApplication, AP!UserOnApplication, A!CreateApplication,
       AP!CreateApplication, A!UpdateApplication, AP!UpdateApplication, A!RecordAnswer,
       AP!RecordAnswer, A!ChangeStatus, AP!ChangeStatus, A!ResolveUncertain,
       AP!ResolveUncertain
  <2>2. \A r \in Runs : A!UserOnRun(r) <=> AP!UserOnRun(r)
    BY Zenon DEF A!UserOnRun, AP!UserOnRun, A!MayOverlap, AP!MayOverlap, A!NewRun, AP!NewRun,
       A!StartBrowser, AP!StartBrowser, A!StartAssist, AP!StartAssist, A!Decide, AP!Decide,
       A!Cancelled, AP!Cancelled, A!CancelRun, AP!CancelRun, A!RetryRun, AP!RetryRun,
       A!RerunRun, AP!RerunRun
  <2>3. \A r \in Runs :
        (A!FillBegin(r) \/ A!Filled(r)) <=>
        (AP!FillBegin(r) \/ AP!Filled(r))
    BY Zenon DEF A!FillBegin, AP!FillBegin, A!Filled, AP!Filled, A!InputsOf, AP!InputsOf,
                 A!Plannable, AP!Plannable,
                 A!Fillable, AP!Fillable, A!FillOutcomes, AP!FillOutcomes, A!Finish,
                 AP!Finish, A!Ends, AP!Ends
  <2>4. \A r \in Runs, why \in {"blocked", "missing", "documents", "error"} :
        A!NotFilled(r, why) <=> AP!NotFilled(r, why)
    BY Zenon DEF A!NotFilled, AP!NotFilled, A!Fillable, AP!Fillable, A!FillOutcomes,
                 AP!FillOutcomes, A!Plannable, AP!Plannable, A!InputsOf, AP!InputsOf, A!Finish, AP!Finish, A!Ends, AP!Ends
  <2>5. \A r \in Runs :
        (A!AskApproval(r) \/ A!Approved(r) \/ A!NotApproved(r)) <=>
        (AP!AskApproval(r) \/ AP!Approved(r) \/ AP!NotApproved(r))
    BY Zenon DEF A!AskApproval, AP!AskApproval, A!Approved, AP!Approved, A!NotApproved,
                 AP!NotApproved, A!Finish, AP!Finish, A!Ends, AP!Ends
  <2>6. \A r \in Runs :
        (A!Doubt(r) \/ A!SkipSubmit(r) \/ A!SubmitBegin(r) \/ A!SubmitCall(r)) <=>
        (AP!Doubt(r) \/ AP!SkipSubmit(r) \/ AP!SubmitBegin(r) \/ AP!SubmitCall(r))
    BY Zenon DEF A!Doubt, AP!Doubt, A!SkipSubmit, AP!SkipSubmit, A!SubmitBegin,
                 AP!SubmitBegin, A!SubmitCall, AP!SubmitCall, A!Entered, AP!Entered, A!Calls,
                 AP!Calls, A!SamePlan, AP!SamePlan, A!Plannable, AP!Plannable, A!InputsOf, AP!InputsOf, A!Finish, AP!Finish, A!Ends, AP!Ends
  <2>7. \A r \in Runs :
        ((\E out \in A!Outcomes : A!CallReturns(r, out)) \/ A!CallRaises(r) \/ A!SubmitEnd(r)) <=>
        ((\E out \in AP!Outcomes : AP!CallReturns(r, out)) \/ AP!CallRaises(r) \/ AP!SubmitEnd(r))
    BY Zenon DEF A!CallReturns, AP!CallReturns, A!CallRaises, AP!CallRaises, A!SubmitEnd,
                 AP!SubmitEnd, A!Reports, AP!Reports, A!Outcome, AP!Outcome, A!Outcomes,
                 AP!Outcomes, A!Finish, AP!Finish, A!Ends, AP!Ends
  <2>8. \A r \in Runs :
        (A!AssistBegin(r) \/ A!AssistConfirmed(r) \/ A!AssistEnded(r)) <=>
        (AP!AssistBegin(r) \/ AP!AssistConfirmed(r) \/ AP!AssistEnded(r))
    BY Zenon DEF A!AssistBegin, AP!AssistBegin, A!AssistConfirmed, AP!AssistConfirmed,
                 A!AssistEnded, AP!AssistEnded, A!Finish, AP!Finish, A!Ends, AP!Ends
  <2>9. \A r \in Runs : A!Step(r) <=> AP!Step(r)
    BY <2>3, <2>4, <2>5, <2>6, <2>7, <2>8, Zenon DEF A!Step, AP!Step
  <2>10. \A r \in Runs :
        (A!Site(r) \/ A!RuntimeStep(r)) <=>
        (AP!Site(r) \/ AP!RuntimeStep(r))
    BY Zenon DEF A!Site, AP!Site, A!Click, AP!Click, A!StrayEnds, AP!StrayEnds,
                 A!RuntimeStep, AP!RuntimeStep,
                 A!Interrupted, AP!Interrupted, A!Stopped, AP!Stopped, A!FirstOf,
                 AP!FirstOf, A!Left, AP!Left
  <2> QED
    BY <2>1, <2>2, <2>9, <2>10, Zenon DEF A!Next, AP!Next
<1>3. [ServicesNext]_servicesVars => [AP!Next]_(AP!vars)
  BY <1>2 DEF ServicesNext, OthersRest, servicesVars, AP!vars, applicationsVars
<1> QED
  BY <1>1, <1>3, PTL DEF ServicesSpec, AP!Spec

\* Services assumes what applications assume.
LEMMA ApplicationsAssumed == A!ApplicationAssumption => AP!ApplicationAssumption
BY DEF A!ApplicationAssumption, AP!ApplicationAssumption

\* Whatever an employer was sent stays recorded as sent or in doubt.
THEOREM SentIsRecorded ==
  ASSUME A!ApplicationAssumption, ~Overlapping
  PROVE  ServicesSpec => []NothingSentIsForgotten
<1>1. AP!Spec => []AP!NothingSentIsForgotten
  BY AP!SentStaysRecorded, ApplicationsAssumed
<1>2. AP!NothingSentIsForgotten => NothingSentIsForgotten
  BY DEF AP!NothingSentIsForgotten, NothingSentIsForgotten, A!NothingSentIsForgotten, A!Status,
     AP!Status, A!Out, AP!Out
<1> QED
  BY <1>1, <1>2, ApplicationsPart, PTL

\* The form that is sent is the one the approval request showed, unless it was filled in
\* again.
THEOREM ApprovedGoesOut ==
  ASSUME A!ApplicationAssumption
  PROVE  ServicesSpec => []SendsWhatWasApproved
<1>1. AP!Spec => []AP!SendsWhatWasApproved
  BY AP!ApprovedIsSent, ApplicationsAssumed
<1>2. AP!SendsWhatWasApproved => SendsWhatWasApproved
  BY DEF AP!SendsWhatWasApproved, SendsWhatWasApproved, A!SendsWhatWasApproved
<1> QED
  BY <1>1, <1>2, ApplicationsPart, PTL

-----------------------------------------------------------------------------
(* Model providers *)

LEMMA ProvidersPart == ServicesSpec => MP!ProvidersSpec
<1>1. ServicesInit => MP!ProvidersInit
  BY DEF ServicesInit, M!ProvidersInit, MP!ProvidersInit, M!NoRow, MP!NoRow, M!AnyServer,
     MP!AnyServer, M!NoEdit, MP!NoEdit, M!NoCheck, MP!NoCheck,
     M!Seen, MP!Seen
<1>2. M!ProvidersNext <=> MP!ProvidersNext
  <2> USE DEF M!AnyServer, MP!AnyServer, M!NoRow, MP!NoRow, M!NoEdit, MP!NoEdit, M!NoCheck,
              MP!NoCheck, M!KeyChanges, MP!KeyChanges, M!Others, MP!Others, M!NeedsKey,
              MP!NeedsKey, M!Seen, MP!Seen
  <2>1. M!UserOnProviders <=> MP!UserOnProviders
    BY Zenon DEF M!UserOnProviders, MP!UserOnProviders, M!BeginCreate, MP!BeginCreate,
       M!BeginUpdate, MP!BeginUpdate, M!BeginDefault, MP!BeginDefault, M!ShowForm,
       MP!ShowForm, M!LeaveForm, MP!LeaveForm, M!DeleteProvider, MP!DeleteProvider, M!BeginCheck, MP!BeginCheck
  <2>2. \A t \in Tabs : M!Commit(t) <=> MP!Commit(t)
    BY Zenon DEF M!Commit, MP!Commit, M!Written, MP!Written
  <2>3. M!EndCheck <=> MP!EndCheck
    BY Zenon DEF M!EndCheck, MP!EndCheck
  <2> QED
    BY <2>1, <2>2, <2>3, Zenon DEF M!ProvidersNext, MP!ProvidersNext
<1>3. [ServicesNext]_servicesVars => [MP!ProvidersNext]_(MP!providerVars)
  BY <1>2 DEF ServicesNext, OthersRest, servicesVars, MP!providerVars, providerVars
<1> QED
  BY <1>1, <1>3, PTL DEF ServicesSpec, MP!ProvidersSpec

\* A stored key is left with another server only by an update whose copy of the row is
\* out of date, or whose user saw another server under the row's version.
THEOREM KeysStay == MP!VersionsAssumed => (ServicesSpec => KeyStaysWithItsServer)
<1>1. MP!VersionsAssumed => (MP!ProvidersSpec => MP!KeyStaysWithItsServer)
  BY MP!KeysStay
<1>2. MP!KeyStaysWithItsServer => KeyStaysWithItsServer
  BY PTL DEF KeyStaysWithItsServer, MP!KeyStaysWithItsServer, M!KeyStaysWithItsServer,
     MP!Fits, M!Fits, M!providerVars, MP!providerVars
<1> QED
  BY <1>1, <1>2, ProvidersPart, PTL

-----------------------------------------------------------------------------
(* The assistant *)

LEMMA AssistantPart == ServicesSpec => MP!AssistantSpec
<1>1. ServicesInit => MP!AssistantInit
  BY Zenon DEF ServicesInit, T!AssistantInit, MP!AssistantInit, T!NoTurn, MP!NoTurn
<1>2. T!AssistantNext <=> MP!AssistantNext
  <2> USE DEF T!Over, MP!Over, T!NoTurn, MP!NoTurn, T!Underway, MP!Underway, T!Resolved,
              MP!Resolved, T!NextStep, MP!NextStep, T!Exposes, MP!Exposes, T!Told, MP!Told,
              T!NeedsConsent, MP!NeedsConsent, T!Go, MP!Go
  <2>1. T!UserOnAssistant <=> MP!UserOnAssistant
    BY Zenon DEF T!UserOnAssistant, MP!UserOnAssistant, T!NewConversation,
       MP!NewConversation, T!ClearConversation, MP!ClearConversation, T!StartTurn,
       MP!StartTurn, T!Decide, MP!Decide, T!SetStandard, MP!SetStandard
  <2>2. \A m \in Turns : T!ConverseStep(m) <=> MP!ConverseStep(m)
    BY Zenon DEF T!ConverseStep, MP!ConverseStep, T!BeginConverse, MP!BeginConverse,
       T!Replies, MP!Replies, T!LooksUp, MP!LooksUp, T!RunTool, MP!RunTool,
       T!WorkRecorded, MP!WorkRecorded, T!AsksForWork, MP!AsksForWork
  <2>3. \A m \in Turns :
          (T!Consent(m) \/ T!SaveReply(m) \/ T!TurnCut(m) \/ T!TurnEnds(m)) <=>
          (MP!Consent(m) \/ MP!SaveReply(m) \/ MP!TurnCut(m) \/ MP!TurnEnds(m))
    BY Zenon DEF T!Consent, MP!Consent, T!SaveReply, MP!SaveReply, T!TurnCut, MP!TurnCut,
       T!TurnEnds, MP!TurnEnds
  <2> QED
    BY <2>1, <2>2, <2>3, Zenon DEF T!AssistantNext, MP!AssistantNext
<1>3. [ServicesNext]_servicesVars => [MP!AssistantNext]_(MP!assistantVars)
  BY <1>2 DEF ServicesNext, OthersRest, servicesVars, MP!assistantVars, assistantVars
<1> QED
  BY <1>1, <1>3, PTL DEF ServicesSpec, MP!AssistantSpec

\* What an online model sees is what the user agreed to share, unless the model or the
\* conversation moved under the run (agents/assistant.py, consent and converse).
THEOREM ConsentComesFirst == MP!StepsAssumed => (ServicesSpec => []ConsentBeforeOnline)
<1>1. MP!StepsAssumed => (MP!AssistantSpec => []MP!ConsentBeforeOnline)
  BY MP!ConsentComesFirst
<1>2. MP!ConsentBeforeOnline => ConsentBeforeOnline
  BY DEF MP!ConsentBeforeOnline, ConsentBeforeOnline, T!ConsentBeforeOnline
<1> QED
  BY <1>1, <1>2, AssistantPart, PTL

-----------------------------------------------------------------------------
(* Filters: induction over a sequence.  A set of numbers that has 0 and, with a number,  *)
(* the next has all, because every set of numbers has a least one; this is stated of a   *)
(* set, not of an operator, and so can be cited.                                         *)

\* A set of numbers that is not empty has a least one.
LEMMA Least ==
  ASSUME NEW K \in SUBSET Nat, K # {}
  PROVE  \E m \in K : \A n \in K : ~(n < m)
<1> DEFINE R == {ss \in Nat \X Nat : ss[1] < ss[2]}
<1>1. IsWellFoundedOn(R, Nat)
  BY NatLessThanWellFounded DEF OpToRel
<1> HIDE DEF R
<1>2. \E x \in K : \A y \in K : ~(<<y, x>> \in R)
  BY <1>1, WFMin
<1> USE DEF R
<1> QED
  BY <1>2

\* A set that has 0 and with a number the next has all.
LEMMA Counting ==
  ASSUME NEW K, 0 \in K, \A n \in Nat : n \in K => n + 1 \in K
  PROVE  Nat \subseteq K
<1> SUFFICES ASSUME Nat \ K # {} PROVE FALSE
  OBVIOUS
<1>1. PICK m \in Nat \ K : \A n \in Nat \ K : ~(n < m)
  BY Least, Zenon
<1>2. m # 0 /\ m - 1 \in Nat /\ m - 1 < m
  BY <1>1
<1>3. m - 1 \in K /\ (m - 1) + 1 = m
  BY <1>1, <1>2
<1> QED
  BY <1>1, <1>2, <1>3

\* The first n elements of s that are in G
Selects(f, s, G) ==
  f = [n \in 0..Len(s) |->
        IF n = 0 THEN <<>>
        ELSE IF s[n] \in G THEN Append(f[n - 1], s[n]) ELSE f[n - 1]]

\* The function that Only chooses is there.
LEMMA SelectionExists ==
  ASSUME NEW X, NEW s \in Seq(X), NEW G
  PROVE  \E f : Selects(f, s, G)
<1> DEFINE Upto(f, k) == f = [n \in 0..k |->
        IF n = 0 THEN <<>>
        ELSE IF s[n] \in G THEN Append(f[n - 1], s[n]) ELSE f[n - 1]]
           K == {k \in Nat : \E f : Upto(f, k)}
<1>1. 0 \in K
  <2>1. Upto([n \in 0..0 |-> <<>>], 0)
    OBVIOUS
  <2> QED
    BY <2>1
<1>2. ASSUME NEW k \in Nat, k \in K PROVE k + 1 \in K
  <2>1. PICK f : Upto(f, k)
    BY <1>2
  <2> DEFINE g == [n \in 0..(k + 1) |->
        IF n = 0 THEN <<>>
        ELSE IF s[n] \in G THEN Append(f[n - 1], s[n]) ELSE f[n - 1]]
  <2>2. ASSUME NEW n \in 0..k PROVE g[n] = f[n]
    <3>1. f[n] = IF n = 0 THEN <<>>
                 ELSE IF s[n] \in G THEN Append(f[n - 1], s[n]) ELSE f[n - 1]
      BY <2>1, Zenon
    <3>2. n \in 0..(k + 1)
      OBVIOUS
    <3> QED
      BY <3>1, <3>2, Zenon
  <2>3. \A n \in 0..(k + 1) : n # 0 => n - 1 \in 0..k
    OBVIOUS
  <2>4. Upto(g, k + 1)
    BY <2>2, <2>3, Zenon
  <2> HIDE DEF Upto, g
  <2> QED
    BY <2>4
<1> HIDE DEF K
<1>3. Nat \subseteq K
  BY <1>1, <1>2, Counting
<1>4. Len(s) \in K
  BY <1>3, LenProperties
<1> QED
  BY <1>4 DEF K, Selects

\* Only (Boards) is that function at the end of the sequence.
LEMMA OnlySelects ==
  ASSUME NEW X, NEW s \in Seq(X), NEW G
  PROVE  \E f : Selects(f, s, G) /\ B!Only(s, G) = f[Len(s)]
<1> DEFINE f == CHOOSE g : Selects(g, s, G)
<1>1. Selects(f, s, G)
  BY SelectionExists
<1>2. B!Only(s, G) = f[Len(s)]
  BY DEF B!Only, Selects
<1> QED
  BY <1>1, <1>2

\* One element more is selected or not.
LEMMA SelectsStep ==
  ASSUME NEW s, NEW G, NEW f, Selects(f, s, G), Len(s) \in Nat
  PROVE  /\ f[0] = <<>>
         /\ \A n \in Nat : n + 1 <= Len(s) =>
              f[n + 1] = IF s[n + 1] \in G THEN Append(f[n], s[n + 1]) ELSE f[n]
<1>1. ASSUME NEW n \in 0..Len(s)
      PROVE  f[n] = IF n = 0 THEN <<>>
                    ELSE IF s[n] \in G THEN Append(f[n - 1], s[n]) ELSE f[n - 1]
  BY Zenon DEF Selects
<1>2. f[0] = <<>>
  BY <1>1
<1>3. ASSUME NEW n \in Nat, n + 1 <= Len(s)
      PROVE  f[n + 1] = IF s[n + 1] \in G THEN Append(f[n], s[n + 1]) ELSE f[n]
  <2>1. n + 1 \in 0..Len(s) /\ (n + 1) - 1 = n /\ n + 1 # 0
    BY <1>3
  <2>2. f[n + 1] = IF n + 1 = 0 THEN <<>>
                   ELSE IF s[n + 1] \in G THEN Append(f[(n + 1) - 1], s[n + 1])
                   ELSE f[(n + 1) - 1]
    BY <1>1, <2>1, Zenon
  <2> QED
    BY <2>1, <2>2, Zenon
<1> QED
  BY <1>2, <1>3

\* t is in Seq(X), and has what the first n of s and G have in common
Selected(X, t, s, n, G) ==
  /\ t \in Seq(X) /\ Len(t) <= n
  /\ \A x : (\E i \in 1..Len(t) : t[i] = x) <=> x \in G /\ \E i \in 1..n : s[i] = x

LEMMA SelectedNone ==
  ASSUME NEW X, NEW s, NEW G
  PROVE  Selected(X, <<>>, s, 0, G)
<1>1. <<>> \in Seq(X) /\ Len(<<>>) = 0 /\ 1..0 = {}
  OBVIOUS
<1> QED
  BY <1>1 DEF Selected

LEMMA SelectedMore ==
  ASSUME NEW X, NEW s, NEW G, NEW n \in Nat, NEW t, Selected(X, t, s, n, G),
         s[n + 1] \in X
  PROVE  Selected(X, IF s[n + 1] \in G THEN Append(t, s[n + 1]) ELSE t, s, n + 1, G)
<1>1. \A i : i \in 1..(n + 1) <=> i \in 1..n \/ i = n + 1
  OBVIOUS
<1>2. t \in Seq(X) /\ Len(t) \in Nat /\ Len(t) <= n
  BY LenProperties DEF Selected
<1>3. \A x : (\E i \in 1..Len(t) : t[i] = x) <=> x \in G /\ \E i \in 1..n : s[i] = x
  BY DEF Selected
<1>4. CASE s[n + 1] \notin G
  <2>1. \A x : (\E i \in 1..Len(t) : t[i] = x)
                <=> x \in G /\ \E i \in 1..(n + 1) : s[i] = x
    BY <1>1, <1>3, <1>4, Zenon
  <2> QED
    BY <1>2, <1>4, <2>1 DEF Selected
<1>5. CASE s[n + 1] \in G
  <2> DEFINE u == Append(t, s[n + 1])
  <2>1. /\ u \in Seq(X) /\ Len(u) = Len(t) + 1
        /\ \A i \in 1..Len(t) : u[i] = t[i]
        /\ u[Len(t) + 1] = s[n + 1]
    BY <1>2, AppendProperties
  <2> HIDE DEF u
  <2>2. \A i : i \in 1..Len(u) <=> i \in 1..Len(t) \/ i = Len(t) + 1
    BY <1>2, <2>1
  <2>3. \A x : (\E i \in 1..Len(u) : u[i] = x)
                <=> (\E i \in 1..Len(t) : t[i] = x) \/ s[n + 1] = x
    BY <2>1, <2>2, Zenon
  <2>4. \A x : (\E i \in 1..Len(u) : u[i] = x)
                <=> x \in G /\ \E i \in 1..(n + 1) : s[i] = x
    BY <1>1, <1>3, <1>5, <2>3, Zenon
  <2>5. Len(u) <= n + 1
    BY <1>2, <2>1
  <2>6. Selected(X, u, s, n + 1, G)
    BY <2>1, <2>4, <2>5 DEF Selected
  <2> QED
    BY <1>5, <2>6 DEF u
<1> QED
  BY <1>4, <1>5

\* The first n that are selected are those of the first n that are in G.
LEMMA SelectsSome ==
  ASSUME NEW X, NEW s \in Seq(X), NEW G, NEW f, Selects(f, s, G)
  PROVE  \A n \in Nat : n <= Len(s) => Selected(X, f[n], s, n, G)
<1> DEFINE K == {n \in Nat : n <= Len(s) => Selected(X, f[n], s, n, G)}
<1>1. Len(s) \in Nat /\ \A i \in 1..Len(s) : s[i] \in X
  BY LenProperties
<1>2. f[0] = <<>> /\ \A n \in Nat : n + 1 <= Len(s) =>
        f[n + 1] = IF s[n + 1] \in G THEN Append(f[n], s[n + 1]) ELSE f[n]
  BY <1>1, SelectsStep
<1>3. 0 \in K
  BY <1>2, SelectedNone
<1>4. ASSUME NEW n \in Nat, n \in K PROVE n + 1 \in K
  <2>1. ASSUME n + 1 <= Len(s) PROVE Selected(X, f[n + 1], s, n + 1, G)
    <3>1. Selected(X, f[n], s, n, G) /\ s[n + 1] \in X
      BY <1>1, <1>4, <2>1
    <3>2. f[n + 1] = IF s[n + 1] \in G THEN Append(f[n], s[n + 1]) ELSE f[n]
      BY <1>2, <2>1
    <3> DEFINE t == f[n]
    <3>3. Selected(X, t, s, n, G)
      BY <3>1
    <3> HIDE DEF t
    <3>4. Selected(X, IF s[n + 1] \in G THEN Append(t, s[n + 1]) ELSE t, s, n + 1, G)
      BY <3>1, <3>3, SelectedMore
    <3> QED
      BY <3>2, <3>4 DEF t
  <2> QED
    BY <2>1
<1> HIDE DEF K
<1>5. Nat \subseteq K
  BY <1>3, <1>4, Counting
<1> QED
  BY <1>5 DEF K

\* What of a sequence is in a set: a sequence, no longer, of what both have.
LEMMA OnlyIs ==
  ASSUME NEW X, NEW s \in Seq(X), NEW G
  PROVE  /\ B!Only(s, G) \in Seq(X)
         /\ Len(B!Only(s, G)) <= Len(s)
         /\ B!Range(B!Only(s, G)) = B!Range(s) \cap G
<1>1. PICK f : Selects(f, s, G) /\ B!Only(s, G) = f[Len(s)]
  BY OnlySelects
<1>2. Len(s) \in Nat /\ DOMAIN s = 1..Len(s)
  BY LenProperties
<1>3. /\ B!Only(s, G) \in Seq(X) /\ Len(B!Only(s, G)) <= Len(s)
      /\ \A x : (\E i \in 1..Len(B!Only(s, G)) : B!Only(s, G)[i] = x)
                  <=> x \in G /\ \E i \in 1..Len(s) : s[i] = x
  <2>1. Selected(X, f[Len(s)], s, Len(s), G)
    BY <1>1, <1>2, SelectsSome
  <2> QED
    BY <1>1, <2>1 DEF Selected
<1>4. DOMAIN B!Only(s, G) = 1..Len(B!Only(s, G))
  BY <1>3, LenProperties
<1> QED
  BY <1>2, <1>3, <1>4 DEF B!Range

\* What is put before a sequence comes before what is selected of it, or does not count.
LEMMA OnlyBehind ==
  ASSUME NEW X, NEW s \in Seq(X), NEW a \in X, NEW G
  PROVE  B!Only(<<a>> \o s, G) = (IF a \in G THEN <<a>> ELSE <<>>) \o B!Only(s, G)
<1> DEFINE t == <<a>> \o s
           head == IF a \in G THEN <<a>> ELSE <<>>
<1>1. t \in Seq(X) /\ Len(s) \in Nat /\ Len(t) = Len(s) + 1 /\ t[1] = a
      /\ \A n \in Nat : n + 1 <= Len(s) => t[(n + 1) + 1] = s[n + 1]
  BY LenProperties, ConcatProperties
<1>2. head \in Seq(X)
  OBVIOUS
<1> HIDE DEF t
<1>3. PICK f : Selects(f, s, G) /\ B!Only(s, G) = f[Len(s)]
  BY OnlySelects
<1>4. PICK g : Selects(g, t, G) /\ B!Only(t, G) = g[Len(t)]
  BY <1>1, OnlySelects
<1>5. \A n \in Nat : n <= Len(s) => f[n] \in Seq(X)
  BY <1>3, SelectsSome DEF Selected
<1>6. f[0] = <<>> /\ \A n \in Nat : n + 1 <= Len(s) =>
        f[n + 1] = IF s[n + 1] \in G THEN Append(f[n], s[n + 1]) ELSE f[n]
  BY <1>1, <1>3, SelectsStep
<1>7. g[0] = <<>> /\ \A n \in Nat : n + 1 <= Len(t) =>
        g[n + 1] = IF t[n + 1] \in G THEN Append(g[n], t[n + 1]) ELSE g[n]
  BY <1>1, <1>4, SelectsStep
<1> DEFINE K == {n \in Nat : n <= Len(s) => g[n + 1] = head \o f[n]}
<1>8. 0 \in K
  <2>1. g[0 + 1] = IF t[0 + 1] \in G THEN Append(g[0], t[0 + 1]) ELSE g[0]
    <3>1. 0 \in Nat /\ 0 + 1 <= Len(t)
      BY <1>1
    <3> QED
      BY <1>7, <3>1, Zenon
  <2>2. g[0 + 1] = head
    BY <1>1, <1>7, <2>1
  <2> HIDE DEF head
  <2>3. head \o <<>> = head
    BY <1>2, ConcatEmptySeq
  <2> QED
    BY <1>6, <2>2, <2>3, Zenon
<1> HIDE DEF head
<1>9. ASSUME NEW n \in Nat, n \in K PROVE n + 1 \in K
  <2> SUFFICES ASSUME n + 1 <= Len(s) PROVE g[(n + 1) + 1] = head \o f[n + 1]
    OBVIOUS
  <2>1. g[n + 1] = head \o f[n] /\ f[n] \in Seq(X) /\ s[n + 1] \in X
    BY <1>1, <1>5, <1>9, LenProperties
  <2>2. g[(n + 1) + 1] = IF s[n + 1] \in G THEN Append(g[n + 1], s[n + 1]) ELSE g[n + 1]
    BY <1>1, <1>7
  <2>3. f[n + 1] = IF s[n + 1] \in G THEN Append(f[n], s[n + 1]) ELSE f[n]
    BY <1>6
  <2>4. Append(head \o f[n], s[n + 1]) = head \o Append(f[n], s[n + 1])
    <3> DEFINE u == f[n]
               e == s[n + 1]
    <3>1. u \in Seq(X) /\ e \in X
      BY <2>1
    <3> HIDE DEF u, e
    <3>2. head \o u \in Seq(X) /\ <<e>> \in Seq(X)
      BY <1>2, <3>1, ConcatProperties
    <3>3. Append(head \o u, e) = (head \o u) \o <<e>> /\ Append(u, e) = u \o <<e>>
      BY <3>1, <3>2, AppendIsConcat
    <3>4. (head \o u) \o <<e>> = head \o (u \o <<e>>)
      BY <1>2, <3>1, <3>2, ConcatAssociative
    <3>5. Append(head \o u, e) = head \o Append(u, e)
      BY <3>3, <3>4
    <3> QED
      BY <3>5 DEF u, e
  <2> QED
    BY <2>1, <2>2, <2>3, <2>4
<1> HIDE DEF K
<1>10. Nat \subseteq K
  BY <1>8, <1>9, Counting
<1>11. g[Len(s) + 1] = head \o f[Len(s)]
  BY <1>1, <1>10 DEF K
<1> QED
  BY <1>1, <1>3, <1>4, <1>11 DEF t, head

-----------------------------------------------------------------------------
(* Boards *)

\* What a round looks for of what stayed, and what of the board is still ahead of it
SoughtIn(i) == {z \in read.stayed : plan.words = 0 \/ z \in Finds[i]}
Ahead == {z \in B!Postings : \E k \in 1..Len(B!Found(read.round)) :
            k > read.page * Size /\ B!Found(read.round)[k] = z}

\* Why a posting may be missed while the board is read
Misses == read.gone \/ read.cut \/ (plan.loop = "found" /\ read.late)

BoardTyped ==
  /\ board \in Seq(B!Postings) /\ came \in Nat /\ Len(board) + came <= Len(Listed)
  /\ plan \in B!Providers
  /\ DOMAIN read = DOMAIN B!NotReading
  /\ read.at \in {"idle", "robots", "reading", "done", "failed", "broken"}
  /\ read.out \in Seq(B!Postings) /\ read.stayed \subseteq B!Postings
  /\ read.round \in 1..B!Rounds
  /\ read.page \in Nat /\ read.page < B!PageLimit
  /\ read.found \in Nat /\ read.total \in Nat
  /\ read.requests \in 0..MaxRequests /\ read.late \in BOOLEAN
  /\ read.gone \in BOOLEAN /\ read.cut \in BOOLEAN
  /\ Len(kept) <= MaxJobs

\* What was read so far: before the first page nothing, and never more than the pages hold
PagesCounted ==
  /\ read.at \in {"idle", "robots"} =>
       read.out = <<>> /\ read.page = 0 /\ read.round = 1 /\ read.found = 0
         /\ read.requests = 0
  /\ read.found <= read.page * Size
  /\ B!Reading /\ plan.loop = "total" => Len(read.out) <= read.page * Size
  /\ plan.loop = "found" /\ read.found > 0 /\ ~read.late /\ ~read.gone =>
       read.total = Len(B!Found(read.round))

\* Nothing that stayed was passed over: earlier rounds have it, this one has it or
\* comes to it
NothingPassed ==
  B!Reading /\ ~Misses =>
    /\ read.stayed \subseteq B!Range(board)
    /\ \A i \in 1..(read.round - 1) : SoughtIn(i) \cap Readable \subseteq B!Range(read.out)
    /\ SoughtIn(read.round) \cap Readable \subseteq B!Range(read.out) \cup Ahead

ReadingFits ==
  BoardTyped /\ PagesCounted /\ NothingPassed /\ B!ReadingIsComplete

\* What holds of every plan
PlanShape(p) ==
  /\ DOMAIN p = {"loop", "pages", "keyed", "words", "robots", "lookup", "empty"}
  /\ p.loop \in {"feed", "next", "pages", "short", "total", "hits", "found", "first"}
  /\ p.pages \in Nat \ {0} /\ p.words \in Nat
  /\ p.keyed \in BOOLEAN
  /\ p.loop \in {"feed", "first"} => p.pages = 1
  /\ p.loop = "total" => p.words = 0 /\ ~p.keyed

\* A plan that turns pages has the shape.
LEMMA PagedShape ==
  ASSUME NEW loop \in {"next", "pages", "short", "hits", "found", "total"},
         NEW pages \in Nat \ {0}
  PROVE  PlanShape(B!Paged(loop, pages)) /\ PlanShape(B!OneFeed)
BY DEF PlanShape, B!Paged, B!OneFeed

\* Every provider's plan has one.
LEMMA PlansHaveShape == \A p \in B!Providers : PlanShape(p)
<1> USE DEF PlanShape, B!Paged, B!OneFeed
<1>1. PlanShape(B!Arbeitnow) /\ PlanShape(B!LandingJobs) /\ PlanShape(B!JustJoin)
  BY DEF B!Arbeitnow, B!LandingJobs, B!JustJoin
<1>2. PlanShape(B!TheHub) /\ PlanShape(B!Platsbanken) /\ PlanShape(B!Arbeitsagentur)
  BY DEF B!TheHub, B!Platsbanken, B!Arbeitsagentur
<1>3. PlanShape(B!Himalayas) /\ PlanShape(B!FourDayWeek) /\ PlanShape(B!NoFluffJobs)
  BY DEF B!Himalayas, B!FourDayWeek, B!NoFluffJobs
<1>4. PlanShape(B!GenericFeed) /\ PlanShape(B!JsonLdPage) /\ PlanShape(B!Varbi)
  BY DEF B!GenericFeed, B!JsonLdPage, B!Varbi
<1>5. PlanShape(B!Getro) /\ PlanShape(B!Workable) /\ PlanShape(B!SmartRecruiters)
  BY DEF B!Getro, B!Workable, B!SmartRecruiters
<1>6. PlanShape(B!Rippling) /\ PlanShape(B!Workday) /\ PlanShape(B!OneFeed)
  BY DEF B!Rippling, B!Workday
<1> HIDE DEF PlanShape, B!Paged, B!OneFeed
<1> QED
  BY <1>1, <1>2, <1>3, <1>4, <1>5, <1>6
     DEF B!Providers, B!SolidJobs, B!SimpleJsonBoard, B!WeWorkRemotely, B!WorkInFinland,
         B!Greenhouse, B!Lever, B!Ashby, B!Recruitee, B!Personio, B!Teamtailor, B!Breezy,
         B!Pinpoint

\* A sequence and its elements.
LEMMA RangeIs ==
  ASSUME NEW X, NEW s \in Seq(X)
  PROVE  /\ B!Range(s) = {s[k] : k \in 1..Len(s)} /\ B!Range(s) \subseteq X
         /\ Len(s) \in Nat /\ \A k \in 1..Len(s) : s[k] \in X
BY LenProperties DEF B!Range

\* What a round finds of the board
LEMMA FoundIs ==
  ASSUME NEW bd \in Seq(B!Postings), bd = board, NEW i
  PROVE  /\ B!Found(i) \in Seq(B!Postings)
         /\ Len(B!Found(i)) \in Nat
         /\ \A z : z \in B!Range(B!Found(i)) <=>
              z \in B!Range(board) /\ (plan.words = 0 \/ z \in Finds[i])
         /\ B!Range(B!Found(i)) = {B!Found(i)[k] : k \in 1..Len(B!Found(i))}
<1>1. CASE plan.words = 0
  BY <1>1, RangeIs DEF B!Found
<1>2. CASE plan.words # 0
  BY <1>2, OnlyIs, RangeIs DEF B!Found
<1> QED
  BY <1>1, <1>2

\* A page has what stands between its first row and its last
LEMMA RowsAre ==
  ASSUME NEW s \in Seq(B!Postings), NEW from \in Nat, NEW size \in Nat \ {0}
  PROVE  \E rows \in Seq(B!Postings) :
           /\ rows = SubSeq(s, from + 1, B!MinOf(from + size, Len(s)))
           /\ Len(rows) \in Nat /\ Len(rows) <= size
           /\ \A k \in 1..Len(s) : from < k /\ k <= from + size => s[k] \in B!Range(rows)
           /\ Len(rows) < size => Len(s) < from + size
<1> DEFINE last == B!MinOf(from + size, Len(s))
           rows == SubSeq(s, from + 1, last)
<1>1. Len(s) \in Nat /\ \A k \in 1..Len(s) : s[k] \in B!Postings
  BY RangeIs
<1>2. last \in Nat /\ last <= Len(s) /\ last <= from + size
      /\ (last = from + size \/ last = Len(s))
  BY <1>1 DEF B!MinOf
<1> HIDE DEF last
<1>3. /\ rows \in Seq(B!Postings)
      /\ Len(rows) = IF from + 1 <= last THEN last - (from + 1) + 1 ELSE 0
      /\ \A i \in 1..(last - (from + 1) + 1) : rows[i] = s[from + 1 + i - 1]
  BY <1>1, <1>2, SubSeqProperties
<1> HIDE DEF rows
<1>4. Len(rows) \in Nat /\ Len(rows) <= size /\ (Len(rows) < size => Len(s) < from + size)
  <2>1. CASE from + 1 <= last
    <3>1. Len(rows) = last - from
      BY <1>2, <1>3, <2>1
    <3> QED
      BY <1>1, <1>2, <2>1, <3>1
  <2>2. CASE ~(from + 1 <= last)
    <3>1. Len(rows) = 0 /\ last <= from
      BY <1>2, <1>3, <2>2
    <3> QED
      BY <1>1, <1>2, <2>2, <3>1
  <2> QED
    BY <2>1, <2>2
<1>5. ASSUME NEW k \in 1..Len(s), from < k, k <= from + size
      PROVE  s[k] \in B!Range(rows)
  <2>1. k - from \in 1..Len(rows) /\ rows[k - from] = s[k]
    BY <1>1, <1>2, <1>3, <1>5
  <2>2. B!Range(rows) = {rows[i] : i \in 1..Len(rows)}
    BY <1>3, RangeIs
  <2> QED
    BY <2>1, <2>2, Zenon
<1> QED
  BY <1>3, <1>4, <1>5 DEF rows, last

\* What is added to what there is
LEMMA AddedIs ==
  ASSUME NEW out \in Seq(B!Postings), NEW rows \in Seq(B!Postings)
  PROVE  /\ B!Added(out, rows) \in Seq(B!Postings)
         /\ Len(B!Added(out, rows)) <= Len(out) + Len(rows)
         /\ B!Range(out) \subseteq B!Range(B!Added(out, rows))
         /\ B!Range(rows) \cap Readable \subseteq B!Range(B!Added(out, rows))
<1> DEFINE more == IF plan.keyed
                     THEN B!Only(B!Usable(rows), B!Postings \ B!Range(out))
                     ELSE B!Usable(rows)
<1>1. /\ B!Usable(rows) \in Seq(B!Postings) /\ Len(B!Usable(rows)) <= Len(rows)
      /\ B!Range(rows) \cap Readable \subseteq B!Range(B!Usable(rows))
      /\ Len(rows) \in Nat /\ B!Range(rows) \subseteq B!Postings
  <2>1. CASE plan.loop = "total"
    BY <2>1, RangeIs DEF B!Usable
  <2>2. CASE plan.loop # "total"
    BY <2>2, OnlyIs, RangeIs DEF B!Usable
  <2> QED
    BY <2>1, <2>2
<1>2. /\ more \in Seq(B!Postings) /\ Len(more) <= Len(rows)
      /\ B!Range(rows) \cap Readable \subseteq B!Range(out) \cup B!Range(more)
  <2>1. CASE plan.keyed
    <3> DEFINE us == B!Usable(rows)
    <3>1. us \in Seq(B!Postings)
      BY <1>1
    <3>2. Len(us) \in Nat
      BY <3>1, RangeIs
    <3> HIDE DEF us
    <3>3. /\ B!Only(us, B!Postings \ B!Range(out)) \in Seq(B!Postings)
          /\ Len(B!Only(us, B!Postings \ B!Range(out))) <= Len(us)
          /\ B!Range(B!Only(us, B!Postings \ B!Range(out)))
               = B!Range(us) \cap (B!Postings \ B!Range(out))
      BY <3>1, OnlyIs
    <3>4. Len(B!Only(us, B!Postings \ B!Range(out))) \in Nat
      BY <3>3, RangeIs
    <3>5. more = B!Only(us, B!Postings \ B!Range(out))
      BY <2>1 DEF us
    <3>6. Len(us) <= Len(rows) /\ B!Range(rows) \cap Readable \subseteq B!Range(us)
          /\ Len(rows) \in Nat /\ B!Range(rows) \subseteq B!Postings
      BY <1>1 DEF us
    <3> HIDE DEF more
    <3>7. more \in Seq(B!Postings)
      BY <3>3, <3>5
    <3>8. Len(more) <= Len(rows)
      BY <3>2, <3>3, <3>4, <3>5, <3>6
    <3>9. B!Range(rows) \cap Readable \subseteq B!Range(out) \cup B!Range(more)
      BY <3>3, <3>5, <3>6
    <3> QED
      BY <3>7, <3>8, <3>9
  <2>2. CASE ~plan.keyed
    BY <1>1, <2>2
  <2> QED
    BY <2>1, <2>2
<1>3. B!Added(out, rows) = out \o more
  BY DEF B!Added
<1> HIDE DEF more
<1>4. /\ out \o more \in Seq(B!Postings) /\ Len(out \o more) = Len(out) + Len(more)
      /\ \A i \in 1..(Len(out) + Len(more)) :
           (out \o more)[i] = IF i <= Len(out) THEN out[i] ELSE more[i - Len(out)]
  BY <1>2, ConcatProperties
<1>5. Len(out) \in Nat /\ Len(more) \in Nat
  BY <1>2, RangeIs
<1>6. \A i \in 1..Len(out) : i \in 1..(Len(out) + Len(more)) /\ (out \o more)[i] = out[i]
  BY <1>4, <1>5
<1>7. \A i \in 1..Len(more) : i + Len(out) \in 1..(Len(out) + Len(more))
        /\ (out \o more)[i + Len(out)] = more[i]
  BY <1>4, <1>5
<1>8. B!Range(out) \subseteq B!Range(out \o more)
  <2>1. B!Range(out) = {out[k] : k \in 1..Len(out)}
    BY RangeIs
  <2>2. B!Range(out \o more) = {(out \o more)[k] : k \in 1..(Len(out) + Len(more))}
    BY <1>4, RangeIs
  <2> QED
    BY <1>6, <2>1, <2>2, Zenon
<1>9. B!Range(more) \subseteq B!Range(out \o more)
  <2>1. B!Range(more) = {more[k] : k \in 1..Len(more)}
    BY <1>2, RangeIs
  <2>2. B!Range(out \o more) = {(out \o more)[k] : k \in 1..(Len(out) + Len(more))}
    BY <1>4, RangeIs
  <2> QED
    BY <1>7, <2>1, <2>2, Zenon
<1> QED
  BY <1>1, <1>2, <1>3, <1>4, <1>5, <1>8, <1>9

\* Pages follow each other.
LEMMA NextPage == \A p \in Nat : \A size \in Nat : (p + 1) * size = p * size + size /\ p * size \in Nat
OBVIOUS

\* What the types say, in the form the steps need
LEMMA BoardFacts ==
  ASSUME BoardsAssumption, BoardTyped
  PROVE  /\ PlanShape(plan) /\ Size \in Nat \ {0}
         /\ read.page \in Nat /\ read.page * Size \in Nat
         /\ (read.page + 1) * Size = read.page * Size + Size
         /\ B!Rounds \in Nat \ {0} /\ read.round \in 1..B!Rounds
         /\ B!PageLimit \in Nat \ {0}
         /\ plan.words = 0 => B!Rounds = 1
         /\ plan.loop \in {"feed", "first"} => read.page = 0
<1>1. PlanShape(plan) /\ Size \in Nat \ {0} /\ read.page \in Nat
  BY PlansHaveShape DEF BoardTyped, BoardsAssumption
<1>2. read.page * Size \in Nat /\ (read.page + 1) * Size = read.page * Size + Size
  BY <1>1, NextPage
<1>3. B!Rounds \in Nat \ {0} /\ (plan.words = 0 => B!Rounds = 1)
  BY <1>1 DEF B!Rounds, B!MinOf, BoardsAssumption, PlanShape
<1>4. B!PageLimit \in Nat \ {0} /\ (plan.pages = 1 => B!PageLimit = 1)
  BY <1>1 DEF B!PageLimit, B!MinOf, BoardsAssumption, PlanShape
<1>5. plan.loop \in {"feed", "first"} => read.page = 0
  BY <1>1, <1>4 DEF PlanShape, BoardTyped
<1> QED
  BY <1>1, <1>2, <1>3, <1>4, <1>5 DEF BoardTyped

\* A page has every posting that stands between its ends.
LEMMA PageTaken ==
  ASSUME BoardsAssumption, BoardTyped
  PROVE  \E rows \in Seq(B!Postings) :
           /\ rows = B!Rows(read.round, read.page)
           /\ Len(rows) \in Nat /\ (plan.loop # "feed" => Len(rows) <= Size)
           /\ \A k \in 1..Len(B!Found(read.round)) :
                read.page * Size < k
                  /\ (plan.loop = "feed" \/ k <= read.page * Size + Size)
                  => B!Found(read.round)[k] \in B!Range(rows)
           /\ plan.loop # "feed" /\ Len(rows) < Size =>
                Len(B!Found(read.round)) < read.page * Size + Size
<1> DEFINE all == B!Found(read.round)
           from == read.page * Size
<1>1. from \in Nat /\ (read.page + 1) * Size = from + Size /\ Size \in Nat \ {0}
  BY BoardFacts
<1>2. all \in Seq(B!Postings) /\ Len(all) \in Nat
      /\ B!Range(all) = {all[k] : k \in 1..Len(all)}
  BY FoundIs DEF BoardTyped
<1>3. B!Rows(read.round, read.page) =
        IF plan.loop = "feed" THEN all
        ELSE SubSeq(all, from + 1, B!MinOf(from + Size, Len(all)))
  BY <1>1 DEF B!Rows
<1> HIDE DEF all, from
<1>4. CASE plan.loop = "feed"
  <2>1. \A k \in 1..Len(all) : all[k] \in B!Range(all)
    BY <1>2
  <2>2. B!Rows(read.round, read.page) = all
    BY <1>3, <1>4
  <2> QED
    BY <1>2, <1>4, <2>1, <2>2 DEF all, from
<1>5. CASE plan.loop # "feed"
  <2>1. PICK rows \in Seq(B!Postings) :
           /\ rows = SubSeq(all, from + 1, B!MinOf(from + Size, Len(all)))
           /\ Len(rows) \in Nat /\ Len(rows) <= Size
           /\ \A k \in 1..Len(all) : from < k /\ k <= from + Size => all[k] \in B!Range(rows)
           /\ Len(rows) < Size => Len(all) < from + Size
    BY <1>1, <1>2, RowsAre
  <2>2. rows = B!Rows(read.round, read.page)
    BY <1>3, <1>5, <2>1
  <2> QED
    BY <1>5, <2>1, <2>2, Zenon DEF all, from
<1> QED
  BY <1>4, <1>5

\* A provider that takes a page for the last one is right, as long as no posting may be
\* missed; one request reads a search on one page and does not ask for the second.
LEMMA LastPage ==
  ASSUME BoardsAssumption, BoardTyped, PagesCounted, B!Reading, ~Misses,
         NEW rows \in Seq(B!Postings), NEW grown,
         Len(grown) <= Len(read.out) + Len(rows), Len(grown) \in Nat,
         plan.loop # "feed" => Len(rows) <= Size,
         plan.loop # "feed" /\ Len(rows) < Size =>
           Len(B!Found(read.round)) < read.page * Size + Size,
         B!Stops(rows, grown, read.found + Len(rows), B!Total)
  PROVE  \/ plan.loop = "feed" \/ Len(B!Found(read.round)) <= read.page * Size + Size
         \/ plan.loop = "first" /\ Len(B!Found(read.round)) > Size
<1> DEFINE all == B!Found(read.round)
           from == read.page * Size
<1>1. /\ from \in Nat /\ (read.page + 1) * Size = from + Size /\ Size \in Nat \ {0}
      /\ PlanShape(plan)
  BY BoardFacts
<1>2. /\ Len(all) \in Nat /\ Len(rows) \in Nat /\ (rows = <<>> => Len(rows) = 0)
      /\ Len(read.out) \in Nat
  BY FoundIs, RangeIs DEF BoardTyped
<1>3. read.found <= from /\ (plan.loop = "total" => Len(read.out) <= from) /\ read.found \in Nat
  BY DEF PagesCounted, BoardTyped
<1>4. B!Total = Len(all)
  BY <1>3 DEF B!Total, PagesCounted, Misses, BoardTyped
<1>5. plan.loop # "feed" /\ Len(rows) < Size => Len(all) < from + Size
  OBVIOUS
<1>6. plan.loop \in {"first"} => from = 0
  BY BoardFacts
<1>7. CASE plan.loop \in {"feed", "first"}
  BY <1>1, <1>2, <1>6, <1>7
<1>8. CASE plan.loop \in {"next", "pages", "short", "total", "hits", "found"}
  <2> DEFINE total == B!Total
             found == read.found + Len(rows)
  <2>1. /\ plan.loop \in {"next", "hits", "total"} =>
              rows = <<>> \/ Len(all) <= from + Size
                \/ (plan.loop = "hits" /\ from + Size >= total)
                \/ (plan.loop = "total" /\ Len(grown) >= total)
        /\ plan.loop = "pages" => from + Size >= Len(all)
        /\ plan.loop = "short" => Len(rows) < Size
        /\ plan.loop = "found" => Len(rows) < Size \/ found >= total
    <3> HIDE DEF total, found
    <3>1. B!Stops(rows, grown, found, total)
      BY DEF total, found
    <3> HIDE DEF from, all
    <3>2. plan.loop = "next" => rows = <<>> \/ Len(all) <= from + Size
      BY <1>1, <3>1, Zenon DEF B!Stops, all
    <3>3. plan.loop = "pages" => from + Size >= Len(all)
      BY <1>1, <3>1 DEF B!Stops, all
    <3>4. plan.loop = "short" => Len(rows) < Size
      BY <3>1 DEF B!Stops
    <3>5. plan.loop = "total" => rows = <<>> \/ Len(grown) >= total
      BY <3>1 DEF B!Stops
    <3>6. plan.loop = "hits" => rows = <<>> \/ from + Size >= total
      BY <1>1, <3>1 DEF B!Stops
    <3>7. plan.loop = "found" => Len(rows) < Size \/ found >= total
      BY <3>1 DEF B!Stops
    <3> QED
      BY <3>2, <3>3, <3>4, <3>5, <3>6, <3>7
  <2>2. Len(rows) <= Size /\ total = Len(all)
    BY <1>4, <1>8
  <2> HIDE DEF all, from, total
  <2>3. Len(rows) < Size => Len(all) < from + Size
    BY <1>5, <1>8
  <2>4. Len(all) <= from + Size
    <3>1. CASE rows = <<>> \/ Len(rows) < Size
      BY <1>1, <1>2, <2>3, <3>1
    <3>2. CASE plan.loop = "total" /\ Len(grown) >= total
      BY <1>1, <1>2, <1>3, <2>2, <3>2
    <3>3. CASE plan.loop = "found" /\ found >= total
      BY <1>1, <1>2, <1>3, <2>2, <3>3
    <3>4. CASE Len(all) <= from + Size \/ from + Size >= Len(all)
      BY <1>1, <1>2, <3>4
    <3> QED
      BY <1>8, <2>1, <2>2, <3>1, <3>2, <3>3, <3>4
  <2> QED
    BY <2>4 DEF all, from
<1> QED
  BY <1>1, <1>7, <1>8 DEF PlanShape

\* The page of the adapter
LEMMA RecordsAre ==
  ASSUME BoardsAssumption, NEW out \in Seq(B!Postings)
  PROVE  /\ Len(B!Records(out)) <= MaxJobs
         /\ Len(out) <= MaxJobs => B!Range(out) \cap Readable \subseteq B!Range(B!Records(out))
<1> DEFINE last == B!MinOf(MaxJobs, Len(out))
           page == SubSeq(out, 1, last)
<1>1. Len(out) \in Nat /\ \A k \in 1..Len(out) : out[k] \in B!Postings
  BY RangeIs
<1>2. last \in Nat /\ last <= Len(out) /\ last <= MaxJobs
      /\ (Len(out) <= MaxJobs => last = Len(out))
  BY <1>1 DEF B!MinOf, BoardsAssumption
<1> HIDE DEF last
<1>3. page \in Seq(B!Postings) /\ Len(page) = last
      /\ (last = Len(out) => page = out)
  <2>1. page \in Seq(B!Postings) /\ Len(page) = IF 1 <= last THEN last - 1 + 1 ELSE 0
    BY <1>1, <1>2, SubSeqProperties
  <2>2. last = Len(out) => page = out
    BY SubSeqFull
  <2> QED
    BY <1>2, <2>1, <2>2
<1>4. B!Records(out) = B!Only(page, Readable)
  BY DEF B!Records, last
<1> HIDE DEF page
<1>5. /\ B!Only(page, Readable) \in Seq(B!Postings) /\ Len(B!Only(page, Readable)) <= Len(page)
      /\ B!Range(B!Only(page, Readable)) = B!Range(page) \cap Readable
  BY <1>3, OnlyIs
<1>6. Len(B!Only(page, Readable)) \in Nat
  BY <1>5, RangeIs
<1>7. Len(B!Records(out)) <= MaxJobs
  BY <1>2, <1>3, <1>4, <1>5, <1>6 DEF BoardsAssumption
<1>8. Len(out) <= MaxJobs => B!Range(out) \cap Readable \subseteq B!Range(B!Records(out))
  BY <1>2, <1>3, <1>4, <1>5
<1> QED
  BY <1>7, <1>8

\* A page is read: what it had is there now, and the rest is still ahead or was the last.
LEMMA ReadPageFits ==
  ASSUME BoardsAssumption, ReadingFits, B!ReadPage
  PROVE  ReadingFits'
<1>1. PICK rows \in Seq(B!Postings) :
        /\ rows = B!Rows(read.round, read.page)
        /\ Len(rows) \in Nat /\ (plan.loop # "feed" => Len(rows) <= Size)
        /\ \A k \in 1..Len(B!Found(read.round)) :
             read.page * Size < k
               /\ (plan.loop = "feed" \/ k <= read.page * Size + Size)
               => B!Found(read.round)[k] \in B!Range(rows)
        /\ plan.loop # "feed" /\ Len(rows) < Size =>
             Len(B!Found(read.round)) < read.page * Size + Size
  BY PageTaken DEF ReadingFits
<1> DEFINE grown == B!Added(read.out, rows)
           ends  == B!Stops(rows, grown, read.found + Len(rows), B!Total)
           over  == ends \/ read.page + 1 = B!PageLimit
           total == B!Total
<1>2. /\ grown \in Seq(B!Postings) /\ Len(grown) \in Nat
      /\ Len(grown) <= Len(read.out) + Len(rows)
      /\ B!Range(read.out) \subseteq B!Range(grown)
      /\ B!Range(rows) \cap Readable \subseteq B!Range(grown)
      /\ Len(read.out) \in Nat
  BY AddedIs, RangeIs DEF ReadingFits, BoardTyped
<1>3. /\ PlanShape(plan) /\ Size \in Nat \ {0}
      /\ read.page \in Nat /\ read.page * Size \in Nat
      /\ (read.page + 1) * Size = read.page * Size + Size
      /\ B!Rounds \in Nat \ {0} /\ read.round \in 1..B!Rounds
      /\ B!PageLimit \in Nat \ {0} /\ read.page < B!PageLimit
      /\ plan.words = 0 => B!Rounds = 1
      /\ plan.loop \in {"feed", "first"} => read.page = 0
      /\ 0 * Size = 0
  BY SMTT(30), BoardFacts DEF ReadingFits, BoardTyped
<1>4. plan.loop \in {"feed", "first"} => ends
  BY DEF B!Stops
<1>5. total \in Nat
  BY FoundIs DEF B!Total, ReadingFits, BoardTyped
<1>6. /\ read.at = "reading" /\ read.requests < MaxRequests
      /\ UNCHANGED <<board, came, plan>>
      /\ DOMAIN read' = DOMAIN read
      /\ read'.at = IF ~over \/ read.round < B!Rounds THEN "reading"
                    ELSE IF grown = <<>> /\ ~plan.empty THEN "failed" ELSE "done"
      /\ read'.out = grown /\ read'.requests = read.requests + 1
      /\ read'.round = IF over /\ read.round < B!Rounds THEN read.round + 1 ELSE read.round
      /\ read'.page = IF over THEN 0 ELSE read.page + 1
      /\ read'.found = IF over THEN 0 ELSE read.found + Len(rows)
      /\ read'.total = IF over THEN 0 ELSE total
      /\ read'.cut = (read.cut \/ (over /\ ~ends)
                       \/ (plan.loop = "first" /\ Len(B!Found(read.round)) > Size))
      /\ read'.stayed = read.stayed /\ read'.late = read.late /\ read'.gone = read.gone
      /\ kept' = IF read'.at = "done" THEN B!Records(grown) ELSE kept
  <2> HIDE DEF grown, ends, over, total
  <2>1. /\ read' = [read EXCEPT
               !.at = IF ~over \/ read.round < B!Rounds THEN "reading"
                      ELSE IF grown = <<>> /\ ~plan.empty THEN "failed" ELSE "done",
               !.out = grown, !.requests = @ + 1,
               !.round = IF over /\ @ < B!Rounds THEN @ + 1 ELSE @,
               !.page  = IF over THEN 0 ELSE @ + 1,
               !.found = IF over THEN 0 ELSE read.found + Len(rows),
               !.total = IF over THEN 0 ELSE total,
               !.cut   = @ \/ (over /\ ~ends)
                           \/ (plan.loop = "first" /\ Len(B!Found(read.round)) > Size)]
        /\ kept' = IF read'.at = "done" THEN B!Records(grown) ELSE kept
        /\ read.at = "reading" /\ read.requests < MaxRequests /\ UNCHANGED <<board, came, plan>>
    BY <1>1, Zenon DEF B!ReadPage, grown, ends, over, total
  <2> QED
    BY <2>1 DEF ReadingFits, BoardTyped, B!NotReading
<1> HIDE DEF grown, ends, total
<1>7. BoardTyped'
  <2>1. B!Rounds' = B!Rounds /\ B!PageLimit' = B!PageLimit
    BY <1>6 DEF B!Rounds, B!PageLimit
  <2>2. Len(kept') <= MaxJobs
    BY <1>2, <1>6, RecordsAre DEF ReadingFits, BoardTyped
  <2>3. read'.page \in Nat /\ read'.page < B!PageLimit /\ read'.round \in 1..B!Rounds
    <3>1. read.page + 1 \in Nat /\ (~over => read.page + 1 < B!PageLimit)
      BY SMTT(30), <1>3
    <3>2. read.round < B!Rounds => read.round + 1 \in 1..B!Rounds
      BY SMTT(30), <1>3
    <3>3. read'.page = 0 \/ (~over /\ read'.page = read.page + 1)
      BY <1>6
    <3>4. read'.round = read.round
            \/ (read.round < B!Rounds /\ read'.round = read.round + 1)
      BY <1>6
    <3>5. B!PageLimit \in Nat \ {0} /\ read.round \in 1..B!Rounds
      BY <1>3
    <3> HIDE DEF over
    <3>6. read'.page \in Nat /\ read'.page < B!PageLimit
      BY <3>1, <3>3, <3>5
    <3>7. read'.round \in 1..B!Rounds
      BY <3>2, <3>4, <3>5
    <3> QED
      BY <3>6, <3>7
  <2>4. read'.requests \in 0..MaxRequests
    <3>1. read.requests \in 0..MaxRequests /\ MaxRequests \in Nat
      BY DEF ReadingFits, BoardTyped, BoardsAssumption
    <3>2. read'.requests = read.requests + 1 /\ read.requests < MaxRequests
      BY <1>6
    <3> QED
      BY <3>1, <3>2
  <2>5. read'.found \in Nat /\ read'.total \in Nat
    BY <1>1, <1>5, <1>6 DEF ReadingFits, BoardTyped
  <2>6. read'.at \in {"reading", "failed", "done"} /\ read'.cut \in BOOLEAN
    BY <1>6
  <2> QED
    BY <1>2, <1>6, <2>1, <2>2, <2>3, <2>4, <2>5, <2>6 DEF ReadingFits, BoardTyped, B!NotReading
<1>8. PagesCounted'
  <2>1. read'.at \notin {"idle", "robots"}
    BY <1>6
  <2>2. read'.found <= read'.page * Size
    <3>1. CASE over
      BY <1>3, <1>6, <3>1
    <3>2. CASE ~over
      <4>1. Len(rows) <= Size /\ read.found <= read.page * Size /\ read.found \in Nat
        BY <1>1, <1>4, <3>2 DEF ReadingFits, PagesCounted, BoardTyped
      <4> QED
        BY <1>1, <1>3, <1>6, <3>2, <4>1
    <3> QED
      BY <3>1, <3>2
  <2>3. B!Reading' /\ plan'.loop = "total" => Len(read'.out) <= read'.page * Size
    <3> SUFFICES ASSUME read'.at = "reading", plan.loop = "total"
                 PROVE  Len(grown) <= read'.page * Size
      BY <1>6 DEF B!Reading
    <3>1. ~over
      BY <1>3, <1>6 DEF PlanShape
    <3>2. Len(rows) <= Size /\ Len(read.out) <= read.page * Size
      BY <1>1, <1>6 DEF ReadingFits, PagesCounted, B!Reading
    <3>3. read'.page = read.page + 1
      BY <1>6, <3>1
    <3>4. read'.page * Size = read.page * Size + Size
      BY <1>3, <3>3
    <3> DEFINE from == read.page * Size
    <3>5. from \in Nat /\ Size \in Nat /\ Len(grown) <= Len(read.out) + Len(rows)
          /\ Len(grown) \in Nat /\ Len(read.out) \in Nat /\ Len(rows) \in Nat
      BY <1>1, <1>2, <1>3
    <3>6. Len(rows) <= Size /\ Len(read.out) <= from /\ read'.page * Size = from + Size
      BY <3>2, <3>4
    <3> HIDE DEF from
    <3> QED
      BY <3>5, <3>6
  <2>4. plan'.loop = "found" /\ read'.found > 0 /\ ~read'.late /\ ~read'.gone =>
          read'.total = Len(B!Found(read.round))
    <3> SUFFICES ASSUME plan.loop = "found", read'.found > 0, ~read.late, ~read.gone
                 PROVE  read'.total = Len(B!Found(read.round))
      BY <1>6
    <3>1. ~over
      BY <1>6
    <3>2. read'.total = total
      BY <1>6, <3>1
    <3> QED
      BY <3>2 DEF total, B!Total, ReadingFits, PagesCounted
  <2>5. read'.found > 0 => read'.round = read.round
    BY <1>6
  <2>6. (Len(B!Found(read.round)))' = Len(B!Found(read'.round))
    BY <1>6 DEF B!Found
  <2> QED
    BY <2>1, <2>2, <2>3, <2>4, <2>5, <2>6 DEF PagesCounted
<1>9. \A i : (SoughtIn(i))' = SoughtIn(i)
  BY <1>6 DEF SoughtIn
<1>10. ASSUME ~Misses' PROVE ~Misses /\ (over => ends)
         /\ ~(plan.loop = "first" /\ Len(B!Found(read.round)) > Size)
  BY <1>6, <1>10 DEF Misses
<1>11. ASSUME ~Misses
       PROVE  /\ read.stayed \subseteq B!Range(board)
              /\ \A i \in 1..(read.round - 1) : SoughtIn(i) \cap Readable \subseteq B!Range(grown)
              /\ SoughtIn(read.round) \cap Readable \subseteq B!Range(read.out) \cup Ahead
  BY <1>2, <1>6, <1>11 DEF ReadingFits, NothingPassed, B!Reading
<1>12. ASSUME ~Misses', over
       PROVE  \A i \in 1..read.round : SoughtIn(i) \cap Readable \subseteq B!Range(grown)
  <2>1. ~Misses /\ ends /\ ~(plan.loop = "first" /\ Len(B!Found(read.round)) > Size)
    BY <1>10, <1>12
  <2>2. plan.loop = "feed" \/ Len(B!Found(read.round)) <= read.page * Size + Size
    <3>1. B!Stops(rows, grown, read.found + Len(rows), B!Total)
      BY <2>1 DEF ends
    <3>2. B!Reading
      BY <1>6 DEF B!Reading
    <3>3. BoardTyped /\ PagesCounted
      BY DEF ReadingFits
    <3> QED
      BY <1>1, <1>2, <2>1, <3>1, <3>2, <3>3, LastPage
  <2>3. Ahead \cap Readable \subseteq B!Range(grown)
    <3> SUFFICES ASSUME NEW z \in Ahead, z \in Readable PROVE z \in B!Range(grown)
      OBVIOUS
    <3>1. PICK k \in 1..Len(B!Found(read.round)) :
            k > read.page * Size /\ B!Found(read.round)[k] = z
      BY DEF Ahead
    <3>2. Len(B!Found(read.round)) \in Nat
      BY FoundIs DEF ReadingFits, BoardTyped
    <3>3. read.page * Size < k /\ (plan.loop = "feed" \/ k <= read.page * Size + Size)
      BY <1>3, <2>2, <3>1, <3>2
    <3>4. z \in B!Range(rows)
      BY <1>1, <3>1, <3>3
    <3> QED
      BY <1>2, <3>4
  <2>4. SoughtIn(read.round) \cap Readable \subseteq B!Range(grown)
    BY <1>2, <1>11, <2>1, <2>3
  <2>5. \A i \in 1..read.round : i \in 1..(read.round - 1) \/ i = read.round
    BY <1>3
  <2> QED
    BY <1>11, <2>1, <2>4, <2>5
<1>13. NothingPassed'
  <2> SUFFICES ASSUME read'.at = "reading", ~Misses'
               PROVE  /\ read.stayed \subseteq B!Range(board)
                      /\ \A i \in 1..(read'.round - 1) :
                           SoughtIn(i) \cap Readable \subseteq B!Range(grown)
                      /\ SoughtIn(read'.round) \cap Readable \subseteq B!Range(grown) \cup Ahead'
    BY <1>6, <1>9 DEF NothingPassed, B!Reading
  <2>1. read.stayed \subseteq B!Range(board)
    BY <1>10, <1>11
  <2>2. Ahead' = {z \in B!Postings : \E k \in 1..Len(B!Found(read'.round)) :
                     k > read'.page * Size /\ B!Found(read'.round)[k] = z}
    BY <1>6 DEF Ahead, B!Found
  <2>3. CASE over
    <3>1. read'.round = read.round + 1 /\ read'.page = 0
      BY <1>6, <2>3
    <3>2. \A i \in 1..(read'.round - 1) : SoughtIn(i) \cap Readable \subseteq B!Range(grown)
      BY <1>3, <1>12, <2>3, <3>1
    <3>3. SoughtIn(read'.round) \subseteq Ahead'
      <4> SUFFICES ASSUME NEW z \in SoughtIn(read'.round) PROVE z \in Ahead'
        OBVIOUS
      <4>1. z \in B!Range(B!Found(read'.round)) /\ z \in B!Postings
            /\ B!Range(B!Found(read'.round))
                 = {B!Found(read'.round)[k] : k \in 1..Len(B!Found(read'.round))}
        BY <2>1, FoundIs DEF SoughtIn, ReadingFits, BoardTyped
      <4>2. PICK k \in 1..Len(B!Found(read'.round)) : B!Found(read'.round)[k] = z
        BY <4>1
      <4>3. k > read'.page * Size
        BY <1>3, <3>1
      <4> QED
        BY <2>2, <4>1, <4>2, <4>3
    <3> QED
      BY <2>1, <3>2, <3>3
  <2>4. CASE ~over
    <3>1. read'.round = read.round /\ read'.page = read.page + 1 /\ plan.loop # "feed"
      BY <1>4, <1>6, <2>4
    <3>2. Ahead \cap Readable \subseteq B!Range(grown) \cup Ahead'
      <4> SUFFICES ASSUME NEW z \in Ahead, z \in Readable, z \notin Ahead'
                   PROVE  z \in B!Range(grown)
        OBVIOUS
      <4>1. PICK k \in 1..Len(B!Found(read.round)) :
              k > read.page * Size /\ B!Found(read.round)[k] = z
        BY DEF Ahead
      <4>2. z \in B!Postings
        BY DEF Ahead
      <4>3. ~(k > read'.page * Size)
        BY <2>2, <3>1, <4>1, <4>2
      <4>4. Len(B!Found(read.round)) \in Nat
        BY FoundIs DEF ReadingFits, BoardTyped
      <4>5. read.page * Size < k /\ k <= read.page * Size + Size
        BY <1>3, <3>1, <4>1, <4>3, <4>4
      <4>6. z \in B!Range(rows)
        BY <1>1, <4>1, <4>5
      <4> QED
        BY <1>2, <4>6
    <3>3. SoughtIn(read.round) \cap Readable \subseteq B!Range(read.out) \cup Ahead
      BY <1>10, <1>11
    <3>4. SoughtIn(read.round) \cap Readable \subseteq B!Range(grown) \cup Ahead'
      BY <1>2, <3>2, <3>3
    <3>5. \A i \in 1..(read.round - 1) : SoughtIn(i) \cap Readable \subseteq B!Range(grown)
      BY <1>10, <1>11
    <3> QED
      BY <2>1, <3>1, <3>4, <3>5
  <2> QED
    BY <2>3, <2>4
<1>14. B!ReadingIsComplete'
  <2> SUFFICES ASSUME read'.at = "done", ~Misses', ~(Len(grown) > MaxJobs)
               PROVE  B!Sought' \cap Readable \subseteq B!Range(kept')
    <3>1. read'.out = grown
      BY <1>6
    <3> HIDE DEF over
    <3> QED
      BY <3>1, Zenon DEF B!ReadingIsComplete, Misses
  <2>1. over /\ read.round = B!Rounds
    BY <1>3, <1>6
  <2>2. B!Range(grown) \cap Readable \subseteq B!Range(kept')
    <3>1. Len(grown) <= MaxJobs /\ kept' = B!Records(grown)
      BY <1>2, <1>6 DEF BoardsAssumption
    <3> QED
      BY <1>2, <3>1, RecordsAre
  <2>3. \A z \in B!Sought' : \E i \in 1..read.round : z \in SoughtIn(i)
    <3> SUFFICES ASSUME NEW z \in B!Sought' PROVE \E i \in 1..read.round : z \in SoughtIn(i)
      OBVIOUS
    <3>1. z \in read.stayed /\ (plan.words = 0 \/ \E i \in 1..B!Rounds : z \in Finds[i])
      BY <1>6 DEF B!Sought, B!Rounds
    <3>2. read.round \in 1..read.round
      BY <1>3
    <3> QED
      BY <2>1, <3>1, <3>2 DEF SoughtIn
  <2> QED
    BY <1>12, <2>1, <2>2, <2>3
<1> QED
  BY <1>7, <1>8, <1>13, <1>14 DEF ReadingFits

\* A posting that appears is found first, or not at all; what was found moves back
LEMMA FoundBehind ==
  ASSUME BoardTyped, NEW a \in B!Postings, board' = <<a>> \o board, plan' = plan, NEW i
  PROVE  \A k \in 1..Len(B!Found(i)) :
           \E j \in 1..Len((B!Found(i))') : j >= k /\ (B!Found(i))'[j] = B!Found(i)[k]
<1> DEFINE all == B!Found(i)
           head == IF plan.words = 0 \/ a \in Finds[i] THEN <<a>> ELSE <<>>
<1>1. all \in Seq(B!Postings) /\ Len(all) \in Nat
  BY FoundIs DEF BoardTyped
<1>2. head \in Seq(B!Postings) /\ Len(head) \in Nat
  OBVIOUS
<1>3. all' = head \o all
  <2>1. CASE plan.words = 0
    BY <2>1 DEF B!Found
  <2>2. CASE plan.words # 0
    <3>1. board \in Seq(B!Postings)
      BY DEF BoardTyped
    <3>2. B!Only(<<a>> \o board, Finds[i])
            = (IF a \in Finds[i] THEN <<a>> ELSE <<>>) \o B!Only(board, Finds[i])
      BY <3>1, OnlyBehind
    <3> QED
      BY <2>2, <3>2 DEF B!Found
  <2> QED
    BY <2>1, <2>2
<1> HIDE DEF all, head
<1>4. /\ Len(head \o all) = Len(head) + Len(all)
      /\ \A j \in 1..(Len(head) + Len(all)) :
           (head \o all)[j] = IF j <= Len(head) THEN head[j] ELSE all[j - Len(head)]
  BY <1>1, <1>2, ConcatProperties
<1>5. ASSUME NEW k \in 1..Len(all)
      PROVE  \E j \in 1..Len(all') : j >= k /\ all'[j] = all[k]
  <2>1. /\ k + Len(head) \in 1..(Len(head) + Len(all)) /\ k + Len(head) >= k
        /\ ~(k + Len(head) <= Len(head)) /\ (k + Len(head)) - Len(head) = k
    BY <1>1, <1>2
  <2>2. (head \o all)[k + Len(head)] = all[k]
    BY <1>4, <2>1
  <2> QED
    BY <1>3, <1>4, <2>1, <2>2
<1> QED
  BY <1>5 DEF all

\* A posting that appears moves nothing to the front.
LEMMA AppearsFits ==
  ASSUME BoardsAssumption, ReadingFits, B!PostingAppears
  PROVE  ReadingFits'
<1> DEFINE a == Listed[came]
<1>1. /\ BoardTyped /\ PagesCounted /\ NothingPassed /\ B!Reading /\ ~read.late /\ came > 0
      /\ board' = <<a>> \o board /\ came' = came - 1
      /\ read' = [read EXCEPT !.late = TRUE] /\ plan' = plan /\ kept' = kept
  BY DEF ReadingFits, B!PostingAppears
<1>2. /\ DOMAIN read' = DOMAIN read /\ read'.late = TRUE
      /\ read'.at = read.at /\ read'.round = read.round /\ read'.page = read.page
      /\ read'.out = read.out /\ read'.total = read.total /\ read'.found = read.found
      /\ read'.requests = read.requests /\ read'.stayed = read.stayed
      /\ read'.gone = read.gone /\ read'.cut = read.cut
  BY <1>1 DEF BoardTyped, B!NotReading
<1>3. board \in Seq(B!Postings) /\ Len(board) \in Nat /\ came \in Nat /\ a \in B!Postings
      /\ Len(board) + came <= Len(Listed)
  <2>1. board \in Seq(B!Postings) /\ came \in Nat /\ Len(board) + came <= Len(Listed)
    BY <1>1 DEF BoardTyped
  <2>2. Len(board) \in Nat /\ Len(Listed) \in Nat /\ \A k \in 1..Len(Listed) : Listed[k] \in B!Postings
    BY <2>1, RangeIs DEF BoardsAssumption
  <2>3. came \in 1..Len(Listed)
    BY <1>1, <2>1, <2>2
  <2> QED
    BY <2>1, <2>2, <2>3
<1> HIDE DEF a
<1>4. board' \in Seq(B!Postings) /\ Len(board') = Len(board) + 1
      /\ B!Range(board) \subseteq B!Range(board')
  <2>1. /\ <<a>> \in Seq(B!Postings) /\ Len(<<a>>) = 1
        /\ <<a>> \o board \in Seq(B!Postings)
        /\ Len(<<a>> \o board) = Len(<<a>>) + Len(board)
        /\ \A j \in 1..(Len(<<a>>) + Len(board)) : (<<a>> \o board)[j] =
             IF j <= Len(<<a>>) THEN <<a>>[j] ELSE board[j - Len(<<a>>)]
    BY <1>3, ConcatProperties
  <2>2. \A k \in 1..Len(board) : k + 1 \in 1..Len(board') /\ board'[k + 1] = board[k]
    BY <1>1, <1>3, <2>1
  <2>3. board' \in Seq(B!Postings) /\ Len(board') = Len(board) + 1
    BY <1>1, <1>3, <2>1
  <2>4. B!Range(board) = {board[k] : k \in 1..Len(board)}
    BY <1>3, RangeIs
  <2>5. B!Range(board') = {board'[k] : k \in 1..Len(board')}
    BY <2>3, RangeIs
  <2> QED
    BY <2>2, <2>3, <2>4, <2>5
<1>5. B!Rounds' = B!Rounds /\ B!PageLimit' = B!PageLimit
  BY <1>1 DEF B!Rounds, B!PageLimit
<1>6. BoardTyped'
  <2>1. came' \in Nat /\ Len(board') + came' <= Len(Listed)
    BY <1>1, <1>3, <1>4
  <2> QED
    BY <1>1, <1>2, <1>4, <1>5, <2>1 DEF BoardTyped, B!NotReading
<1>7. PagesCounted'
  BY <1>1, <1>2 DEF PagesCounted, B!Reading
<1>8. NothingPassed'
  <2> SUFFICES ASSUME ~Misses'
               PROVE  /\ read.stayed \subseteq B!Range(board')
                      /\ \A i \in 1..(read.round - 1) :
                           (SoughtIn(i))' \cap Readable \subseteq B!Range(read.out)
                      /\ (SoughtIn(read.round))' \cap Readable
                            \subseteq B!Range(read.out) \cup Ahead'
    BY <1>2 DEF NothingPassed
  <2>1. ~Misses
    BY <1>1, <1>2 DEF Misses
  <2>2. \A i : (SoughtIn(i))' = SoughtIn(i)
    BY <1>1, <1>2 DEF SoughtIn
  <2>3. Ahead \subseteq Ahead'
    <3> SUFFICES ASSUME NEW z \in Ahead PROVE z \in Ahead'
      OBVIOUS
    <3>1. PICK r : r = read.round
      OBVIOUS
    <3>2. Ahead' = {y \in B!Postings : \E j \in 1..Len((B!Found(r))') :
                      j > read.page * Size /\ (B!Found(r))'[j] = y}
      BY <1>2, <3>1 DEF Ahead, B!Found
    <3>3. PICK k \in 1..Len(B!Found(r)) : k > read.page * Size /\ B!Found(r)[k] = z
      BY <3>1 DEF Ahead
    <3>4. PICK j \in 1..Len((B!Found(r))') : j >= k /\ (B!Found(r))'[j] = B!Found(r)[k]
      BY <1>1, <1>3, FoundBehind
    <3>5. Len((B!Found(r))') \in Nat /\ Len(B!Found(r)) \in Nat /\ read.page * Size \in Nat
      <4>1. Len(B!Found(r)) \in Nat
        BY <1>3, FoundIs
      <4>2. Len((B!Found(r))') \in Nat
        <5>1. CASE plan.words = 0
          BY <1>1, <1>4, <5>1, RangeIs DEF B!Found
        <5>2. CASE plan.words # 0
          <6>1. B!Only(board', Finds[r]) \in Seq(B!Postings)
            BY <1>4, OnlyIs
          <6>2. (B!Found(r))' = B!Only(board', Finds[r])
            BY <1>1, <5>2 DEF B!Found
          <6> QED
            BY <6>1, <6>2, RangeIs
        <5> QED
          BY <5>1, <5>2
      <4> QED
        BY <1>1, <4>1, <4>2, BoardFacts
    <3>6. j > read.page * Size
      BY <3>3, <3>4, <3>5
    <3>7. z \in B!Postings
      BY DEF Ahead
    <3> QED
      BY <3>2, <3>3, <3>4, <3>6, <3>7
  <2> QED
    BY <1>1, <1>4, <2>1, <2>2, <2>3 DEF NothingPassed
<1>9. B!ReadingIsComplete'
  BY <1>1, <1>2 DEF B!ReadingIsComplete, B!Reading
<1> QED
  BY <1>6, <1>7, <1>8, <1>9 DEF ReadingFits

\* A posting that goes may be missed.
LEMMA GoesFits ==
  ASSUME BoardsAssumption, ReadingFits, NEW z \in B!Postings, B!PostingGoes(z)
  PROVE  ReadingFits'
<1>1. /\ BoardTyped /\ PagesCounted /\ B!Reading
      /\ board' = B!Only(board, B!Postings \ {z}) /\ came' = came
      /\ read' = [read EXCEPT !.gone = TRUE, !.stayed = @ \ {z}] /\ plan' = plan /\ kept' = kept
  BY DEF ReadingFits, B!PostingGoes
<1>2. /\ DOMAIN read' = DOMAIN read /\ read'.gone = TRUE
      /\ read'.at = read.at /\ read'.round = read.round /\ read'.page = read.page
      /\ read'.out = read.out /\ read'.total = read.total /\ read'.found = read.found
      /\ read'.requests = read.requests /\ read'.stayed \subseteq read.stayed
      /\ read'.late = read.late /\ read'.cut = read.cut
  BY <1>1 DEF BoardTyped, B!NotReading
<1>3. B!Rounds' = B!Rounds /\ B!PageLimit' = B!PageLimit
  BY <1>1 DEF B!Rounds, B!PageLimit
<1>4. BoardTyped'
  <2>1. board \in Seq(B!Postings) /\ Len(board) \in Nat /\ came \in Nat
        /\ Len(board) + came <= Len(Listed) /\ Len(Listed) \in Nat
    BY <1>1, RangeIs DEF BoardTyped, BoardsAssumption
  <2>2. board' \in Seq(B!Postings) /\ Len(board') <= Len(board)
    BY <1>1, <2>1, OnlyIs
  <2>3. Len(board') \in Nat
    BY <2>2, RangeIs
  <2>4. Len(board') + came' <= Len(Listed)
    BY <1>1, <2>1, <2>2, <2>3
  <2> QED
    BY <1>1, <1>2, <1>3, <2>2, <2>4 DEF BoardTyped, B!NotReading
<1>5. PagesCounted'
  BY <1>1, <1>2 DEF PagesCounted, B!Reading
<1>6. NothingPassed'
  BY <1>2 DEF NothingPassed, Misses
<1>7. B!ReadingIsComplete'
  BY <1>1, <1>2 DEF B!ReadingIsComplete, B!Reading
<1> QED
  BY <1>4, <1>5, <1>6, <1>7 DEF ReadingFits

\* Before the first page everything is ahead.
LEMMA BeginReadFits ==
  ASSUME BoardsAssumption, ReadingFits, NEW named \in BOOLEAN, B!BeginRead(named)
  PROVE  ReadingFits'
<1>1. /\ BoardTyped /\ PagesCounted /\ read.at = "idle"
      /\ board' = board /\ came' = came /\ plan' = plan /\ kept' = kept
      /\ read' = [read EXCEPT
           !.at = IF plan.robots /\ ~(plan.lookup /\ named) THEN "robots" ELSE "reading",
           !.stayed = B!Range(board)]
  BY DEF ReadingFits, B!BeginRead
<1>2. /\ DOMAIN read' = DOMAIN read /\ read'.at \in {"robots", "reading"}
      /\ read'.stayed = B!Range(board)
      /\ read'.round = read.round /\ read'.page = read.page
      /\ read'.out = read.out /\ read'.total = read.total /\ read'.found = read.found
      /\ read'.requests = read.requests
      /\ read'.late = read.late /\ read'.gone = read.gone /\ read'.cut = read.cut
  BY <1>1 DEF BoardTyped, B!NotReading
<1>3. /\ read.out = <<>> /\ read.page = 0 /\ read.round = 1 /\ read.found = 0
      /\ read.requests = 0
  BY <1>1 DEF PagesCounted
<1>4. B!Rounds' = B!Rounds /\ B!PageLimit' = B!PageLimit
  BY <1>1 DEF B!Rounds, B!PageLimit
<1>5. B!Range(board) \subseteq B!Postings
  BY <1>1, RangeIs DEF BoardTyped
<1>6. BoardTyped'
  BY <1>1, <1>2, <1>4, <1>5 DEF BoardTyped, B!NotReading
<1>7. PagesCounted'
  <2>1. Len(read'.out) <= read'.page * Size
    <3>1. Len(read'.out) = 0 /\ read'.page = 0 /\ Size \in Nat
      BY <1>2, <1>3 DEF BoardsAssumption
    <3>2. 0 * Size = 0
      BY <3>1
    <3> QED
      BY <3>1, <3>2
  <2> QED
    BY <1>1, <1>2, <1>3, <2>1 DEF PagesCounted
<1>8. NothingPassed'
  <2>1. (SoughtIn(read.round))' \subseteq Ahead'
    <3>1. (SoughtIn(read.round))' = {y \in B!Range(board) : plan.words = 0 \/ y \in Finds[1]}
      BY <1>1, <1>2, <1>3 DEF SoughtIn
    <3>2. Ahead' = {y \in B!Postings : \E k \in 1..Len(B!Found(1)) :
                      k > 0 * Size /\ B!Found(1)[k] = y}
      BY <1>1, <1>2, <1>3 DEF Ahead, B!Found
    <3>3. /\ \A y : y \in B!Range(B!Found(1)) <=>
               y \in B!Range(board) /\ (plan.words = 0 \/ y \in Finds[1])
          /\ B!Range(B!Found(1)) = {B!Found(1)[k] : k \in 1..Len(B!Found(1))}
          /\ Len(B!Found(1)) \in Nat
      BY <1>1, FoundIs DEF BoardTyped
    <3> SUFFICES ASSUME NEW y \in (SoughtIn(read.round))' PROVE y \in Ahead'
      OBVIOUS
    <3>4. y \in B!Range(B!Found(1)) /\ y \in B!Postings
      BY <1>5, <3>1, <3>3
    <3>5. PICK k \in 1..Len(B!Found(1)) : B!Found(1)[k] = y
      BY <3>3, <3>4
    <3>6. k > 0 * Size
      BY <3>3 DEF BoardsAssumption
    <3> QED
      BY <3>2, <3>4, <3>5, <3>6
  <2>2. 1..(read'.round - 1) = {}
    BY <1>2, <1>3
  <2>3. read'.stayed \subseteq B!Range(board')
    BY <1>1, <1>2
  <2> QED
    BY <2>1, <2>2, <2>3 DEF NothingPassed
<1>9. B!ReadingIsComplete'
  BY <1>2 DEF B!ReadingIsComplete
<1> QED
  BY <1>6, <1>7, <1>8, <1>9 DEF ReadingFits

\* Asking for robots.txt reads nothing.
LEMMA AskRobotsFits ==
  ASSUME BoardsAssumption, ReadingFits, NEW answer \in B!RobotsAnswers, B!AskRobots(answer)
  PROVE  ReadingFits'
<1>1. /\ BoardTyped /\ PagesCounted /\ NothingPassed /\ read.at = "robots"
      /\ board' = board /\ came' = came /\ plan' = plan /\ kept' = kept
      /\ read' = [read EXCEPT
           !.at = IF B!AllowedByRobots(answer) THEN "reading" ELSE "failed",
           !.requests = IF plan.lookup THEN @ + 1 ELSE @]
  BY DEF ReadingFits, B!AskRobots
<1>2. /\ DOMAIN read' = DOMAIN read /\ read'.at \in {"reading", "failed"}
      /\ read'.requests \in {read.requests, read.requests + 1}
      /\ read'.round = read.round /\ read'.page = read.page
      /\ read'.out = read.out /\ read'.total = read.total /\ read'.found = read.found
      /\ read'.stayed = read.stayed
      /\ read'.late = read.late /\ read'.gone = read.gone /\ read'.cut = read.cut
  BY <1>1 DEF BoardTyped, B!NotReading
<1>3. B!Rounds' = B!Rounds /\ B!PageLimit' = B!PageLimit
  BY <1>1 DEF B!Rounds, B!PageLimit
<1>4. read'.requests \in 0..MaxRequests
  BY <1>1, <1>2 DEF PagesCounted, BoardsAssumption
<1>5. BoardTyped'
  BY <1>1, <1>2, <1>3, <1>4 DEF BoardTyped, B!NotReading
<1>6. PagesCounted'
  <2>1. (B!Found(read.round))' = B!Found(read'.round)
    BY <1>1, <1>2 DEF B!Found
  <2>2. read'.found = 0 /\ Len(read'.out) = 0 /\ Len(read'.out) <= read'.page * Size
        /\ read'.found <= read'.page * Size
    BY <1>1, <1>2 DEF PagesCounted, BoardsAssumption
  <2> QED
    BY <1>2, <2>2 DEF PagesCounted
<1>7. NothingPassed'
  <2>1. Ahead' = Ahead /\ \A i : (SoughtIn(i))' = SoughtIn(i)
    BY <1>1, <1>2 DEF Ahead, SoughtIn, B!Found
  <2> QED
    BY <1>1, <1>2, <2>1 DEF NothingPassed, B!Reading, Misses
<1>8. B!ReadingIsComplete'
  BY <1>2 DEF B!ReadingIsComplete
<1> QED
  BY <1>5, <1>6, <1>7, <1>8 DEF ReadingFits

\* A reading that failed keeps nothing
LEMMA NoReadingFits ==
  ASSUME BoardsAssumption, ReadingFits, B!ReadFails \/ B!ReadBreaks
  PROVE  ReadingFits'
<1>1. /\ BoardTyped /\ PagesCounted
      /\ board' = board /\ came' = came /\ plan' = plan /\ kept' = kept
      /\ \E how \in {"failed", "broken"} : read' = [read EXCEPT !.at = how, !.out = <<>>]
  BY DEF ReadingFits, B!ReadFails, B!ReadBreaks
<1>2. /\ DOMAIN read' = DOMAIN read /\ read'.at \in {"failed", "broken"} /\ read'.out = <<>>
      /\ read'.requests = read.requests /\ read'.round = read.round /\ read'.page = read.page
      /\ read'.total = read.total /\ read'.found = read.found /\ read'.stayed = read.stayed
      /\ read'.late = read.late /\ read'.gone = read.gone /\ read'.cut = read.cut
  BY <1>1 DEF BoardTyped, B!NotReading
<1>3. B!Rounds' = B!Rounds /\ B!PageLimit' = B!PageLimit
  BY <1>1 DEF B!Rounds, B!PageLimit
<1>4. BoardTyped'
  BY <1>1, <1>2, <1>3 DEF BoardTyped, B!NotReading
<1>5. PagesCounted'
  <2>1. plan.loop = "found" /\ read.found > 0 /\ ~read.late /\ ~read.gone =>
          (Len(B!Found(read.round)))' = read.total
    BY <1>1, <1>2 DEF PagesCounted, B!Found
  <2> QED
    BY <1>1, <1>2, <2>1 DEF PagesCounted, B!Reading
<1>6. NothingPassed'
  BY <1>2 DEF NothingPassed, B!Reading
<1>7. B!ReadingIsComplete'
  BY <1>2 DEF B!ReadingIsComplete
<1> QED
  BY <1>4, <1>5, <1>6, <1>7 DEF ReadingFits

\* Every step leaves the reading in order.
LEMMA ReadingStep ==
  ASSUME BoardsAssumption, ReadingFits, [B!BoardsNext]_boardVars
  PROVE  ReadingFits'
<1>1. CASE UNCHANGED boardVars
  BY <1>1 DEF boardVars, ReadingFits, BoardTyped, PagesCounted, NothingPassed, SoughtIn, Ahead,
     Misses, B!Rounds, B!PageLimit, B!Found, B!Reading, B!ReadingIsComplete, B!Sought
<1>2. CASE B!BoardsNext
  BY <1>2, AppearsFits, GoesFits, BeginReadFits, ReadPageFits, NoReadingFits, AskRobotsFits
     DEF B!BoardsNext
<1> QED
  BY <1>1, <1>2

\* Nothing is read yet.
LEMMA ReadingInitially ==
  ASSUME BoardsAssumption, B!BoardsInit
  PROVE  ReadingFits
<1>1. /\ came \in 1..Len(Listed) /\ board = SubSeq(Listed, came + 1, Len(Listed))
      /\ plan \in B!Providers /\ read = B!NotReading /\ kept = <<>>
  BY DEF B!BoardsInit
<1>2. Len(Listed) \in Nat /\ \A k \in 1..Len(Listed) : Listed[k] \in B!Postings
  BY RangeIs DEF BoardsAssumption
<1>3. board \in Seq(B!Postings) /\ Len(board) + came <= Len(Listed)
  <2>1. board \in Seq(B!Postings)
        /\ Len(board) = IF came + 1 <= Len(Listed) THEN Len(Listed) - (came + 1) + 1 ELSE 0
    BY <1>1, <1>2, SubSeqProperties
  <2> QED
    BY <1>1, <1>2, <2>1
<1>4. PlanShape(plan)
  BY <1>1, PlansHaveShape
<1>5. B!Rounds \in Nat \ {0} /\ B!PageLimit \in Nat \ {0}
  BY <1>4 DEF B!Rounds, B!PageLimit, B!MinOf, BoardsAssumption, PlanShape
<1>6. /\ read.at = "idle" /\ read.out = <<>> /\ read.page = 0 /\ read.round = 1
      /\ read.found = 0 /\ read.total = 0 /\ read.requests = 0 /\ read.stayed = {}
      /\ read.late = FALSE /\ read.gone = FALSE /\ read.cut = FALSE
  BY <1>1 DEF B!NotReading
<1>7. BoardTyped
  <2>1. Len(kept) = 0 /\ <<>> \in Seq(B!Postings)
    BY <1>1
  <2> QED
    <3>1. DOMAIN read = DOMAIN B!NotReading /\ came \in Nat /\ plan \in B!Providers
          /\ Len(kept) <= MaxJobs
      BY <1>1, <1>2, <2>1 DEF BoardsAssumption
    <3>2. 0 \in 0..MaxRequests
      BY DEF BoardsAssumption
    <3>3. read.round \in 1..B!Rounds /\ read.page \in Nat /\ read.page < B!PageLimit
      BY <1>5, <1>6
    <3>4. /\ read.at \in {"idle", "robots", "reading", "done", "failed", "broken"}
          /\ read.out \in Seq(B!Postings) /\ read.stayed \subseteq B!Postings
      BY <1>6, <2>1
    <3>5. read.found \in Nat /\ read.total \in Nat /\ read.requests \in 0..MaxRequests
      BY <1>6, <3>2
    <3>6. read.late \in BOOLEAN /\ read.gone \in BOOLEAN /\ read.cut \in BOOLEAN
      BY <1>6
    <3> QED
      BY <1>3, <3>1, <3>3, <3>4, <3>5, <3>6, Zenon DEF BoardTyped
<1>8. PagesCounted
  BY <1>6 DEF PagesCounted, B!Reading, BoardsAssumption
<1>9. NothingPassed /\ B!ReadingIsComplete
  BY <1>6 DEF NothingPassed, B!Reading, B!ReadingIsComplete
<1> QED
  BY <1>7, <1>8, <1>9 DEF ReadingFits

LEMMA ReadingHolds == ASSUME BoardsAssumption PROVE ServicesSpec => []ReadingFits
<1>1. ServicesInit => ReadingFits
  BY ReadingInitially DEF ServicesInit
<1>2. ReadingFits /\ [ServicesNext]_servicesVars => ReadingFits'
  BY ReadingStep DEF ServicesNext, OthersRest, servicesVars, boardVars
<1> QED
  BY <1>1, <1>2, PTL DEF ServicesSpec

\* A posting that was on the board all the time is in what the sync gets: every way of
\* turning the pages (integrations/sources) stops at the last page and not before it.
THEOREM ReadingReachesTheEnd == ASSUME BoardsAssumption PROVE ServicesSpec => []ReadingIsComplete
<1>1. ReadingFits => ReadingIsComplete
  BY DEF ReadingFits, ReadingIsComplete
<1> QED
  BY <1>1, ReadingHolds, PTL

-----------------------------------------------------------------------------
(* Sources *)

\* What the user's last word leaves of a source: one of the catalog that was turned off
\* has a row that says so; one of the user's own has a row, off unless the user's word
\* was on or came while the source was being added; a source that is being added was
\* asked for, or overtaken.
KeyFits(k) ==
  /\ source[k] \in O!Rows \cup {NoSource}
  /\ asked[k] \in {"none", "on", "off"}
  /\ k \in CatalogKeys =>
       CASE asked[k] = "on" -> TRUE
         [] asked[k] = "off" -> source[k] # NoSource /\ ~source[k].on
         [] OTHER -> source[k] # NoSource => source[k].status # "none"
  /\ k \in custom =>
       /\ source[k] # NoSource
       /\ asked[k] = "on" \/ k \in overtaken \/ ~source[k].on
  /\ \A r \in Browsers : job[r].kind = "add" /\ k \in job[r].keys =>
       k \notin CatalogKeys /\ (asked[k] = "on" \/ k \in overtaken)

SourcesFit ==
  /\ custom \subseteq CustomKeys
  /\ \A r \in Browsers : job[r].kind = "add" => job[r].keys \subseteq CustomKeys
  /\ DOMAIN source = O!Keys /\ DOMAIN asked = O!Keys /\ DOMAIN job = Browsers
  /\ \A k \in O!Keys : KeyFits(k)

\* Rows of the table after a switch or a reading
LEMMA SwitchedRow ==
  ASSUME SourcesAssumption, SourcesFit, NEW keys, NEW on \in BOOLEAN, NEW k \in O!Keys
  PROVE  /\ O!SetTo(keys, on)[k] \in O!Rows \cup {NoSource}
         /\ k \notin keys => O!SetTo(keys, on)[k] = source[k]
         /\ k \in keys => O!SetTo(keys, on)[k] # NoSource /\ O!SetTo(keys, on)[k].on = on
         /\ DOMAIN O!SetTo(keys, on) = O!Keys
BY DEF SourcesAssumption, SourcesFit, KeyFits, O!SetTo, O!Rows

LEMMA HealthRow ==
  ASSUME SourcesAssumption, NEW rows, NEW k \in DOMAIN rows, rows[k] \in O!Rows \cup {NoSource},
         NEW status \in {"ok", "error"}
  PROVE  /\ O!Health(rows, k, status)[k] \in O!Rows
         /\ O!Health(rows, k, status)[k].status = status
         /\ rows[k] # NoSource => O!Health(rows, k, status)[k].on = rows[k].on
         /\ \A l \in DOMAIN rows \ {k} : O!Health(rows, k, status)[l] = rows[l]
         /\ DOMAIN O!Health(rows, k, status) = DOMAIN rows
BY DEF SourcesAssumption, O!Health, O!Rows

\* The user's word on some sources, to which their rows are set.
LEMMA TellsFits ==
  ASSUME SourcesAssumption, SourcesFit, NEW keys \in SUBSET O!Keys, NEW on \in BOOLEAN,
         O!Tells(keys, IF on THEN "on" ELSE "off"),
         source' = O!SetTo(keys, on), UNCHANGED job,
         custom' \subseteq CustomKeys, custom' \subseteq custom \cup keys
  PROVE  SourcesFit'
<1>1. /\ asked' = [k \in O!Keys |-> IF k \in keys THEN (IF on THEN "on" ELSE "off") ELSE asked[k]]
      /\ overtaken' = (overtaken \ keys) \cup
           (IF on THEN {} ELSE {k \in keys : \E r \in Browsers :
                                  job[r].kind = "add" /\ k \in job[r].keys})
  BY DEF O!Tells
<1>2. ASSUME NEW k \in O!Keys
      PROVE  KeyFits(k)'
  <2>1. /\ source'[k] \in O!Rows \cup {NoSource}
        /\ k \notin keys => source'[k] = source[k]
        /\ k \in keys => source'[k] # NoSource /\ source'[k].on = on
    BY SwitchedRow
  <2>2. KeyFits(k)
    BY DEF SourcesFit
  <2>3. CASE k \in keys
    <3>1. CASE on
      BY <1>1, <2>1, <2>2, <2>3, <3>1 DEF KeyFits
    <3>2. CASE ~on
      BY <1>1, <2>1, <2>2, <2>3, <3>2 DEF KeyFits
    <3> QED
      BY <3>1, <3>2
  <2>4. CASE k \notin keys
    <3>1. asked'[k] = asked[k] /\ source'[k] = source[k] /\ (k \in overtaken' <=> k \in overtaken)
          /\ (k \in custom' => k \in custom) /\ job' = job
      BY <1>1, <2>1, <2>4
    <3> QED
      BY <2>2, <3>1 DEF KeyFits
  <2> QED
    BY <2>3, <2>4
<1>3. DOMAIN source' = O!Keys /\ DOMAIN asked' = O!Keys
  BY <1>1 DEF O!SetTo
<1> QED
  BY <1>2, <1>3 DEF SourcesFit

LEMMA SourcesStep ==
  ASSUME SourcesAssumption, SourcesFit, [O!SourcesNext]_sourceVars
  PROVE  SourcesFit'
<1>1. CASE UNCHANGED sourceVars
  BY <1>1 DEF sourceVars, SourcesFit, KeyFits
<1>2. ASSUME NEW keys \in SUBSET O!Keys, NEW on \in BOOLEAN, O!SetEnabled(keys, on)
      PROVE  SourcesFit'
  BY <1>2, TellsFits DEF O!SetEnabled, SourcesFit
<1>3. ASSUME NEW keys \in SUBSET O!Keys, O!Import(keys)
      PROVE  SourcesFit'
  <2>1. PICK added \in SUBSET ((keys \cap CustomKeys) \ custom) :
          /\ custom' = custom \cup added
          /\ source' = O!SetTo((keys \ ((keys \cap CustomKeys) \ custom)) \cup added, TRUE)
          /\ O!Tells((keys \ ((keys \cap CustomKeys) \ custom)) \cup added, "on")
          /\ UNCHANGED job
    BY <1>3 DEF O!Import
  <2> DEFINE on == (keys \ ((keys \cap CustomKeys) \ custom)) \cup added
  <2>2. on \in SUBSET O!Keys /\ custom' \subseteq custom \cup on /\ custom' \subseteq CustomKeys
    BY <2>1 DEF SourcesFit, O!Keys
  <2>3. source' = O!SetTo(on, TRUE) /\ O!Tells(on, IF TRUE THEN "on" ELSE "off")
    BY <2>1
  <2> HIDE DEF on
  <2> QED
    BY <2>1, <2>2, <2>3, TellsFits
<1>4. ASSUME NEW k \in CustomKeys, O!DeleteCustom(k)
      PROVE  SourcesFit'
  <2>1. /\ k \in custom /\ k \in O!Keys /\ custom' = custom \ {k} /\ UNCHANGED job
        /\ source' = [source EXCEPT ![k] = NoSource] /\ k \notin CatalogKeys
        /\ asked' = [l \in O!Keys |-> IF l \in {k} THEN "off" ELSE asked[l]]
        /\ overtaken' = (overtaken \ {k}) \cup
             {l \in {k} : \E r \in Browsers : job[r].kind = "add" /\ l \in job[r].keys}
    BY <1>4 DEF O!DeleteCustom, O!Tells, O!Keys, SourcesAssumption
  <2>2. ASSUME NEW l \in O!Keys
        PROVE  KeyFits(l)'
    <3>1. KeyFits(l)
      BY DEF SourcesFit
    <3>2. CASE l = k
      BY <2>1, <3>1, <3>2 DEF SourcesFit, KeyFits
    <3>3. CASE l # k
      <4>1. asked'[l] = asked[l] /\ source'[l] = source[l] /\ (l \in overtaken' <=> l \in overtaken)
            /\ (l \in custom' => l \in custom) /\ job' = job
        BY <2>1, <3>3 DEF SourcesFit
      <4> QED
        BY <3>1, <4>1 DEF KeyFits
    <3> QED
      BY <3>2, <3>3
  <2> QED
    BY <2>1, <2>2 DEF SourcesFit
<1>5. ASSUME NEW r \in Browsers, NEW row, job' = [job EXCEPT ![r] = row], row.kind # "add",
             UNCHANGED <<custom, source, asked, overtaken>>
      PROVE  SourcesFit'
  BY <1>5 DEF SourcesFit, KeyFits
<1>6. O!NoJob.kind # "add"
  BY DEF O!NoJob
<1>7. ASSUME NEW r \in Browsers, O!JobFails(r)
      PROVE  SourcesFit'
  BY <1>5, <1>6, <1>7 DEF O!JobFails
<1>8. ASSUME NEW r \in Browsers, NEW k \in O!Keys, O!BeginTest(r, k)
      PROVE  SourcesFit'
  <2>1. [kind |-> "test", keys |-> {k}].kind # "add"
    OBVIOUS
  <2> QED
    BY <1>5, <1>8, <2>1 DEF O!BeginTest
<1>9. ASSUME NEW r \in Browsers, NEW named, O!BeginSync(r, named)
      PROVE  SourcesFit'
  <2>1. PICK keys : job' = [job EXCEPT ![r] = [kind |-> "sync", keys |-> keys]]
                    /\ UNCHANGED <<custom, source, asked, overtaken>>
    BY <1>9 DEF O!BeginSync
  <2>2. [kind |-> "sync", keys |-> keys].kind # "add"
    OBVIOUS
  <2> QED
    BY <1>5, <2>1, <2>2
<1>10. ASSUME NEW r \in Browsers, NEW k \in O!Keys, O!BeginAdd(r, k)
       PROVE  SourcesFit'
  <2>1. CASE k \in CatalogKeys
    <3>1. /\ O!Tells({k}, IF TRUE THEN "on" ELSE "off") /\ source' = O!SetTo({k}, TRUE)
          /\ UNCHANGED <<custom, job>>
      BY <1>10, <2>1 DEF O!BeginAdd
    <3> QED
      BY <3>1, TellsFits DEF SourcesFit
  <2>2. CASE k \notin CatalogKeys
    <3>1. /\ job' = [job EXCEPT ![r] = [kind |-> "add", keys |-> {k}]]
          /\ UNCHANGED <<custom, source>>
          /\ asked' = [l \in O!Keys |-> IF l \in {k} THEN "on" ELSE asked[l]]
          /\ overtaken' = overtaken \ {k}
      BY <1>10, <2>2 DEF O!BeginAdd, O!Tells
    <3>2. ASSUME NEW l \in O!Keys
          PROVE  KeyFits(l)'
      <4>1. KeyFits(l)
        BY DEF SourcesFit
      <4>2. ASSUME NEW q \in Browsers, job'[q].kind = "add", l \in job'[q].keys
            PROVE  l = k \/ (job[q].kind = "add" /\ l \in job[q].keys)
        BY <3>1, <4>2 DEF SourcesFit
      <4>3. CASE l = k
        BY <2>2, <3>1, <4>1, <4>3 DEF KeyFits
      <4>4. CASE l # k
        BY <3>1, <4>1, <4>2, <4>4 DEF KeyFits
      <4> QED
        BY <4>3, <4>4
    <3> QED
      BY <2>2, <3>1, <3>2 DEF SourcesFit, O!Keys
  <2> QED
    BY <2>1, <2>2
<1>11. ASSUME NEW r \in Browsers, O!EndAdd(r)
       PROVE  SourcesFit'
  <2>1. PICK k \in job[r].keys : /\ custom' = custom \cup {k}
                                 /\ source' = O!Health(O!SetTo({k}, TRUE), k, "ok")
    BY <1>11 DEF O!EndAdd
  <2>2. /\ job' = [job EXCEPT ![r] = O!NoJob] /\ UNCHANGED <<asked, overtaken>>
        /\ job[r].kind = "add" /\ k \in CustomKeys /\ k \in O!Keys
    BY <1>11 DEF O!EndAdd, SourcesFit, O!Keys
  <2> DEFINE rows == O!SetTo({k}, TRUE)
  <2>3. /\ DOMAIN rows = O!Keys /\ rows[k] \in O!Rows \cup {NoSource} /\ rows[k] # NoSource
        /\ \A l \in O!Keys \ {k} : rows[l] = source[l]
    <3>1. ASSUME NEW l \in O!Keys \ {k}
          PROVE  rows[l] = source[l]
      BY DEF O!SetTo
    <3>2. rows[k] = IF source[k] = NoSource THEN [on |-> TRUE, status |-> "none"]
                    ELSE [source[k] EXCEPT !.on = TRUE]
      BY <2>2 DEF O!SetTo
    <3>3. source[k] \in O!Rows \cup {NoSource} /\ NoSource \notin O!Rows
      BY <2>2 DEF SourcesAssumption, SourcesFit, KeyFits
    <3>4. DOMAIN rows = O!Keys
      BY DEF O!SetTo
    <3> HIDE DEF rows
    <3>5. rows[k] \in O!Rows
      <4>1. CASE source[k] = NoSource
        BY <3>2, <4>1 DEF O!Rows
      <4>2. CASE source[k] # NoSource
        BY <3>2, <3>3, <4>2 DEF O!Rows
      <4> QED
        BY <4>1, <4>2
    <3> QED
      BY <3>1, <3>3, <3>4, <3>5
  <2>9. source' = O!Health(rows, k, "ok")
    BY <2>1
  <2> HIDE DEF rows
  <2>4. /\ DOMAIN source' = O!Keys /\ source'[k] \in O!Rows
        /\ \A l \in O!Keys \ {k} : source'[l] = source[l]
    BY <2>2, <2>3, <2>9, HealthRow
  <2>5. asked[k] = "on" \/ k \in overtaken
    BY <2>2 DEF SourcesFit, KeyFits
  <2>6. ASSUME NEW l \in O!Keys
        PROVE  KeyFits(l)'
    <3>1. KeyFits(l)
      BY DEF SourcesFit
    <3>2. ASSUME NEW q \in Browsers, job'[q].kind = "add", l \in job'[q].keys
          PROVE  job[q].kind = "add" /\ l \in job[q].keys
      BY <2>2, <3>2 DEF SourcesFit, O!NoJob
    <3>3. CASE l = k
      <4>1. k \notin CatalogKeys /\ source'[k] # NoSource
        BY <2>2, <2>4 DEF SourcesAssumption
      <4> QED
        BY <2>1, <2>2, <2>4, <2>5, <3>1, <3>2, <3>3, <4>1 DEF KeyFits
    <3>4. CASE l # k
      BY <2>1, <2>2, <2>4, <3>1, <3>2, <3>4 DEF KeyFits
    <3> QED
      BY <3>3, <3>4
  <2>7. \A q \in Browsers : job'[q].kind = "add" => job'[q].keys \subseteq CustomKeys
    BY <2>2 DEF SourcesFit, O!NoJob
  <2> QED
    BY <2>1, <2>2, <2>4, <2>6, <2>7 DEF SourcesFit
<1>12. ASSUME NEW r \in Browsers, NEW failed, O!EndRead(r, failed)
       PROVE  SourcesFit'
  <2>1. /\ UNCHANGED <<custom, asked, overtaken>> /\ job' = [job EXCEPT ![r] = O!NoJob]
        /\ source' = [k \in O!Keys |-> IF k \in job[r].keys
             THEN O!Health(source, k, IF k \in failed THEN "error" ELSE "ok")[k] ELSE source[k]]
    BY <1>12 DEF O!EndRead
  <2>2. ASSUME NEW k \in O!Keys
        PROVE  \/ source'[k] = source[k]
               \/ /\ source'[k] \in O!Rows /\ source'[k].status # "none"
                  /\ source[k] # NoSource => source'[k].on = source[k].on
    <3> DEFINE status == IF k \in failed THEN "error" ELSE "ok"
    <3>1. k \in DOMAIN source /\ source[k] \in O!Rows \cup {NoSource} /\ status \in {"ok", "error"}
      BY DEF SourcesFit, KeyFits
    <3>2. CASE k \in job[r].keys
      <4>1. source'[k] = O!Health(source, k, status)[k]
        BY <2>1, <3>2
      <4> HIDE DEF status
      <4> QED
        BY <3>1, <4>1, HealthRow
    <3> QED
      BY <2>1, <3>2
  <2>3. ASSUME NEW q \in Browsers, job'[q].kind = "add"
        PROVE  job[q].kind = "add" /\ job'[q].keys = job[q].keys
    BY <2>1, <2>3 DEF SourcesFit, O!NoJob
  <2>4. ASSUME NEW k \in O!Keys
        PROVE  KeyFits(k)'
    <3>1. KeyFits(k)
      BY DEF SourcesFit
    <3>2. CASE source'[k] = source[k]
      BY <2>1, <2>3, <3>1, <3>2 DEF KeyFits
    <3>3. CASE /\ source'[k] \in O!Rows /\ source'[k].status # "none"
               /\ source[k] # NoSource => source'[k].on = source[k].on
      <4>1. source'[k] # NoSource
        BY <3>3 DEF SourcesAssumption
      <4> QED
        BY <2>1, <2>3, <3>1, <3>3, <4>1 DEF KeyFits
    <3> QED
      BY <2>2, <3>2, <3>3
  <2> QED
    BY <2>1, <2>3, <2>4 DEF SourcesFit
<1> QED
  BY <1>1, <1>2, <1>3, <1>4, <1>7, <1>8, <1>9, <1>10, <1>11, <1>12
     DEF O!SourcesNext, O!UserOnSources, O!sourceVars, sourceVars

\* A source is on because the user's last word was so, because it is one of the catalog
\* that was only tested, or because it was turned off while its own addition was under
\* way (sources.py, set_enabled, record_health and add_custom).
THEOREM OffStands == ASSUME SourcesAssumption PROVE ServicesSpec => []OffStaysOff
<1>1. ServicesInit => SourcesFit
  BY DEF ServicesInit, O!SourcesInit, SourcesFit, KeyFits, O!NoJob
<1>2. SourcesFit /\ [ServicesNext]_servicesVars => SourcesFit'
  BY SourcesStep DEF ServicesNext, OthersRest, servicesVars, sourceVars
<1>3. SourcesFit => OffStaysOff
  <2> SUFFICES ASSUME SourcesFit, NEW k \in O!Keys, O!Enabled(k)
               PROVE  \/ asked[k] = "on"
                      \/ asked[k] = "none" /\ source[k] # NoSource /\ source[k].status # "none"
                      \/ k \in overtaken
    BY DEF OffStaysOff, O!OffStaysOff
  <2>1. KeyFits(k)
    BY DEF SourcesFit
  <2> QED
    BY <2>1 DEF KeyFits, O!Enabled, O!Available, SourcesAssumption, SourcesFit
<1> QED
  BY <1>1, <1>2, <1>3, PTL DEF ServicesSpec

-----------------------------------------------------------------------------
(* Profile *)

EntriesTyped(es) ==
  /\ DOMAIN es = P!EntryIds
  /\ \A e \in P!EntryIds : DOMAIN es[e] = {"state", "edited"}

DeletionTyped == DOMAIN deletion = {"of", "picked", "at", "counted"}

\* What a request picked was pending then; the file that is to go is not one of the
\* documents that were counted.
ProfileFits ==
  /\ EntriesTyped(entry)
  /\ rereading.of \in P!Origins
  /\ \A p \in rereading.picked \cup deletion.picked : p[2].state = "pending"
  /\ DeletionTyped
  /\ deletion.at = "file" => \A v \in deletion.counted : Bytes[v] # Bytes[deletion.of]

\* Reading a document adds entries; those that are there, in whatever state, stay.
LEMMA ExtractedKeeps ==
  ASSUME NEW es, EntriesTyped(es), NEW u \in P!Origins
  PROVE  /\ EntriesTyped(P!Extracted(es, u))
         /\ \A e \in P!EntryIds : es[e].state # "none" => P!Extracted(es, u)[e] = es[e]
<1>1. ASSUME NEW e \in P!EntryIds, e[1] = u, es[e].state # "none"
      PROVE  P!Has(es, u, e[2])
  <2>1. e = <<u, e[2]>> /\ u \in P!Mates(u)
    BY <1>1 DEF P!EntryIds, P!Mates
  <2> QED
    BY <1>1, <2>1 DEF P!Has
<1>2. ASSUME NEW e \in P!EntryIds
      PROVE  /\ DOMAIN P!Extracted(es, u)[e] = {"state", "edited"}
             /\ es[e].state # "none" => P!Extracted(es, u)[e] = es[e]
  <2>1. CASE e[1] = u /\ e[2] \in Says[u] /\ ~P!Has(es, u, e[2])
    BY <1>1, <2>1 DEF P!Extracted
  <2>2. CASE ~(e[1] = u /\ e[2] \in Says[u] /\ ~P!Has(es, u, e[2]))
    BY <2>2 DEF P!Extracted, EntriesTyped
  <2> QED
    BY <2>1, <2>2
<1>3. DOMAIN P!Extracted(es, u) = P!EntryIds
  BY DEF P!Extracted
<1> QED
  BY <1>2, <1>3 DEF EntriesTyped

\* A request picks entries that are pending.
LEMMA PicksPending ==
  ASSUME NEW u
  PROVE  /\ \A p \in P!Replaced(u) : p[2].state = "pending"
         /\ \A p \in {<<e, entry[e]>> : e \in {x \in P!EntryIds :
                        x[1] = u /\ entry[x].state = "pending"}} : p[2].state = "pending"
BY DEF P!Replaced

\* What a step may do to the entries.
Reviewed(es, e) == es[e].state \in {"accepted", "rejected"}
PickedBefore(e) ==
  \E p \in rereading.picked \cup deletion.picked : p[1] = e /\ p[2].state = "pending"
EntriesStay ==
  /\ EntriesTyped(entry')
  /\ \A e \in P!EntryIds : Reviewed(entry, e) /\ ~Reviewed(entry', e) =>
       P!RemovedByUser \/ P!ReviewEntry(e, "pending") \/ PickedBefore(e)

LEMMA EntriesStayInStep ==
  ASSUME ProfileFits, P!ProfileNext
  PROVE  EntriesStay
<1> USE DEF ProfileFits
<1>1. ASSUME UNCHANGED entry
      PROVE  EntriesStay
  BY <1>1 DEF EntriesStay, Reviewed
<1>2. ASSUME EntriesTyped(entry'), P!RemovedByUser
      PROVE  EntriesStay
  BY <1>2 DEF EntriesStay
<1>3. CASE P!Reread
  <2> DEFINE picked == {p[1] : p \in rereading.picked}
             left   == [e \in P!EntryIds |-> IF e \in picked THEN P!NoEntry ELSE entry[e]]
  <2>1. EntriesTyped(left)
    BY DEF EntriesTyped, P!NoEntry
  <2>2. entry' = entry \/ (rereading.of \in P!Origins /\ entry' = P!Extracted(left, rereading.of))
    BY <1>3 DEF P!Reread
  <2>3. ASSUME NEW e \in P!EntryIds
        PROVE  left[e] = entry[e] \/ PickedBefore(e)
    BY DEF PickedBefore
  <2> HIDE DEF left
  <2> QED
    BY <1>1, <2>1, <2>2, <2>3, ExtractedKeeps DEF EntriesStay, Reviewed
<1>4. CASE P!DeleteCommit
  <2>1. entry' = [e \in P!EntryIds |->
                    IF e \in {p[1] : p \in deletion.picked} THEN P!NoEntry ELSE entry[e]]
    BY <1>4 DEF P!DeleteCommit
  <2>2. ASSUME NEW e \in P!EntryIds
        PROVE  entry'[e] = entry[e] \/ (entry'[e] = P!NoEntry /\ PickedBefore(e))
    BY <2>1 DEF PickedBefore
  <2> QED
    BY <2>1, <2>2 DEF EntriesStay, EntriesTyped, Reviewed, P!NoEntry
<1>5. ASSUME NEW u \in Uploads, NEW bundle \in P!Bundles, P!ImportCase(u, bundle)
      PROVE  EntriesStay
  <2>1. /\ entry' = [e \in P!EntryIds |-> IF e[1] = u THEN bundle.entries[e[2]] ELSE entry[e]]
        /\ \A w \in Wordings : entry[<<u, w>>].state = "none"
    BY <1>5 DEF P!ImportCase, P!Reads
  <2>2. ASSUME NEW e \in P!EntryIds, e[1] = u
        PROVE  entry[e].state = "none" /\ DOMAIN bundle.entries[e[2]] = {"state", "edited"}
    <3>1. e[2] \in Wordings /\ e = <<u, e[2]>>
      BY <2>2 DEF P!EntryIds
    <3>2. bundle.entries[e[2]] \in {P!NoEntry} \cup [state : P!ReviewStates, edited : BOOLEAN]
      BY <3>1 DEF P!Bundles
    <3> QED
      BY <2>1, <3>1, <3>2 DEF P!NoEntry
  <2> QED
    BY <2>1, <2>2 DEF EntriesStay, EntriesTyped, Reviewed
<1>6. ASSUME NEW w \in Wordings, P!CreateEntry(w)
      PROVE  EntriesStay
  <2>1. <<ByHand, w>> \in P!EntryIds
    BY DEF P!EntryIds, P!Origins
  <2> QED
    BY <1>6, <2>1 DEF P!CreateEntry, EntriesStay, EntriesTyped, Reviewed
<1>7. ASSUME NEW e \in P!EntryIds, NEW s \in P!ReviewStates, P!ReviewEntry(e, s)
      PROVE  EntriesStay
  <2>1. entry' = [entry EXCEPT ![e].state = s] /\ EntriesTyped(entry')
    BY <1>7 DEF P!ReviewEntry, EntriesTyped
  <2>2. CASE s = "pending"
    <3>1. P!ReviewEntry(e, "pending")
      BY <1>7, <2>2
    <3>2. \A f \in P!EntryIds \ {e} : entry'[f] = entry[f]
      BY <2>1 DEF EntriesTyped
    <3> QED
      BY <2>1, <3>1, <3>2 DEF EntriesStay, Reviewed
  <2>3. CASE s \in {"accepted", "rejected"}
    BY <2>1, <2>3 DEF EntriesStay, EntriesTyped, Reviewed
  <2> QED
    BY <2>2, <2>3 DEF P!ReviewStates
<1>8. ASSUME NEW e \in P!EntryIds, P!EditEntry(e)
      PROVE  EntriesStay
  BY <1>8 DEF P!EditEntry, EntriesStay, EntriesTyped, Reviewed
<1>9. CASE P!RemovedByUser
  <2>1. ASSUME NEW e \in P!EntryIds, P!DeleteEntry(e)
        PROVE  EntriesTyped(entry')
    BY <2>1 DEF P!DeleteEntry, EntriesTyped, P!NoEntry
  <2>2. ASSUME NEW e \in P!EntryIds, NEW f \in P!EntryIds, P!MergeEntries(e, f)
        PROVE  EntriesTyped(entry')
    BY <2>2 DEF P!MergeEntries, EntriesTyped, P!NoEntry
  <2>3. ASSUME NEW gone, NEW account, P!DeleteCase(gone, account)
        PROVE  EntriesTyped(entry')
    BY <2>3 DEF P!DeleteCase, EntriesTyped, P!NoEntry
  <2> QED
    BY <1>2, <1>9, <2>1, <2>2, <2>3 DEF P!RemovedByUser
<1>10. ASSUME NEW u \in Uploads, NEW s, P!SaveExtraction(u, s)
       PROVE  EntriesStay
  <2>1. u \in P!Origins /\ (entry' = entry \/ entry' = P!Extracted(entry, u))
    BY <1>10 DEF P!SaveExtraction, P!Origins
  <2> QED
    BY <1>1, <2>1, ExtractedKeeps DEF EntriesStay, Reviewed
<1>11. ASSUME NEW u \in Uploads,
              \/ P!UploadPut(u) \/ P!UploadCommit(u) \/ P!UploadFails(u)
              \/ P!RereadPick(u) \/ (\E b \in BOOLEAN : P!DeletePick(u, b))
              \/ P!ReadDocument(u) \/ P!ReadingCut(u)
       PROVE  EntriesStay
  BY <1>1, <1>11 DEF P!UploadPut, P!UploadCommit, P!UploadFails, P!RereadPick,
     P!DeletePick, P!ReadDocument, P!ReadingCut
<1>12. CASE P!DeleteFile
  BY <1>1, <1>12 DEF P!DeleteFile
<1>13. ASSUME NEW b \in P!Contents, P!Render(b) \/ P!UnlinkRendered(b)
       PROVE  EntriesStay
  BY <1>1, <1>13 DEF P!Render, P!UnlinkRendered
<1> QED
  BY <1>3, <1>4, <1>5, <1>6, <1>7, <1>8, <1>9, <1>10, <1>11, <1>12, <1>13
     DEF P!ProfileNext, P!UserOnProfile, P!ReadingStep, P!RenderingStep

LEMMA ProfileStep ==
  ASSUME ProfileFits, [P!ProfileNext]_profileVars
  PROVE  ProfileFits'
<1>1. CASE UNCHANGED profileVars
  BY <1>1 DEF profileVars, ProfileFits, EntriesTyped, DeletionTyped
<1>2. ASSUME P!ProfileNext, UNCHANGED <<rereading, deletion>>
      PROVE  ProfileFits'
  BY <1>2, EntriesStayInStep DEF ProfileFits, EntriesStay, DeletionTyped
<1>3. ASSUME NEW u \in Uploads, P!RereadPick(u)
      PROVE  ProfileFits'
  <2>1. /\ rereading' = [of |-> u, picked |-> P!Replaced(u)] /\ UNCHANGED <<entry, deletion>>
    BY <1>3 DEF P!RereadPick
  <2> QED
    BY <2>1, PicksPending DEF ProfileFits, P!Origins, DeletionTyped, EntriesTyped
<1>4. ASSUME NEW u \in Uploads, NEW b \in BOOLEAN, P!DeletePick(u, b)
      PROVE  ProfileFits'
  <2> DEFINE pending == {<<e, entry[e]>> : e \in {x \in P!EntryIds :
                           x[1] = u /\ entry[x].state = "pending"}}
  <2>1. /\ deletion'.at = "picked" /\ DeletionTyped' /\ deletion'.picked \in {pending, {}}
        /\ UNCHANGED <<entry, rereading>>
    BY <1>4 DEF P!DeletePick, P!NoDeletion, DeletionTyped
  <2>2. \A p \in pending : p[2].state = "pending"
    OBVIOUS
  <2> HIDE DEF pending
  <2> QED
    BY <2>1, <2>2 DEF ProfileFits, EntriesTyped
<1>5. CASE P!Reread
  <2>1. /\ P!ProfileNext /\ UNCHANGED deletion
        /\ rereading' = [of |-> ByHand, picked |-> {}]
    BY <1>5 DEF P!Reread, P!NoRereading, P!ProfileNext, P!UserOnProfile
  <2> QED
    BY <2>1, EntriesStayInStep DEF ProfileFits, EntriesStay, P!Origins, DeletionTyped
<1>6. CASE P!DeleteCommit
  <2>1. P!ProfileNext /\ UNCHANGED rereading
    BY <1>6 DEF P!DeleteCommit, P!ProfileNext, P!UserOnProfile
  <2>2. EntriesTyped(entry')
    BY <2>1, EntriesStayInStep DEF EntriesStay
  <2>3. CASE P!StillUsed(deletion.of) = {}
    <3>1. deletion' = [deletion EXCEPT !.at = "file", !.picked = {},
                         !.counted = {v \in Uploads \ {deletion.of} : P!Row(v)}]
      BY <1>6, <2>3 DEF P!DeleteCommit
    <3>2. \A v \in Uploads \ {deletion.of} : P!Row(v) => Bytes[v] # Bytes[deletion.of]
      BY <2>3 DEF P!StillUsed
    <3> QED
      BY <2>1, <2>2, <3>1, <3>2 DEF ProfileFits, DeletionTyped
  <2>4. CASE P!StillUsed(deletion.of) # {}
    <3>1. deletion' = P!NoDeletion
      BY <1>6, <2>4 DEF P!DeleteCommit
    <3> QED
      BY <2>1, <2>2, <3>1 DEF ProfileFits, P!NoDeletion, DeletionTyped
  <2> QED
    BY <2>3, <2>4
<1>7. CASE P!DeleteFile
  <2>1. UNCHANGED <<entry, rereading>> /\ deletion' = P!NoDeletion
    BY <1>7 DEF P!DeleteFile
  <2> QED
    BY <2>1 DEF ProfileFits, P!NoDeletion, DeletionTyped, EntriesTyped
<1> QED
  <2>1. CASE P!ReadingStep
    BY <1>2, <2>1 DEF P!ProfileNext, P!ReadingStep, P!ReadDocument, P!ReadingCut,
       P!SaveExtraction
  <2>2. CASE P!RemovedByUser
    BY <1>2, <2>2 DEF P!ProfileNext, P!UserOnProfile, P!RemovedByUser, P!DeleteEntry,
       P!MergeEntries, P!DeleteCase
  <2>3. CASE P!UserOnProfile
    BY <1>2, <1>3, <1>4, <1>5, <1>6, <1>7, <2>2, <2>3 DEF P!ProfileNext, P!UserOnProfile,
       P!UploadPut, P!UploadCommit, P!UploadFails, P!ImportCase, P!CreateEntry, P!EditEntry,
       P!ReviewEntry, P!UnlinkRendered
  <2>4. CASE P!RenderingStep
    BY <1>2, <2>4 DEF P!ProfileNext, P!RenderingStep, P!Render
  <2> QED
    BY <1>1, <2>1, <2>3, <2>4 DEF P!ProfileNext

LEMMA ProfileHolds == ServicesSpec => []ProfileFits
<1>1. ServicesInit => ProfileFits
  BY DEF ServicesInit, P!ProfileInit, ProfileFits, EntriesTyped, P!NoEntry, P!NoRereading,
     P!NoDeletion, DeletionTyped, P!Origins
<1>2. ProfileFits /\ [ServicesNext]_servicesVars => ProfileFits'
  BY ProfileStep DEF ServicesNext, OthersRest, servicesVars, profileVars
<1> QED
  BY <1>1, <1>2, PTL DEF ServicesSpec

\* An entry the user accepted or rejected goes, or is pending again, only by the user's
\* hand (who removes it, or puts it back), or by a request that had picked it while it was
\* pending (profile.py, documents.py reread and delete_document).
THEOREM ReviewsStand == ServicesSpec => ReviewedStays
<1>1. ProfileFits /\ [ServicesNext]_servicesVars =>
        [entry' # entry => \A e \in P!EntryIds :
           /\ entry[e].state \in {"accepted", "rejected"}
           /\ entry'[e].state \notin {"accepted", "rejected"}
           => \/ P!RemovedByUser \/ P!ReviewEntry(e, "pending")
              \/ \E p \in rereading.picked \cup deletion.picked :
                   p[1] = e /\ p[2].state = "pending"]_profileVars
  <2> SUFFICES ASSUME ProfileFits, P!ProfileNext
               PROVE  \A e \in P!EntryIds :
                        /\ entry[e].state \in {"accepted", "rejected"}
                        /\ entry'[e].state \notin {"accepted", "rejected"}
                        => P!RemovedByUser \/ P!ReviewEntry(e, "pending") \/ PickedBefore(e)
    BY DEF ServicesNext, OthersRest, servicesVars, profileVars, PickedBefore
  <2> QED
    BY EntriesStayInStep DEF EntriesStay, Reviewed
<1> QED
  BY <1>1, ProfileHolds, PTL DEF ServicesSpec, ReviewedStays, P!ReviewedStays, profileVars,
     P!profileVars

\* Who may miss a file that goes: a document a deletion did not count, and who has the
\* bytes of a generated document.
MayMiss(b) ==
  /\ \A u \in Uploads :
       Bytes[u] = b /\ document[u] # "none" /\ document'[u] # "none" =>
         \/ deletion.at = "file" /\ u \notin deletion.counted
         \/ P!UnlinkRendered(b)
  /\ rendering'[b] = "listed" =>
       \/ deletion.at = "file" /\ Bytes[deletion.of] = b
       \/ P!UnlinkRendered(b)

\* What a step does to the files.
LEMMA FilesStay ==
  ASSUME ProfileFits, P!ProfileTypeOK, P!ProfileNext, NEW b \in files \ files'
  PROVE  MayMiss(b)
<1>1. ASSUME files \subseteq files'
      PROVE  FALSE
  BY <1>1
<1>2. CASE P!DeleteFile
  <2>1. deletion.at = "file" /\ b = Bytes[deletion.of]
    BY <1>2 DEF P!DeleteFile
  <2> QED
    BY <2>1 DEF ProfileFits, MayMiss
<1>3. ASSUME NEW c \in P!Contents, P!UnlinkRendered(c)
      PROVE  MayMiss(b)
  <2>1. b = c
    BY <1>3 DEF P!UnlinkRendered
  <2> QED
    BY <1>3, <2>1 DEF MayMiss
<1>4. ASSUME NEW gone, NEW account \in BOOLEAN, P!DeleteCase(gone, account),
             account => gone = P!Origins
      PROVE  MayMiss(b)
  <2>1. CASE account
    <3>1. \A u \in Uploads : document'[u] = "none"
      BY <1>4, <2>1 DEF P!DeleteCase, P!Origins
    <3>2. b \in P!Contents => rendering'[b] = "none"
      BY <1>4, <2>1 DEF P!DeleteCase, P!Origins
    <3> QED
      BY <3>1, <3>2 DEF MayMiss, P!ProfileTypeOK
  <2>2. CASE ~account
    BY <1>1, <1>4, <2>2 DEF P!DeleteCase
  <2> QED
    BY <2>1, <2>2
<1>5. CASE P!ReadingStep
  BY <1>1, <1>5 DEF P!ReadingStep, P!ReadDocument, P!ReadingCut, P!SaveExtraction
<1>6. CASE P!RemovedByUser
  BY <1>1, <1>4, <1>6 DEF P!RemovedByUser, P!DeleteEntry, P!MergeEntries
<1>7. CASE P!RenderingStep
  BY <1>1, <1>7 DEF P!RenderingStep, P!Render
<1> QED
  BY <1>1, <1>2, <1>3, <1>5, <1>6, <1>7 DEF P!ProfileNext, P!UserOnProfile, P!UploadPut,
     P!UploadCommit, P!UploadFails, P!ImportCase, P!RereadPick, P!DeletePick, P!Reread,
     P!DeleteCommit, P!CreateEntry, P!EditEntry, P!ReviewEntry

-----------------------------------------------------------------------------
(* Types: sources *)

Jobs == [kind : {"none", "add", "test", "sync"}, keys : SUBSET O!Keys]

\* What goes out to a site to be added is the user's own.
SourcesTyped ==
  /\ O!SourcesTypeOK
  /\ job \in [Browsers -> Jobs]
  /\ \A r \in Browsers : job[r].kind = "add" => job[r].keys \subseteq CustomKeys

\* The table after a switch or a reading is one of the table's rows.
LEMMA SourceRows ==
  ASSUME NEW rows \in [O!Keys -> O!Rows \cup {NoSource}]
  PROVE  /\ \A keys, on : on \in BOOLEAN /\ rows = source =>
              O!SetTo(keys, on) \in [O!Keys -> O!Rows \cup {NoSource}]
         /\ \A k \in O!Keys, status \in {"none", "ok", "error"} :
              O!Health(rows, k, status) \in [O!Keys -> O!Rows \cup {NoSource}]
<1>1. ASSUME NEW keys, NEW on \in BOOLEAN, rows = source
      PROVE  O!SetTo(keys, on) \in [O!Keys -> O!Rows \cup {NoSource}]
  <2>1. ASSUME NEW k \in O!Keys, rows[k] # NoSource
        PROVE  [rows[k] EXCEPT !.on = on] \in O!Rows
    BY <2>1 DEF O!Rows
  <2>2. [on |-> on, status |-> "none"] \in O!Rows
    BY DEF O!Rows
  <2> QED
    BY <1>1, <2>1, <2>2, Zenon DEF O!SetTo
<1>2. ASSUME NEW k \in O!Keys, NEW status \in {"none", "ok", "error"}
      PROVE  O!Health(rows, k, status) \in [O!Keys -> O!Rows \cup {NoSource}]
  BY DEF O!Health, O!Rows
<1> QED
  BY <1>1, <1>2

LEMMA TellsTyped ==
  ASSUME O!SourcesTypeOK, NEW keys \in SUBSET O!Keys, NEW word \in {"on", "off"},
         O!Tells(keys, word), \A r \in Browsers : job[r].kind = "add" => job[r].keys \subseteq CustomKeys
  PROVE  asked' \in [O!Keys -> {"none", "on", "off"}] /\ overtaken' \subseteq CustomKeys
BY DEF O!Tells, O!SourcesTypeOK

LEMMA SourcesTypesStep ==
  ASSUME SourcesTyped, [O!SourcesNext]_sourceVars
  PROVE  SourcesTyped'
<1> DEFINE Table == [O!Keys -> O!Rows \cup {NoSource}]
<1>1. /\ custom \subseteq CustomKeys /\ source \in Table
      /\ asked \in [O!Keys -> {"none", "on", "off"}] /\ overtaken \subseteq CustomKeys
      /\ job \in [Browsers -> Jobs] /\ CustomKeys \subseteq O!Keys /\ CatalogKeys \subseteq O!Keys
      /\ \A r \in Browsers : job[r].kind = "add" => job[r].keys \subseteq CustomKeys
  BY DEF SourcesTyped, O!SourcesTypeOK, O!Keys
<1>2. O!NoJob \in Jobs /\ O!NoJob.kind = "none"
  BY DEF O!NoJob, Jobs
\* What is left to show
<1> DEFINE Rest == /\ custom' \subseteq CustomKeys /\ source' \in Table
                   /\ asked' \in [O!Keys -> {"none", "on", "off"}] /\ overtaken' \subseteq CustomKeys
                   /\ job' \in [Browsers -> Jobs]
                   /\ \A r \in Browsers : job'[r].kind = "add" => job'[r].keys \subseteq CustomKeys
<1>3. Rest => SourcesTyped'
  BY DEF SourcesTyped, O!SourcesTypeOK, Jobs
<1>4. \A r \in Browsers : job' = [job EXCEPT ![r] = O!NoJob] =>
        /\ job' \in [Browsers -> Jobs]
        /\ \A q \in Browsers : job'[q].kind = "add" => job'[q].keys \subseteq CustomKeys
  BY <1>1, <1>2
<1>5. \A keys, on : on \in BOOLEAN => O!SetTo(keys, on) \in Table
  BY <1>1, SourceRows
<1>6. \A rows \in Table : \A k \in O!Keys, status \in {"none", "ok", "error"} :
        O!Health(rows, k, status) \in Table
  BY SourceRows
<1>7. ASSUME NEW keys \in SUBSET O!Keys, NEW word \in {"on", "off"}, O!Tells(keys, word)
      PROVE  asked' \in [O!Keys -> {"none", "on", "off"}] /\ overtaken' \subseteq CustomKeys
  BY <1>1, <1>7, TellsTyped DEF SourcesTyped
<1> SUFFICES Rest
  BY <1>3
<1> HIDE DEF Table
<1>8. CASE UNCHANGED sourceVars
  BY <1>1, <1>8 DEF sourceVars
<1>9. ASSUME NEW keys \in SUBSET O!Keys, NEW on \in BOOLEAN, O!SetEnabled(keys, on)
      PROVE  Rest
  <2>1. source' = O!SetTo(keys, on) /\ O!Tells(keys, IF on THEN "on" ELSE "off")
        /\ UNCHANGED <<custom, job>>
    BY <1>9 DEF O!SetEnabled
  <2> QED
    BY <1>1, <1>5, <1>7, <2>1
<1>10. ASSUME NEW r \in Browsers, NEW k \in O!Keys, O!BeginAdd(r, k)
       PROVE  Rest
  <2>1. {k} \in SUBSET O!Keys /\ O!Tells({k}, "on") /\ custom' = custom
    BY <1>10 DEF O!BeginAdd
  <2>2. CASE k \in CatalogKeys
    BY <1>1, <1>5, <1>7, <1>10, <2>1, <2>2 DEF O!BeginAdd
  <2>3. CASE k \notin CatalogKeys
    <3>1. /\ job' = [job EXCEPT ![r] = [kind |-> "add", keys |-> {k}]] /\ source' = source
          /\ k \in CustomKeys
      BY <1>10, <2>3 DEF O!BeginAdd, O!Keys
    <3>2. [kind |-> "add", keys |-> {k}] \in Jobs
      BY DEF Jobs
    <3> QED
      BY <1>1, <1>7, <2>1, <3>1, <3>2
  <2> QED
    BY <2>2, <2>3
<1>11. ASSUME NEW r \in Browsers, O!EndAdd(r)
       PROVE  Rest
  <2>1. PICK k \in job[r].keys :
          custom' = custom \cup {k} /\ source' = O!Health(O!SetTo({k}, TRUE), k, "ok")
    BY <1>11 DEF O!EndAdd
  <2>2. k \in CustomKeys /\ job' = [job EXCEPT ![r] = O!NoJob] /\ UNCHANGED <<asked, overtaken>>
    BY <1>1, <1>11, <2>1 DEF O!EndAdd
  <2>3. source' \in Table
    BY <1>1, <1>5, <1>6, <2>1, <2>2
  <2> QED
    BY <1>1, <1>4, <2>1, <2>2, <2>3
<1>12. ASSUME NEW r \in Browsers, O!JobFails(r)
       PROVE  Rest
  BY <1>1, <1>4, <1>12 DEF O!JobFails
<1>13. ASSUME NEW keys \in SUBSET O!Keys, O!Import(keys)
       PROVE  Rest
  <2>1. PICK added \in SUBSET ((keys \cap CustomKeys) \ custom) :
          LET on == (keys \ ((keys \cap CustomKeys) \ custom)) \cup added IN
            /\ custom' = custom \cup added
            /\ source' = O!SetTo(on, TRUE)
            /\ O!Tells(on, "on")
            /\ UNCHANGED job
    BY <1>13 DEF O!Import
  <2> QED
    BY <1>1, <1>5, <1>7, <2>1
<1>14. ASSUME NEW k \in CustomKeys, O!DeleteCustom(k)
       PROVE  Rest
  <2>1. /\ custom' = custom \ {k} /\ source' = [source EXCEPT ![k] = NoSource]
        /\ O!Tells({k}, "off") /\ job' = job
    BY <1>14 DEF O!DeleteCustom
  <2>2. source' \in Table
    BY <1>1, <2>1 DEF Table
  <2>3. {k} \in SUBSET O!Keys
    BY <1>1
  <2> QED
    BY <1>1, <1>7, <2>1, <2>2, <2>3
<1>15. ASSUME NEW r \in Browsers, NEW kind \in {"test", "sync"}, NEW keys \in SUBSET O!Keys,
              job' = [job EXCEPT ![r] = [kind |-> kind, keys |-> keys]],
              UNCHANGED <<custom, source, asked, overtaken>>
       PROVE  Rest
  <2>1. [kind |-> kind, keys |-> keys] \in Jobs
    BY DEF Jobs
  <2> QED
    BY <1>1, <1>15, <2>1
<1>16. ASSUME NEW r \in Browsers, NEW k \in O!Keys, O!BeginTest(r, k)
       PROVE  Rest
  <2>1. /\ job' = [job EXCEPT ![r] = [kind |-> "test", keys |-> {k}]]
        /\ UNCHANGED <<custom, source, asked, overtaken>> /\ {k} \in SUBSET O!Keys
    BY <1>16 DEF O!BeginTest
  <2> HIDE DEF Rest
  <2> QED
    BY <1>15, <2>1
<1>17. ASSUME NEW r \in Browsers, NEW named \in SUBSET O!Keys, O!BeginSync(r, named)
       PROVE  Rest
  <2> DEFINE keys == {k \in (IF named = {} THEN O!Available ELSE named) : O!Enabled(k)}
  <2>1. keys \in SUBSET O!Keys
    BY <1>1 DEF O!Available
  <2>2. /\ job' = [job EXCEPT ![r] = [kind |-> "sync", keys |-> keys]]
        /\ UNCHANGED <<custom, source, asked, overtaken>>
    BY <1>17 DEF O!BeginSync
  <2> HIDE DEF keys
  <2> QED
    BY <1>15, <2>1, <2>2
<1>18. ASSUME NEW r \in Browsers, NEW failed \in SUBSET O!Keys, O!EndRead(r, failed)
       PROVE  Rest
  <2>1. source' = [k \in O!Keys |->
          IF k \in job[r].keys
            THEN O!Health(source, k, IF k \in failed THEN "error" ELSE "ok")[k] ELSE source[k]]
        /\ job' = [job EXCEPT ![r] = O!NoJob] /\ UNCHANGED <<custom, asked, overtaken>>
    BY <1>18 DEF O!EndRead
  <2>2. \A k \in O!Keys :
          O!Health(source, k, IF k \in failed THEN "error" ELSE "ok")[k] \in O!Rows \cup {NoSource}
    BY <1>1, <1>6 DEF Table
  <2>3. source' \in Table
    BY <1>1, <2>1, <2>2 DEF Table
  <2> QED
    BY <1>1, <1>4, <2>1, <2>3
<1> QED
  BY <1>8, <1>9, <1>10, <1>11, <1>12, <1>13, <1>14, <1>16, <1>17, <1>18
     DEF O!SourcesNext, O!UserOnSources

LEMMA SourcesInitially == O!SourcesInit => SourcesTyped
BY DEF O!SourcesInit, SourcesTyped, O!SourcesTypeOK, O!NoJob, Jobs

-----------------------------------------------------------------------------
(* Types: applications, providers, the assistant, boards *)

LEMMA ApplicationsTypes == ASSUME A!ApplicationAssumption PROVE ServicesSpec => []A!TypeOK
<1>1. AP!Spec => []AP!TypeOK
  BY AP!ApplicationTypes, ApplicationsAssumed
<1>2. AP!TypeOK => A!TypeOK
  BY DEF AP!TypeOK, A!TypeOK, AP!AppRow, A!AppRow, AP!RunRow, A!RunRow, AP!RunStates,
     A!RunStates, AP!Approvals, A!Approvals, AP!Outcomes, A!Outcomes, AP!Ledger, A!Ledger,
     AP!Threads, A!Threads, AP!ApplicationStatus, A!ApplicationStatus
<1> QED
  BY <1>1, <1>2, ApplicationsPart, PTL

LEMMA ProvidersTypes == ASSUME ServicesAssumption PROVE ServicesSpec => []M!ProvidersTypeOK
<1>1. MP!VersionsAssumed
  BY DEF ServicesAssumption, MP!VersionsAssumed
<1>2. MP!ProvidersSpec => []MP!ProvidersTypeOK
  BY <1>1, MP!ConfigsTyped
<1>3. MP!ProvidersTypeOK => M!ProvidersTypeOK
  BY DEF MP!ProvidersTypeOK, M!ProvidersTypeOK, MP!Rows, M!Rows, MP!Edits, M!Edits,
     MP!KeyChanges, M!KeyChanges
<1> QED
  BY <1>2, <1>3, ProvidersPart, PTL

LEMMA AssistantTypes == ASSUME ServicesAssumption PROVE ServicesSpec => []T!AssistantTypeOK
<1>1. MP!StepsAssumed
  BY DEF ServicesAssumption, DraftsAssumption, MP!StepsAssumed
<1>2. MP!AssistantSpec => []MP!AssistantTypeOK
  BY <1>1, MP!TypeCorrect
<1>3. MP!AssistantTypeOK => T!AssistantTypeOK
  BY DEF MP!AssistantTypeOK, T!AssistantTypeOK, MP!TurnRows, T!TurnRows
<1> QED
  BY <1>2, <1>3, AssistantPart, PTL

LEMMA BoardsTypes == ASSUME BoardsAssumption PROVE ServicesSpec => []B!BoardsTypeOK
<1>1. ASSUME BoardTyped PROVE B!BoardsTypeOK
  <2>1. Len(board) \in Nat /\ Len(Listed) \in Nat
    BY <1>1, LenProperties DEF BoardTyped, BoardsAssumption
  <2>2. Len(board) <= Len(Listed) /\ came \in 0..Len(Listed)
    BY <1>1, <2>1 DEF BoardTyped
  <2> QED
    BY <1>1, <2>2 DEF BoardTyped, B!BoardsTypeOK
<1>2. ReadingFits => B!BoardsTypeOK
  BY <1>1 DEF ReadingFits
<1> QED
  BY <1>2, ReadingHolds, PTL

LEMMA SourcesTypes == ServicesSpec => []O!SourcesTypeOK
<1>1. ServicesInit => SourcesTyped
  BY SourcesInitially DEF ServicesInit
<1>2. SourcesTyped /\ [ServicesNext]_servicesVars => SourcesTyped'
  <2>1. ASSUME ServicesNext \/ UNCHANGED servicesVars PROVE [O!SourcesNext]_sourceVars
    BY <2>1 DEF ServicesNext, OthersRest, servicesVars
  <2> QED
    BY <2>1, SourcesTypesStep
<1>3. SourcesTyped => O!SourcesTypeOK
  BY DEF SourcesTyped
<1> QED
  BY <1>1, <1>2, <1>3, PTL DEF ServicesSpec

-----------------------------------------------------------------------------
(* Types: the profile *)

EntryRow == [state : P!ReviewStates \cup {"none"}, edited : BOOLEAN]

LEMMA ProfileTypesStep ==
  ASSUME P!ProfileTypeOK, DeletionTyped, [P!ProfileNext]_profileVars
  PROVE  P!ProfileTypeOK'
<1> DEFINE Docs == document' \in [Uploads -> {"none", "stored", "pending", "parsed", "failed"}]
           Files == files' \subseteq P!Contents
           Rendered == rendering' \in [P!Contents -> {"none", "listed"}]
           Readings == reading' \in [Uploads -> {"none", "queued", "read", "ended"}]
           Rows == entry' \in [P!EntryIds -> EntryRow]
           Picks == /\ rereading'.of \in P!Origins
                    /\ deletion'.of \in P!Origins /\ deletion'.at \in {"none", "picked", "file"}
           Imports == imported' \subseteq Uploads
<1>1. /\ document \in [Uploads -> {"none", "stored", "pending", "parsed", "failed"}]
      /\ files \subseteq P!Contents
      /\ rendering \in [P!Contents -> {"none", "listed"}]
      /\ reading \in [Uploads -> {"none", "queued", "read", "ended"}]
      /\ entry \in [P!EntryIds -> EntryRow]
      /\ rereading.of \in P!Origins
      /\ deletion.of \in P!Origins /\ deletion.at \in {"none", "picked", "file"}
      /\ imported \subseteq Uploads
  BY DEF P!ProfileTypeOK, EntryRow
<1> SUFFICES Docs /\ Files /\ Rendered /\ Readings /\ Rows /\ Picks /\ Imports
  BY DEF P!ProfileTypeOK, EntryRow
<1>2. /\ UNCHANGED document => Docs
      /\ UNCHANGED files => Files
      /\ UNCHANGED rendering => Rendered
      /\ UNCHANGED reading => Readings
      /\ UNCHANGED entry => Rows
      /\ UNCHANGED <<rereading, deletion>> => Picks
      /\ UNCHANGED imported => Imports
  BY <1>1
<1>3. P!NoEntry \in EntryRow /\ P!NoRereading.of \in P!Origins
      /\ P!NoDeletion.of \in P!Origins /\ P!NoDeletion.at = "none"
  BY DEF P!NoEntry, EntryRow, P!NoRereading, P!NoDeletion, P!Origins
<1>4. ASSUME NEW es \in [P!EntryIds -> EntryRow], NEW u
      PROVE  P!Extracted(es, u) \in [P!EntryIds -> EntryRow]
  <2>1. [state |-> "pending", edited |-> FALSE] \in EntryRow
    BY DEF EntryRow, P!ReviewStates
  <2> QED
    BY <2>1 DEF P!Extracted
<1>5. ASSUME NEW picked
      PROVE  [e \in P!EntryIds |-> IF e \in picked THEN P!NoEntry ELSE entry[e]]
               \in [P!EntryIds -> EntryRow]
  BY <1>1, <1>3
<1>6. ASSUME NEW u \in Uploads, NEW status \in {"none", "stored", "pending", "parsed", "failed"},
             document' = [document EXCEPT ![u] = status]
      PROVE  Docs
  BY <1>1, <1>6
<1>7. ASSUME NEW u \in Uploads, NEW at \in {"none", "queued", "read", "ended"},
             reading' = [reading EXCEPT ![u] = at]
      PROVE  Readings
  BY <1>1, <1>7
<1>8. \A u \in Uploads : u \in P!Origins
  BY DEF P!Origins
<1> DEFINE Goal == Docs /\ Files /\ Rendered /\ Readings /\ Rows /\ Picks /\ Imports
<1> HIDE DEF Docs, Files, Rendered, Readings, Rows, Picks, Imports
<1>9. CASE UNCHANGED profileVars
  BY <1>2, <1>9 DEF profileVars
<1>10. ASSUME NEW u \in Uploads, P!UploadPut(u)
       PROVE  Goal
  <2>1. Files
    BY <1>1, <1>10 DEF P!UploadPut, Files, P!Contents
  <2> QED
    BY <1>2, <1>6, <1>10, <2>1 DEF P!UploadPut
<1>11. ASSUME NEW u \in Uploads, P!UploadCommit(u) \/ P!UploadFails(u)
       PROVE  Goal
  BY <1>2, <1>6, <1>7, <1>11 DEF P!UploadCommit, P!UploadFails
<1>12. ASSUME NEW u \in Uploads, P!ReadDocument(u) \/ P!ReadingCut(u)
       PROVE  Goal
  <2>1. PICK at \in {"queued", "read", "ended"} : reading' = [reading EXCEPT ![u] = at]
    BY <1>12 DEF P!ReadDocument, P!ReadingCut
  <2> QED
    BY <1>2, <1>7, <1>12, <2>1 DEF P!ReadDocument, P!ReadingCut
<1>13. ASSUME NEW u \in Uploads, NEW status \in {"parsed", "failed"}, P!SaveExtraction(u, status)
       PROVE  Goal
  <2>1. entry' = entry \/ entry' = P!Extracted(entry, u)
    BY <1>13 DEF P!SaveExtraction
  <2>2. Rows
    BY <1>1, <1>4, <2>1 DEF Rows
  <2>3. UNCHANGED document \/ document' = [document EXCEPT ![u] = status]
    BY <1>13 DEF P!SaveExtraction
  <2>4. reading' = [reading EXCEPT ![u] = "ended"]
        /\ UNCHANGED <<files, rendering, rereading, deletion, imported>>
    BY <1>13 DEF P!SaveExtraction
  <2> QED
    BY <1>2, <1>6, <1>7, <2>2, <2>3, <2>4
<1>14. ASSUME NEW u \in Uploads, P!RereadPick(u)
       PROVE  Goal
  <2>1. Picks
    BY <1>1, <1>8, <1>14 DEF P!RereadPick, Picks
  <2> QED
    BY <1>2, <1>14, <2>1 DEF P!RereadPick
<1>15. CASE P!Reread
  <2> DEFINE left == [e \in P!EntryIds |->
                        IF e \in {p[1] : p \in rereading.picked} THEN P!NoEntry ELSE entry[e]]
  <2>1. left \in [P!EntryIds -> EntryRow]
    BY <1>5
  <2>2. entry' = entry \/ entry' = P!Extracted(left, rereading.of)
    BY <1>15 DEF P!Reread
  <2> HIDE DEF left
  <2>3. Rows
    BY <1>1, <1>4, <2>1, <2>2 DEF Rows
  <2>4. Picks
    BY <1>1, <1>3, <1>15 DEF P!Reread, Picks
  <2> QED
    BY <1>2, <1>15, <2>3, <2>4 DEF P!Reread
<1>16. ASSUME NEW u \in Uploads, NEW bundle \in P!Bundles, P!ImportCase(u, bundle)
       PROVE  Goal
  <2>1. entry' = [e \in P!EntryIds |-> IF e[1] = u THEN bundle.entries[e[2]] ELSE entry[e]]
    BY <1>16 DEF P!ImportCase
  <2>2. \A e \in P!EntryIds : bundle.entries[e[2]] \in EntryRow
    <3>1. {P!NoEntry} \cup [state : P!ReviewStates, edited : BOOLEAN] \subseteq EntryRow
      BY <1>3 DEF EntryRow
    <3>2. \A w \in Wordings : bundle.entries[w] \in EntryRow
      BY <3>1 DEF P!Bundles
    <3> QED
      BY <3>2 DEF P!EntryIds
  <2>3. Rows
    BY <1>1, <2>1, <2>2 DEF Rows
  <2>4. Imports
    BY <1>16 DEF P!ImportCase, Imports
  <2>5. bundle.status \in {"parsed", "failed"}
    BY DEF P!Bundles
  <2> QED
    BY <1>2, <1>6, <1>16, <2>3, <2>4, <2>5 DEF P!ImportCase
<1>17. ASSUME NEW u \in Uploads, NEW b \in BOOLEAN, P!DeletePick(u, b)
       PROVE  Goal
  <2>1. Picks
    BY <1>1, <1>3, <1>8, <1>17 DEF P!DeletePick, P!NoDeletion, Picks
  <2> QED
    BY <1>2, <1>17, <2>1 DEF P!DeletePick
<1>18. CASE P!DeleteCommit
  <2>1. Rows
    BY <1>5, <1>18 DEF P!DeleteCommit, Rows
  <2>2. Docs
    BY <1>1, <1>18 DEF P!DeleteCommit, Docs
  <2>3. deletion' = P!NoDeletion \/ (deletion'.at = "file" /\ deletion'.of = deletion.of)
    BY <1>18 DEF P!DeleteCommit, DeletionTyped
  <2>4. Picks
    BY <1>1, <1>3, <1>18, <2>3 DEF P!DeleteCommit, Picks
  <2> QED
    BY <1>2, <1>18, <2>1, <2>2, <2>4 DEF P!DeleteCommit
<1>19. CASE P!DeleteFile
  <2>1. Files
    BY <1>1, <1>19 DEF P!DeleteFile, Files
  <2>2. Picks
    BY <1>1, <1>3, <1>19 DEF P!DeleteFile, Picks
  <2> QED
    BY <1>2, <1>19, <2>1, <2>2 DEF P!DeleteFile
<1>20. ASSUME NEW w \in Wordings, P!CreateEntry(w)
       PROVE  Goal
  <2>1. <<ByHand, w>> \in P!EntryIds
    BY DEF P!EntryIds, P!Origins
  <2>2. Rows
    BY <1>1, <1>20, <2>1 DEF P!CreateEntry, Rows, EntryRow, P!ReviewStates
  <2> QED
    BY <1>2, <1>20, <2>2 DEF P!CreateEntry
<1>21. ASSUME NEW e \in P!EntryIds, NEW s \in P!ReviewStates, P!ReviewEntry(e, s)
       PROVE  Goal
  <2>1. Rows
    BY <1>1, <1>21 DEF P!ReviewEntry, Rows, EntryRow, P!ReviewStates
  <2> QED
    BY <1>2, <1>21, <2>1 DEF P!ReviewEntry
<1>22. ASSUME NEW e \in P!EntryIds, P!EditEntry(e)
       PROVE  Goal
  <2>1. Rows
    BY <1>1, <1>22 DEF P!EditEntry, Rows, EntryRow
  <2> QED
    BY <1>2, <1>22, <2>1 DEF P!EditEntry
<1>23. ASSUME NEW e \in P!EntryIds, entry' = [entry EXCEPT ![e] = P!NoEntry]
       PROVE  Rows
  BY <1>1, <1>3, <1>23 DEF Rows
<1>24. ASSUME NEW e \in P!EntryIds, P!DeleteEntry(e)
       PROVE  Goal
  BY <1>2, <1>23, <1>24 DEF P!DeleteEntry
<1>25. ASSUME NEW e \in P!EntryIds, NEW f \in P!EntryIds, P!MergeEntries(e, f)
       PROVE  Goal
  BY <1>2, <1>23, <1>25 DEF P!MergeEntries
<1>26. ASSUME NEW gone, NEW account, P!DeleteCase(gone, account)
       PROVE  Goal
  <2>1. Rows
    BY <1>1, <1>3, <1>26 DEF P!DeleteCase, Rows
  <2>2. Docs
    BY <1>1, <1>26 DEF P!DeleteCase, Docs
  <2>3. Readings
    BY <1>1, <1>26 DEF P!DeleteCase, Readings
  <2>4. files' \subseteq files /\ imported' \subseteq imported
    BY <1>26 DEF P!DeleteCase
  <2>5. Files /\ Imports
    BY <1>1, <2>4 DEF Files, Imports
  <2>6. Rendered
    BY <1>1, <1>26 DEF P!DeleteCase, Rendered
  <2> QED
    BY <1>2, <1>26, <2>1, <2>2, <2>3, <2>5, <2>6 DEF P!DeleteCase
<1>27. CASE P!RemovedByUser
  BY <1>24, <1>25, <1>26, <1>27 DEF P!RemovedByUser
<1>28. ASSUME NEW b \in P!Contents, P!Render(b) \/ P!UnlinkRendered(b)
       PROVE  Goal
  <2>1. Files
    BY <1>1, <1>28 DEF P!Render, P!UnlinkRendered, Files
  <2>2. PICK way \in {"none", "listed"} :
          rendering' = rendering \/ rendering' = [rendering EXCEPT ![b] = way]
    BY <1>28 DEF P!Render, P!UnlinkRendered
  <2>3. Rendered
    BY <1>1, <2>2 DEF Rendered
  <2> QED
    BY <1>2, <1>28, <2>1, <2>3 DEF P!Render, P!UnlinkRendered
<1> QED
  BY <1>9, <1>10, <1>11, <1>12, <1>13, <1>14, <1>15, <1>16, <1>17, <1>18, <1>19, <1>20, <1>21,
     <1>22, <1>27, <1>28 DEF P!ProfileNext, P!UserOnProfile, P!ReadingStep, P!RenderingStep

LEMMA ProfileTypesInitially == P!ProfileInit => P!ProfileTypeOK
BY DEF P!ProfileInit, P!ProfileTypeOK, P!NoEntry, P!NoRereading, P!NoDeletion, P!Origins

LEMMA ProfileTypes == ServicesSpec => []P!ProfileTypeOK
<1>1. ServicesInit => P!ProfileTypeOK
  BY ProfileTypesInitially DEF ServicesInit
<1>2. ProfileFits /\ P!ProfileTypeOK /\ [ServicesNext]_servicesVars => P!ProfileTypeOK'
  <2>1. [ServicesNext]_servicesVars => [P!ProfileNext]_profileVars
    BY DEF ServicesNext, OthersRest, servicesVars
  <2>2. ProfileFits => DeletionTyped
    BY DEF ProfileFits
  <2> QED
    BY <2>1, <2>2, ProfileTypesStep
<1> QED
  BY <1>1, <1>2, ProfileHolds, PTL DEF ServicesSpec

\* A document keeps its bytes, from the upload that stored them on, unless it was uploaded
\* after a deletion had counted who uses them, or has the bytes of a generated document
\* whose deletion counts nobody; and what a generated document lists goes only with an
\* upload of the same bytes or with its own deletion (documents.py delete_document,
\* generated_documents.py delete_document).
THEOREM BytesStay == ServicesSpec => DocumentsHaveFiles
<1>1. ProfileFits /\ P!ProfileTypeOK /\ [ServicesNext]_servicesVars =>
        [files' # files => \A b \in files \ files' : MayMiss(b)]_profileVars
  <2> SUFFICES ASSUME ProfileFits, P!ProfileTypeOK, P!ProfileNext
               PROVE  \A b \in files \ files' : MayMiss(b)
    BY DEF ServicesNext, OthersRest, servicesVars, profileVars
  <2> QED
    BY FilesStay
<1> QED
  BY <1>1, ProfileHolds, ProfileTypes, PTL DEF ServicesSpec, DocumentsHaveFiles,
     P!DocumentsHaveFiles, profileVars, P!profileVars, MayMiss
================================================================================
