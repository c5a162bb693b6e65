------------------------- MODULE SideEffectsProofs -------------------------
(***************************************************************************)
(* Theorems about the ledger of side effects, for every set of executions   *)
(* and every bound on the calls.                                            *)
(***************************************************************************)
EXTENDS SideEffects, TLAPS

Nobody == \A e \in Executions : ~Calling(e)

\* An execution inside call() is the one that wrote the present row, and only
\* a doubting reader has touched that row since.
CallerWroteRow ==
  \A e \in Executions :
    Calling(e) => row.id = seen[e].id /\ row.status \in {"started", "uncertain"}

\* What was read is not younger than the row.
SeenIsOlder == \A e \in Executions : seen[e].id <= row.id

\* A row that may be opened again stands for effects that were all reported.
OpenRowIsQuiet == MayOpen(row.status) => Nobody /\ effects <= late

\* So does a row that is still there as it was read by one about to open it,
\* even if a doubting reader has changed its status in the meantime.
ReaderIsQuiet ==
  \A e \in Executions :
    pc[e] = "decide" /\ seen[e].id = row.id /\ MayOpen(seen[e].status)
      => Nobody /\ effects <= late

\* Before its own effect, a caller owes the world nothing.
CallIsFirst == \A e \in Executions : pc[e] = "call" => effects <= late

Ledger ==
  /\ TypeOK /\ OneCaller /\ RepeatsAreReported
  /\ CallerWroteRow /\ SeenIsOlder /\ OpenRowIsQuiet /\ ReaderIsQuiet /\ CallIsFirst

USE DEF Row, Status

LEMMA InitLedger == Init => Ledger
BY DEF Init, Ledger, TypeOK, OneCaller, RepeatsAreReported, CallerWroteRow, SeenIsOlder,
       OpenRowIsQuiet, ReaderIsQuiet, CallIsFirst, Nobody, Calling

\* The types, by action: nothing but the row, its copies and the counters move.
LEMMA LedgerTyped ==
  ASSUME TypeOK, NEW e \in Executions,
         Look(e) \/ Reuse(e) \/ Doubt(e) \/ Open(e) \/ Perform(e) \/ Succeed(e)
           \/ Raise(e) \/ Abandon(e)
  PROVE  TypeOK'
<1>1. CASE Look(e)
  BY <1>1 DEF TypeOK, Look, Goto
<1>2. CASE Reuse(e)
  BY <1>2 DEF TypeOK, Reuse, Goto
<1>3. CASE Doubt(e)
  BY <1>3 DEF TypeOK, Doubt, Goto
<1>4. CASE Open(e)
  <2>1. CASE Inserted(e)
    <3>1. row' = [id |-> row.id + 1, status |-> "started"] /\ row' \in Row
      BY <1>4, <2>1 DEF TypeOK, Open
    <3> QED
      BY <1>4, <2>1, <3>1 DEF TypeOK, Open, Goto
  <2>2. CASE ~Inserted(e)
    BY <1>4, <2>2 DEF TypeOK, Open, Goto
  <2> QED
    BY <2>1, <2>2
<1>5. CASE Perform(e)
  BY <1>5 DEF TypeOK, Perform, Goto
<1>6. CASE Succeed(e)
  BY <1>6 DEF TypeOK, Succeed, Goto, Recorded
<1>7. CASE Raise(e)
  BY <1>7 DEF TypeOK, Raise, Goto, Recorded
<1>8. CASE Abandon(e)
  BY <1>8 DEF TypeOK, Abandon
<1> QED
  BY <1>1, <1>2, <1>3, <1>4, <1>5, <1>6, <1>7, <1>8

LEMMA StepLedger == Ledger /\ [Next]_vars => Ledger'
<1> SUFFICES ASSUME Ledger, [Next]_vars PROVE Ledger'
  OBVIOUS
<1> USE DEF Ledger
<1>1. ASSUME NEW e \in Executions, Look(e)
      PROVE  Ledger'
  BY <1>1, LedgerTyped
     DEF Look, Goto, TypeOK, OneCaller, RepeatsAreReported, CallerWroteRow, SeenIsOlder,
         OpenRowIsQuiet, ReaderIsQuiet, CallIsFirst, Nobody, Calling
<1>2. ASSUME NEW e \in Executions, Reuse(e) \/ Abandon(e)
      PROVE  Ledger'
  BY <1>2, LedgerTyped
     DEF Reuse, Abandon, Goto, TypeOK, OneCaller, RepeatsAreReported, CallerWroteRow,
         SeenIsOlder, OpenRowIsQuiet, ReaderIsQuiet, CallIsFirst, Nobody, Calling
<1>3. ASSUME NEW e \in Executions, Doubt(e)
      PROVE  Ledger'
  BY <1>3, LedgerTyped
     DEF Doubt, Goto, TypeOK, OneCaller, RepeatsAreReported, CallerWroteRow, SeenIsOlder,
         OpenRowIsQuiet, ReaderIsQuiet, CallIsFirst, Nobody, Calling, MayOpen
<1>4. ASSUME NEW e \in Executions, Open(e)
      PROVE  Ledger'
  <2>1. CASE Inserted(e)
    <3>1. Nobody /\ effects <= late /\ pc[e] = "decide"
      BY <1>4, <2>1 DEF Open, Inserted, Goto, ReaderIsQuiet
    <3>2. row' = [id |-> row.id + 1, status |-> "started"]
          /\ seen' = [seen EXCEPT ![e] = row'] /\ pc' = [pc EXCEPT ![e] = "call"]
          /\ UNCHANGED <<effects, late>>
      BY <1>4, <2>1 DEF Open, Goto
    <3>3. row'.id = row.id + 1 /\ row'.status = "started"
      BY <3>2
    <3>4. OneCaller' /\ CallIsFirst' /\ RepeatsAreReported' /\ OpenRowIsQuiet'
      BY <3>1, <3>2, <3>3 DEF TypeOK, OneCaller, CallIsFirst, RepeatsAreReported,
                             OpenRowIsQuiet, Nobody, Calling, MayOpen
    <3>5. CallerWroteRow' /\ SeenIsOlder' /\ ReaderIsQuiet'
      BY <3>1, <3>2, <3>3 DEF TypeOK, CallerWroteRow, SeenIsOlder, ReaderIsQuiet, Nobody,
                             Calling
    <3> QED
      BY <1>4, <3>4, <3>5, LedgerTyped
  <2>2. CASE ~Inserted(e)
    BY <1>4, <2>2, LedgerTyped
       DEF Open, Goto, TypeOK, OneCaller, RepeatsAreReported, CallerWroteRow, SeenIsOlder,
           OpenRowIsQuiet, ReaderIsQuiet, CallIsFirst, Nobody, Calling
  <2> QED
    BY <2>1, <2>2
<1>5. ASSUME NEW e \in Executions, Perform(e)
      PROVE  Ledger'
  BY <1>5, LedgerTyped
     DEF Perform, Goto, TypeOK, OneCaller, RepeatsAreReported, CallerWroteRow, SeenIsOlder,
         OpenRowIsQuiet, ReaderIsQuiet, CallIsFirst, Nobody, Calling, MayOpen
<1>6. ASSUME NEW e \in Executions, Succeed(e)
      PROVE  Ledger'
  BY <1>6, LedgerTyped
     DEF Succeed, Goto, Recorded, TypeOK, OneCaller, RepeatsAreReported, CallerWroteRow,
         SeenIsOlder, OpenRowIsQuiet, ReaderIsQuiet, CallIsFirst, Nobody, Calling, MayOpen
<1>7. ASSUME NEW e \in Executions, Raise(e)
      PROVE  Ledger'
  <2>1. Calling(e) /\ \A f \in Executions : Calling(f) => f = e
    BY <1>7 DEF Raise, Goto, Calling, OneCaller
  <2>2. pc' = [pc EXCEPT ![e] = "idle"] /\ row' = [row EXCEPT !.status = "failed"]
        /\ UNCHANGED <<seen, effects>>
    BY <1>7 DEF Raise, Goto, Recorded
  <2>3. Nobody'
    BY <2>1, <2>2 DEF TypeOK, Nobody, Calling
  <2>4. effects' <= late'
    BY <1>7, <2>2 DEF TypeOK, Raise, Goto, CallIsFirst, RepeatsAreReported
  <2>5. TypeOK'
    BY <1>7, LedgerTyped
  <2> QED
    BY <2>2, <2>3, <2>4, <2>5
       DEF TypeOK, OneCaller, RepeatsAreReported, CallerWroteRow, SeenIsOlder,
           OpenRowIsQuiet, ReaderIsQuiet, CallIsFirst, Nobody, Calling
<1>8. CASE UNCHANGED vars
  BY <1>8 DEF vars, TypeOK, OneCaller, RepeatsAreReported, CallerWroteRow, SeenIsOlder,
              OpenRowIsQuiet, ReaderIsQuiet, CallIsFirst, Nobody, Calling
<1> QED
  BY <1>1, <1>2, <1>3, <1>4, <1>5, <1>6, <1>7, <1>8 DEF Next

LEMMA LedgerHolds == Spec => []Ledger
BY InitLedger, StepLedger, PTL DEF Spec

\* The row and what each execution read of it stay well typed.
THEOREM TypeCorrect == Spec => []TypeOK
<1>1. Ledger => TypeOK
  BY DEF Ledger
<1> QED
  BY <1>1, LedgerHolds, PTL

\* However many executions race for one key, one at a time is inside call().
THEOREM CallsExclude == Spec => []OneCaller
<1>1. Ledger => OneCaller
  BY DEF Ledger
<1> QED
  BY <1>1, LedgerHolds, PTL

\* The effect is repeated only after it was reported failed.
THEOREM RepeatsReported == Spec => []RepeatsAreReported
<1>1. Ledger => RepeatsAreReported
  BY DEF Ledger
<1> QED
  BY <1>1, LedgerHolds, PTL

\* An effect that was not reported failed keeps the key closed.
THEOREM EffectRemembered == Spec => []EffectIsRemembered
<1>1. Ledger => EffectIsRemembered
  BY DEF Ledger, OpenRowIsQuiet, EffectIsRemembered, TypeOK
<1> QED
  BY <1>1, LedgerHolds, PTL
=============================================================================
