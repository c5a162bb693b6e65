------------------------------ MODULE ModelProofs ------------------------------
(***************************************************************************)
(* What goes to a model.  A stored key stays with the server it was entered *)
(* for, unless a request rests on a row that is not there any more; what an *)
(* online model sees is a conversation the user agreed to share, or one     *)
(* whose model or existence changed under the run: for any number of        *)
(* providers, servers, tabs, conversations, messages, models and steps.     *)
(***************************************************************************)
EXTENDS Providers, Assistant, TLAPS

-----------------------------------------------------------------------------
(* Providers: invariants *)

\* A row that is not there has no key
GoneHasNoKey == \A c \in Configs : ~config[c].here => config[c].key = NoKey

\* What is being created is not there yet, and has no key to clear
CreatesAnew ==
  \A t \in Tabs : edit[t].kind = "create" =>
    ~config[edit[t].of].here /\ edit[t].key # "clear"

\* A row that is being created is nobody else's business yet
CreatesAlone ==
  \A t, u \in Tabs : edit[t].kind = "create" /\ edit[u].of = edit[t].of
                     /\ edit[u].kind = "create" => t = u

\* An update was asked for the key it needs, and a new default moves nothing
UpdatesAsked ==
  \A t \in Tabs :
    /\ edit[t].kind = "update" => ~NeedsKey(edit[t].copy, edit[t].server, edit[t].key)
    /\ edit[t].kind = "update" =>
         \/ edit[t].for = edit[t].server
         \/ /\ edit[t].server = edit[t].copy.server /\ edit[t].for = edit[t].saw.server
            /\ edit[t].saw.version = edit[t].copy.version
    /\ edit[t].kind = "create" => edit[t].for = edit[t].server
    /\ edit[t].kind = "default" => edit[t].server = edit[t].copy.server /\ edit[t].key = "keep"

\* Changes are of rows that may still be changed
CopiesMayChange ==
  \A t \in Tabs : edit[t].kind \in {"update", "default"} => edit[t].copy.version < MaxVersion

\* The bound MaxVersion is where no row is changed any more
VersionsAssumed == MaxVersion \in Nat \ {0} /\ Servers # {}

Keys == ProvidersTypeOK /\ GoneHasNoKey /\ CreatesAnew /\ CreatesAlone /\ UpdatesAsked
        /\ CopiesMayChange

-----------------------------------------------------------------------------
(* Providers: types *)

LEMMA NoRowType ==
  ASSUME VersionsAssumed
  PROVE  NoRow \in Rows /\ AnyServer \in Servers
BY DEF NoRow, Rows, AnyServer, VersionsAssumed

LEMMA SeenType ==
  ASSUME NEW row \in Rows
  PROVE  Seen(row) \in [version: 0..MaxVersion, server: Servers]
BY DEF Seen, Rows

LEMMA NoEditType ==
  ASSUME VersionsAssumed
  PROVE  NoEdit \in Edits /\ NoEdit.kind = "none"
<1>1. Seen(NoRow) \in [version: 0..MaxVersion, server: Servers]
  BY NoRowType, SeenType
<1> QED
  BY <1>1, NoRowType, Zenon DEF NoEdit, Edits, KeyChanges

LEMMA RowChanged ==
  ASSUME NEW row \in Rows, NEW s \in Servers, NEW k \in Servers \cup {NoKey},
         NEW d \in BOOLEAN, NEW v \in 0..MaxVersion, NEW o \in Servers \cup {Unchecked}
  PROVE  [row EXCEPT !.here = TRUE, !.server = s, !.key = k, !.default = d,
                     !.version = v, !.checked = o] \in Rows
BY DEF Rows

LEMMA WrittenType ==
  ASSUME VersionsAssumed, NEW e \in Edits, NEW row \in Rows,
         e.kind \in {"create", "update", "default"},
         e.kind # "create" => e.copy.version < MaxVersion
  PROVE  Written(e, row) \in Rows
<1>1. e.server \in Servers /\ e.for \in Servers /\ e.default \in BOOLEAN /\ e.copy.version \in 0..MaxVersion
  BY DEF Edits, Rows
<1> DEFINE
  s == IF e.kind = "create" \/ e.server # e.copy.server THEN e.server ELSE row.server
  k == IF e.key = "new" THEN e.for
       ELSE IF e.key = "clear" /\ e.copy.key # NoKey THEN NoKey ELSE row.key
  d == IF e.kind = "default" \/ e.default # e.copy.default THEN e.default ELSE row.default
  v == IF e.kind = "create" THEN 1 ELSE e.copy.version + 1
  o == IF e.copy.checked # Unchecked /\ (e.server # e.copy.server \/ e.key # "keep")
         THEN Unchecked ELSE row.checked
<1>2. s \in Servers
  BY <1>1 DEF Rows
<1>3. k \in Servers \cup {NoKey}
  BY <1>1 DEF Rows
<1>4. d \in BOOLEAN
  BY <1>1, Zenon DEF Rows
<1>5. v \in 0..MaxVersion
  BY <1>1 DEF VersionsAssumed
<1>6. o \in Servers \cup {Unchecked}
  BY DEF Rows
<1>7. Written(e, row) = [row EXCEPT !.here = TRUE, !.server = s, !.key = k, !.default = d,
                                    !.version = v, !.checked = o]
  BY Zenon DEF Written
<1> HIDE DEF s, k, d, v, o
<1>8. [row EXCEPT !.here = TRUE, !.server = s, !.key = k, !.default = d,
                  !.version = v, !.checked = o] \in Rows
  BY <1>2, <1>3, <1>4, <1>5, <1>6, RowChanged, Zenon
<1> QED
  BY <1>7, <1>8, Zenon

-----------------------------------------------------------------------------
(* Providers: every step keeps the invariant *)

LEMMA KeysStart == VersionsAssumed /\ ProvidersInit => Keys
<1> SUFFICES ASSUME VersionsAssumed, ProvidersInit PROVE Keys
  OBVIOUS
<1>1. NoEdit \in Edits /\ NoEdit.kind = "none"
  BY NoEditType
<1>2. ProvidersTypeOK
  BY <1>1, NoRowType DEF ProvidersInit, ProvidersTypeOK, NoCheck
<1>3. GoneHasNoKey
  BY DEF ProvidersInit, GoneHasNoKey, NoRow
<1> QED
  BY <1>1, <1>2, <1>3 DEF ProvidersInit, Keys, CreatesAnew, CreatesAlone, UpdatesAsked,
     CopiesMayChange

LEMMA KeysBegin ==
  ASSUME VersionsAssumed, Keys, NEW t \in Tabs, NEW c \in Configs,
         NEW e \in Edits, e.kind # "none", e.of = c,
         edit[t].kind \in {"none", "form"}, edit' = [edit EXCEPT ![t] = e],
         UNCHANGED <<config, check>>,
         e.kind = "create" => /\ ~config[c].here /\ e.key # "clear"
                              /\ \A u \in Tabs : edit[u].of # c,
         e.kind # "create" => config[c].here,
         e.kind = "update" => ~NeedsKey(e.copy, e.server, e.key),
         e.kind = "update" =>
           \/ e.for = e.server
           \/ /\ e.server = e.copy.server /\ e.for = e.saw.server
              /\ e.saw.version = e.copy.version,
         e.kind = "create" => e.for = e.server,
         e.kind = "default" => e.server = e.copy.server /\ e.key = "keep",
         e.kind \in {"update", "default"} => e.copy.version < MaxVersion
  PROVE  Keys'
<1>1. edit \in [Tabs -> Edits] /\ edit' \in [Tabs -> Edits] /\ edit'[t] = e
      /\ \A u \in Tabs \ {t} : edit'[u] = edit[u]
  BY DEF Keys, ProvidersTypeOK
<1>2. ProvidersTypeOK' /\ GoneHasNoKey'
  BY <1>1 DEF Keys, ProvidersTypeOK, GoneHasNoKey
<1>3. CreatesAnew' /\ CreatesAlone'
  BY <1>1 DEF Keys, CreatesAnew, CreatesAlone
<1>4. UpdatesAsked' /\ CopiesMayChange'
  BY <1>1 DEF Keys, UpdatesAsked, CopiesMayChange
<1> QED
  BY <1>2, <1>3, <1>4 DEF Keys

\* What a commit leaves of a row
LEMMA CommittedRow ==
  ASSUME VersionsAssumed, Keys, NEW t \in Tabs, Commit(t), NEW d \in Configs
  PROVE  /\ config'[d] \in Rows
         /\ ~config[d].here /\ ~(d = edit[t].of /\ edit[t].kind = "create")
              => ~config'[d].here /\ config'[d].key = config[d].key
         /\ ~config'[d].here => ~config[d].here /\ config'[d].key = config[d].key
         /\ d # edit[t].of => config'[d].key = config[d].key
                              /\ config'[d].server = config[d].server
                              /\ config'[d].here = config[d].here
<1> DEFINE e == edit[t]
<1>1. e \in Edits /\ config[d] \in Rows /\ e.kind \in {"create", "update", "default"}
  BY DEF Keys, ProvidersTypeOK, Commit, Edits
<1>2. Written(e, config[d]) \in Rows
  BY <1>1, WrittenType DEF Keys, CopiesMayChange
<1>3. [config[d] EXCEPT !.default = FALSE] \in Rows
  BY <1>1 DEF Rows
<1>4. Written(e, config[d]).here = TRUE
  BY <1>1 DEF Written, Rows
<1>5. /\ [config[d] EXCEPT !.default = FALSE].key = config[d].key
      /\ [config[d] EXCEPT !.default = FALSE].server = config[d].server
      /\ [config[d] EXCEPT !.default = FALSE].here = config[d].here
  BY <1>1 DEF Rows
<1>6. \/ config'[d] = config[d] /\ (d = e.of /\ e.kind # "create" => ~config[d].here)
      \/ d = e.of /\ config'[d] = Written(e, config[d])
         /\ (e.kind = "create" \/ config[d].here)
      \/ d # e.of /\ config'[d] = config[d]
      \/ d # e.of /\ config'[d] = [config[d] EXCEPT !.default = FALSE]
  BY Zenon DEF Commit
<1> HIDE DEF e
<1> QED
  BY <1>1, <1>2, <1>3, <1>4, <1>5, <1>6 DEF e

LEMMA KeysCommit ==
  ASSUME VersionsAssumed, Keys, NEW t \in Tabs, Commit(t)
  PROVE  Keys'
<1>1. config' \in [Configs -> Rows]
  <2>1. config' = [d \in Configs |-> config'[d]]
    BY DEF Keys, ProvidersTypeOK, Commit
  <2> QED
    BY <2>1, CommittedRow
<1>2. edit' \in [Tabs -> Edits] /\ edit'[t].kind = "none"
      /\ \A u \in Tabs \ {t} : edit'[u] = edit[u]
  BY NoEditType, Zenon DEF Keys, ProvidersTypeOK, Commit
<1>3. ProvidersTypeOK'
  BY <1>1, <1>2 DEF Keys, ProvidersTypeOK, Commit
<1>4. GoneHasNoKey'
  BY CommittedRow DEF Keys, GoneHasNoKey
<1>5. CreatesAnew' /\ CreatesAlone'
  BY <1>2, CommittedRow DEF Keys, ProvidersTypeOK, CreatesAnew, CreatesAlone
<1>6. UpdatesAsked' /\ CopiesMayChange'
  BY <1>2 DEF Keys, UpdatesAsked, CopiesMayChange
<1> QED
  BY <1>3, <1>4, <1>5, <1>6 DEF Keys

LEMMA KeysElsewhere ==
  ASSUME VersionsAssumed, Keys, UNCHANGED edit, check' \in [of: Configs \cup {NoConfig}, server: Servers],
         config' \in [Configs -> Rows],
         \A c \in Configs : \/ /\ config'[c].here = config[c].here
                               /\ config'[c].key = config[c].key
                            \/ config'[c] = NoRow
  PROVE  Keys'
<1>1. NoRow.here = FALSE /\ NoRow.key = NoKey
  BY DEF NoRow
<1>2. ProvidersTypeOK' /\ GoneHasNoKey'
  BY <1>1 DEF Keys, ProvidersTypeOK, GoneHasNoKey
<1>3. CreatesAnew' /\ CreatesAlone' /\ UpdatesAsked' /\ CopiesMayChange'
  BY <1>1 DEF Keys, ProvidersTypeOK, CreatesAnew, CreatesAlone, UpdatesAsked, CopiesMayChange
<1> QED
  BY <1>2, <1>3 DEF Keys

LEMMA KeysNext ==
  ASSUME VersionsAssumed, Keys, [ProvidersNext]_providerVars
  PROVE  Keys'
<1>1. ASSUME NEW t \in Tabs, NEW c \in Configs, NEW s \in Servers,
             NEW key \in KeyChanges, NEW d \in BOOLEAN, BeginCreate(t, c, s, key, d)
      PROVE  Keys'
  <2> DEFINE e == [kind |-> "create", of |-> c, saw |-> Seen(NoRow), copy |-> NoRow,
                   server |-> s, for |-> s, key |-> key, default |-> d,
                   clears |-> IF d THEN Others(c) ELSE {}]
  <2>1. e \in Edits
    <3>1. Seen(NoRow) \in [version: 0..MaxVersion, server: Servers]
      BY NoRowType, SeenType
    <3> QED
      BY <3>1, NoRowType, Zenon DEF Edits, Others
  <2>2. e.kind = "create" /\ e.of = c /\ e.key = key /\ e.for = e.server /\ edit' = [edit EXCEPT ![t] = e]
    BY <1>1 DEF BeginCreate
  <2> HIDE DEF e
  <2> QED
    <3>1. /\ edit[t].kind = "none" /\ UNCHANGED <<config, check>>
          /\ ~config[c].here /\ e.key # "clear"
          /\ \A u \in Tabs : edit[u].of # c
      BY <1>1, <2>2 DEF BeginCreate
    <3>2. e.kind \notin {"none", "update", "default"}
      BY <2>2
    <3> QED
      BY <2>1, <2>2, <3>1, <3>2, KeysBegin
<1>2. ASSUME NEW t \in Tabs, NEW s \in Servers, NEW f \in Servers,
             NEW key \in KeyChanges, NEW d \in BOOLEAN, BeginUpdate(t, s, f, key, d)
      PROVE  Keys'
  <2> DEFINE c == edit[t].of
             saw == edit[t].saw
             clears == IF d /\ ~config[c].default THEN Others(c) ELSE {}
             e == [edit[t] EXCEPT !.kind = "update", !.copy = config[c], !.server = s,
                                  !.for = f, !.key = key, !.default = d, !.clears = clears]
  <2>1. c \in Configs /\ edit[t].kind = "form" /\ edit[t] \in Edits
    BY <1>2 DEF BeginUpdate, Keys, ProvidersTypeOK
  <2>2. config[c] \in Rows /\ clears \in SUBSET Configs
    BY <2>1 DEF Keys, ProvidersTypeOK, Others
  <2>3. e \in Edits
    <3> HIDE DEF clears
    <3> QED
      BY <2>1, <2>2 DEF Edits
  <2>4. edit' = [edit EXCEPT ![t] = e]
    BY <1>2, Zenon DEF BeginUpdate
  <2>5. /\ e.kind = "update" /\ e.of = c /\ e.key = key /\ e.copy = config[c]
        /\ e.server = s /\ e.for = f /\ e.saw = saw
    <3> HIDE DEF clears
    <3> QED
      BY <2>1 DEF Edits
  <2>6. /\ UNCHANGED <<config, check>> /\ config[c].here /\ config[c].version < MaxVersion
        /\ ~NeedsKey(config[c], s, key) /\ config[c].version = saw.version
        /\ f = s \/ (s = config[c].server /\ f = saw.server)
    BY <1>2 DEF BeginUpdate
  <2> HIDE DEF c, e, saw
  <2> QED
    <3>1. /\ edit[t].kind \in {"none", "form"} /\ UNCHANGED <<config, check>>
          /\ config[c].here /\ e.copy.version < MaxVersion
          /\ ~NeedsKey(e.copy, e.server, e.key)
          /\ \/ e.for = e.server
             \/ /\ e.server = e.copy.server /\ e.for = e.saw.server
                /\ e.saw.version = e.copy.version
      BY <2>1, <2>5, <2>6
    <3>2. e.kind \notin {"none", "create", "default"}
      BY <2>5
    <3> QED
      BY <2>1, <2>3, <2>4, <2>5, <3>1, <3>2, KeysBegin
<1>3. ASSUME NEW t \in Tabs, NEW c \in Configs, BeginDefault(t, c)
      PROVE  Keys'
  <2> DEFINE e == [kind |-> "default", of |-> c, saw |-> Seen(config[c]),
                   copy |-> config[c], server |-> config[c].server,
                   for |-> config[c].server, key |-> "keep", default |-> TRUE,
                   clears |-> Others(c)]
  <2>1. e \in Edits
    <3>1. /\ config[c] \in Rows /\ config[c].server \in Servers
          /\ Seen(config[c]) \in [version: 0..MaxVersion, server: Servers]
      BY SeenType DEF Keys, ProvidersTypeOK, Rows
    <3> QED
      BY <3>1, Zenon DEF Edits, Others, KeyChanges
  <2>2. /\ e.kind = "default" /\ e.of = c /\ e.key = "keep" /\ e.copy = config[c]
        /\ e.server = config[c].server /\ edit' = [edit EXCEPT ![t] = e]
    BY <1>3 DEF BeginDefault
  <2> HIDE DEF e
  <2> QED
    <3>1. /\ edit[t].kind = "none" /\ UNCHANGED <<config, check>>
          /\ config[c].here /\ e.copy.version < MaxVersion
      BY <1>3, <2>2 DEF BeginDefault
    <3>2. e.kind \notin {"none", "create", "update"} /\ e.server = e.copy.server
      BY <2>2
    <3> QED
      BY <2>1, <2>2, <3>1, <3>2, KeysBegin
<1>4. ASSUME NEW c \in Configs, DeleteProvider(c) PROVE Keys'
  BY <1>4, NoRowType, KeysElsewhere DEF DeleteProvider, Keys, ProvidersTypeOK
<1>5. ASSUME NEW c \in Configs, BeginCheck(c) PROVE Keys'
  <2>1. check' \in [of: Configs \cup {NoConfig}, server: Servers]
    BY <1>5 DEF BeginCheck, Keys, ProvidersTypeOK, Rows
  <2> QED
    BY <1>5, <2>1, KeysElsewhere DEF BeginCheck, Keys, ProvidersTypeOK
<1>6. CASE EndCheck
  <2>1. check' \in [of: Configs \cup {NoConfig}, server: Servers]
    BY <1>6, NoRowType DEF EndCheck, NoCheck
  <2>2. \A c \in Configs : [config[c] EXCEPT !.checked = check.server] \in Rows
    BY DEF Keys, ProvidersTypeOK, Rows
  <2>3. config' \in [Configs -> Rows]
    BY <1>6, <2>2 DEF EndCheck, Keys, ProvidersTypeOK
  <2>4. \A c \in Configs : config'[c].here = config[c].here /\ config'[c].key = config[c].key
    BY <1>6 DEF EndCheck, Keys, ProvidersTypeOK, Rows
  <2> QED
    <3>1. UNCHANGED edit
      BY <1>6 DEF EndCheck
    <3> QED
      BY <2>1, <2>3, <2>4, <3>1, KeysElsewhere, Zenon
<1>7. CASE UNCHANGED providerVars
  BY <1>7, KeysElsewhere DEF providerVars, Keys, ProvidersTypeOK
<1>8. ASSUME NEW t \in Tabs, NEW c \in Configs, ShowForm(t, c) PROVE Keys'
  <2> DEFINE e == [NoEdit EXCEPT !.kind = "form", !.of = c, !.saw = Seen(config[c])]
  <2>1. e \in Edits /\ e.kind = "form" /\ e.of = c
    <3>1. Seen(config[c]) \in [version: 0..MaxVersion, server: Servers]
      BY SeenType DEF Keys, ProvidersTypeOK
    <3> QED
      BY <3>1, NoEditType DEF Edits
  <2>2. edit[t].kind = "none" /\ edit' = [edit EXCEPT ![t] = e]
        /\ UNCHANGED <<config, check>> /\ config[c].here
    BY <1>8 DEF ShowForm
  <2> HIDE DEF e
  <2> QED
    BY <2>1, <2>2, KeysBegin
<1>9. ASSUME NEW t \in Tabs, LeaveForm(t) PROVE Keys'
  <2>1. edit' \in [Tabs -> Edits] /\ edit'[t].kind = "none" /\ UNCHANGED <<config, check>>
        /\ \A u \in Tabs \ {t} : edit'[u] = edit[u]
    BY <1>9, NoEditType, Zenon DEF LeaveForm, Keys, ProvidersTypeOK
  <2>2. ProvidersTypeOK' /\ GoneHasNoKey'
    BY <2>1 DEF Keys, ProvidersTypeOK, GoneHasNoKey
  <2>3. CreatesAnew' /\ CreatesAlone' /\ UpdatesAsked' /\ CopiesMayChange'
    BY <2>1 DEF Keys, CreatesAnew, CreatesAlone, UpdatesAsked, CopiesMayChange
  <2> QED
    BY <2>2, <2>3 DEF Keys
<1> QED
  BY <1>1, <1>2, <1>3, <1>4, <1>5, <1>6, <1>7, <1>8, <1>9, KeysCommit
     DEF ProvidersNext, UserOnProviders

\* The rows are written by commits, deletions and checks only
LEMMA OnlyCommitsWrite ==
  ASSUME [ProvidersNext]_providerVars, ~\E t \in Tabs : Commit(t)
  PROVE  config' = config \/ EndCheck \/ \E d \in Configs : DeleteProvider(d)
<1>1. ASSUME NEW t \in Tabs, NEW c \in Configs, NEW s \in Servers,
             NEW key \in KeyChanges, NEW d \in BOOLEAN, BeginCreate(t, c, s, key, d)
      PROVE  config' = config
  BY <1>1 DEF BeginCreate
<1>2. ASSUME NEW t \in Tabs, NEW s \in Servers, NEW f \in Servers,
             NEW key \in KeyChanges, NEW d \in BOOLEAN, BeginUpdate(t, s, f, key, d)
      PROVE  config' = config
  BY <1>2 DEF BeginUpdate
<1>3. ASSUME NEW t \in Tabs, NEW c \in Configs, ShowForm(t, c) \/ BeginDefault(t, c)
      PROVE  config' = config
  BY <1>3 DEF ShowForm, BeginDefault
<1>4. ASSUME NEW t \in Tabs, LeaveForm(t) PROVE config' = config
  BY <1>4 DEF LeaveForm
<1>5. ASSUME NEW c \in Configs, BeginCheck(c) PROVE config' = config
  BY <1>5 DEF BeginCheck
<1>6. CASE UNCHANGED providerVars
  BY <1>6 DEF providerVars
<1> QED
  BY <1>1, <1>2, <1>3, <1>4, <1>5, <1>6, Zenon DEF ProvidersNext, UserOnProviders

-----------------------------------------------------------------------------
\* The rows of the providers are what their columns admit.
THEOREM ConfigsTyped == VersionsAssumed => (ProvidersSpec => []ProvidersTypeOK)
<1> SUFFICES ASSUME VersionsAssumed PROVE ProvidersSpec => []ProvidersTypeOK
  OBVIOUS
<1>1. Keys /\ [ProvidersNext]_providerVars => Keys'
  BY KeysNext
<1>2. Keys => ProvidersTypeOK
  BY DEF Keys
<1> QED
  BY <1>1, <1>2, KeysStart, PTL DEF ProvidersSpec

\* No step moves a key away from its server, but for an update whose copy of the row is
\* not the row any more (providers.py 286-350: the checks on what was read), or whose user
\* saw another server under the version the row has.
THEOREM KeysStay ==
  VersionsAssumed => (ProvidersSpec => KeyStaysWithItsServer)
<1> SUFFICES ASSUME VersionsAssumed PROVE ProvidersSpec => KeyStaysWithItsServer
  OBVIOUS
<1> DEFINE Moves(c) == Fits(config[c]) /\ ~Fits(config'[c])
           Stale(c) == \E t \in Tabs : /\ edit[t].kind = "update" /\ edit[t].of = c
                                       /\ \/ edit[t].copy # config[c]
                                          \/ /\ edit[t].saw.version = edit[t].copy.version
                                             /\ edit[t].saw.server # edit[t].copy.server
<1>1. ASSUME Keys, [ProvidersNext]_providerVars, NEW c \in Configs, Moves(c)
      PROVE  Stale(c)
  <2>1. PICK t \in Tabs : Commit(t)
    <3>1. ASSUME ~\E t \in Tabs : Commit(t)
          PROVE  \/ config'[c].key = config[c].key /\ config'[c].server = config[c].server
                 \/ config'[c] = NoRow
      <4>1. \/ config' = config \/ EndCheck \/ \E d \in Configs : DeleteProvider(d)
        BY <1>1, <3>1, OnlyCommitsWrite
      <4>2. config \in [Configs -> Rows]
        BY <1>1 DEF Keys, ProvidersTypeOK
      <4>3. CASE EndCheck
        BY <4>2, <4>3 DEF EndCheck, Rows
      <4>4. ASSUME NEW d \in Configs, DeleteProvider(d)
            PROVE  config'[c] = config[c] \/ config'[c] = NoRow
        BY <4>2, <4>4, Zenon DEF DeleteProvider
      <4> QED
        BY <4>1, <4>3, <4>4
    <3> QED
      BY <1>1, <3>1 DEF Fits, NoRow
  <2> DEFINE e == edit[t]
  <2>2. e \in Edits /\ config[c] \in Rows /\ e.kind \in {"create", "update", "default"}
    BY <1>1, <2>1 DEF Keys, ProvidersTypeOK, Commit, Edits
  <2>3. e.of = c
    BY <1>1, <2>1, CommittedRow DEF Fits
  <2>4. config'[c] = Written(e, config[c])
    BY <1>1, <2>1, <2>3 DEF Commit, Fits
  <2>5. CASE e.kind = "create"
    <3>1. config[c].key = NoKey /\ e.key \in {"keep", "new"} /\ e.for = e.server
      BY <1>1, <2>2, <2>3, <2>5
         DEF Keys, CreatesAnew, GoneHasNoKey, UpdatesAsked, Edits, KeyChanges
    <3> QED
      BY <1>1, <2>2, <2>4, <2>5, <3>1 DEF Written, Fits, Rows
  <2>6. CASE e.kind = "default"
    BY <1>1, <2>2, <2>4, <2>6 DEF Written, Fits, Rows, Keys, UpdatesAsked
  <2>7. CASE e.kind = "update" /\ e.copy = config[c] /\ e.for = e.server
    <3>1. ~NeedsKey(config[c], e.server, e.key) /\ e.key \in KeyChanges
      BY <1>1, <2>2, <2>7 DEF Keys, UpdatesAsked, Edits
    <3> QED
      BY <1>1, <2>2, <2>4, <2>7, <3>1 DEF Written, Fits, Rows, NeedsKey, KeyChanges
  <2>8. CASE e.kind = "update" /\ e.for # e.server
    <3>1. /\ e.server = e.copy.server /\ e.for = e.saw.server
          /\ e.saw.version = e.copy.version
      BY <1>1, <2>8 DEF Keys, UpdatesAsked
    <3> QED
      BY <2>3, <2>8, <3>1
  <2> QED
    BY <2>2, <2>3, <2>5, <2>6, <2>7, <2>8
<1>2. ASSUME Keys, [ProvidersNext]_providerVars
      PROVE  [config' # config => \A c \in Configs : Moves(c) => Stale(c)]_providerVars
  BY <1>1, <1>2
<1>3. Keys /\ [ProvidersNext]_providerVars => Keys'
  BY KeysNext
<1> QED
  BY <1>2, <1>3, KeysStart, PTL DEF ProvidersSpec, KeyStaysWithItsServer

-----------------------------------------------------------------------------
(* The assistant: invariants *)

\* MAX_STEPS is a positive number, and a message names a provider there is
StepsAssumed ==
  /\ MaxSteps \in Nat \ {0} /\ MaxSwitches \in Nat
  /\ Named \subseteq ChatModels

Ledgers == [Turns -> [WorkTools \X (0..MaxSteps - 1) ->
                           {"none", "started", "succeeded", "failed", "uncertain"}]]

\* Nothing has gone to a model before the run is past its consent
NothingYet ==
  \A m \in Turns : turn[m].at \in {"none", "consent", "waiting"} => ~turn[m].exposed

\* A run that may talk has the user's word, unless something moved
Allowed(m, model) == model \in DeviceModels \/ chat[turn[m].chat].consented

Agreed ==
  \A m \in Turns : Underway(m) /\ turn[m].approved /\ ~turn[m].moved => Allowed(m, Resolved(m))

InConversation(m) == turn[m].at \in {"talking", "working", "worked"}

\* The model that was looked up is one the word covers
TalksAsAgreed ==
  \A m \in Turns : InConversation(m) =>
    /\ turn[m].approved
    /\ turn[m].step < MaxSteps
    /\ turn[m].at # "talking" => turn[m].tool \in WorkTools
    /\ ~turn[m].moved => Allowed(m, turn[m].model)

Word ==
  /\ AssistantTypeOK
  /\ NothingYet /\ Agreed /\ TalksAsAgreed
  /\ ConsentBeforeOnline

-----------------------------------------------------------------------------
\* What a step of one run has to keep, with the conversations as they were or with
\* more consent: all other runs keep theirs
LEMMA OneRun ==
  ASSUME Word, NEW m \in Turns, NEW t \in TurnRows, turn' = [turn EXCEPT ![m] = t],
         chat' \in [Chats -> [state : {"new", "open", "cleared"}, consented : BOOLEAN]],
         \A c \in Chats : chat[c].consented => chat'[c].consented,
         done' \in Ledgers,
         UNCHANGED <<usual, switched>>,
         t.at # "none" => t.chat \in Chats,
         t.at \in {"none", "consent", "waiting"} => ~t.exposed,
         t.exposed => t.moved,
         t.at \in {"converse", "talking", "working", "worked", "save"} /\ t.approved /\ ~t.moved
           => (IF t.named = NoModel THEN usual ELSE t.named) \in DeviceModels
              \/ chat'[t.chat].consented,
         t.at \in {"talking", "working", "worked"} =>
           /\ t.approved
           /\ t.step < MaxSteps
           /\ t.at # "talking" => t.tool \in WorkTools
           /\ ~t.moved => t.model \in DeviceModels \/ chat'[t.chat].consented
  PROVE  Word'
<1>1. turn' \in [Turns -> TurnRows] /\ turn'[m] = t /\ \A n \in Turns \ {m} : turn'[n] = turn[n]
  BY DEF Word, AssistantTypeOK
<1>2. AssistantTypeOK'
  BY <1>1 DEF Word, AssistantTypeOK, Ledgers
<1>3. NothingYet' /\ ConsentBeforeOnline'
  BY <1>1 DEF Word, NothingYet, ConsentBeforeOnline
<1>4. Agreed'
  <2> SUFFICES ASSUME NEW n \in Turns, Underway(n)', turn'[n].approved, ~turn'[n].moved
               PROVE  Allowed(n, Resolved(n))'
    BY DEF Agreed
  <2>1. CASE n = m
    BY <1>1, <2>1 DEF Underway, Allowed, Resolved
  <2>2. CASE n # m
    <3>1. turn'[n] = turn[n] /\ turn[n].chat \in Chats
      BY <1>1, <2>2 DEF Word, AssistantTypeOK, Underway
    <3> QED
      BY <3>1 DEF Word, Agreed, Underway, Allowed, Resolved
  <2> QED
    BY <2>1, <2>2
<1>5. TalksAsAgreed'
  <2> SUFFICES ASSUME NEW n \in Turns, InConversation(n)'
               PROVE  (/\ turn[n].approved
                       /\ turn[n].step < MaxSteps
                       /\ turn[n].at # "talking" => turn[n].tool \in WorkTools
                       /\ ~turn[n].moved => Allowed(n, turn[n].model))'
    BY DEF TalksAsAgreed
  <2>1. CASE n = m
    BY <1>1, <2>1 DEF InConversation, Allowed
  <2>2. CASE n # m
    <3>1. turn'[n] = turn[n] /\ turn[n].chat \in Chats
      BY <1>1, <2>2 DEF Word, AssistantTypeOK, InConversation
    <3> QED
      BY <3>1 DEF Word, TalksAsAgreed, InConversation, Allowed
  <2> QED
    BY <2>1, <2>2
<1> QED
  BY <1>2, <1>3, <1>4, <1>5 DEF Word
LEMMA NoTurnType ==
  ASSUME StepsAssumed
  PROVE  NoTurn \in TurnRows /\ 0 \in 0..MaxSteps /\ 0 \in 0..MaxSwitches
<1>1. 0 \in 0..MaxSteps /\ 0 \in 0..MaxSwitches
  BY DEF StepsAssumed
<1> QED
  BY <1>1, Zenon DEF NoTurn, TurnRows

\* A run that talks, to whichever model and at whichever step
Talks(t, r, s) == [t EXCEPT !.at = "talking", !.model = r, !.step = s]
LEMMA TalksRow ==
  ASSUME NEW t \in TurnRows, NEW r \in ChatModels \cup {NoModel}, NEW s \in 0..MaxSteps
  PROVE  LET u == Talks(t, r, s)
         IN  /\ u \in TurnRows /\ u.at = "talking" /\ u.chat = t.chat
             /\ u.exposed = t.exposed /\ u.moved = t.moved /\ u.approved = t.approved
             /\ u.named = t.named /\ u.model = r /\ u.step = s
<1> DEFINE v == [t EXCEPT !.at = "talking"]
           w == [v EXCEPT !.model = r]
           u == [w EXCEPT !.step = s]
<1>1. /\ v \in TurnRows /\ v.at = "talking" /\ v.chat = t.chat /\ v.exposed = t.exposed
      /\ v.moved = t.moved /\ v.approved = t.approved /\ v.named = t.named
  BY DEF TurnRows
<1> HIDE DEF v
<1>2. /\ w \in TurnRows /\ w.at = v.at /\ w.chat = v.chat /\ w.exposed = v.exposed
      /\ w.moved = v.moved /\ w.approved = v.approved /\ w.named = v.named
      /\ w.model = r
  BY <1>1 DEF TurnRows
<1> HIDE DEF w
<1>3. /\ u \in TurnRows /\ u.at = w.at /\ u.chat = w.chat /\ u.exposed = w.exposed
      /\ u.moved = w.moved /\ u.approved = w.approved /\ u.named = w.named
      /\ u.model = w.model /\ u.step = s
  BY <1>2 DEF TurnRows
<1> HIDE DEF u
<1>4. u = Talks(t, r, s)
  BY DEF u, v, w, Talks
<1> QED
  BY <1>1, <1>2, <1>3, <1>4

LEMMA WordStarts == StepsAssumed /\ AssistantInit => Word
<1> SUFFICES ASSUME StepsAssumed, AssistantInit PROVE Word
  OBVIOUS
<1>1. NoTurn \in TurnRows /\ NoTurn.at = "none" /\ NoTurn.exposed = FALSE
  BY NoTurnType DEF NoTurn
<1>2. AssistantTypeOK
  BY <1>1, NoTurnType DEF AssistantInit, AssistantTypeOK
<1> QED
  BY <1>1, <1>2 DEF AssistantInit, Word, NothingYet, Agreed, TalksAsAgreed, Underway,
     InConversation, ConsentBeforeOnline

LEMMA OverType ==
  ASSUME StepsAssumed, NEW t \in TurnRows
  PROVE  /\ Over(t) \in TurnRows /\ Over(t).at = "ended" /\ Over(t).chat = t.chat
         /\ Over(t).exposed = t.exposed /\ Over(t).moved = (t.exposed /\ t.moved)
<1>1. NoTurn \in TurnRows
  BY NoTurnType
<1>2. /\ Over(t).at = "ended" /\ Over(t).chat = t.chat
      /\ Over(t).exposed = t.exposed /\ Over(t).moved = (t.exposed /\ t.moved)
  BY Zenon DEF Over, NoTurn
<1>3. Over(t) \in TurnRows
  <2> DEFINE b == t.exposed /\ t.moved
  <2>1. b \in BOOLEAN /\ t.chat \in Chats \cup {"none"} /\ t.replied \in BOOLEAN
        /\ t.exposed \in BOOLEAN
    BY DEF TurnRows
  <2>2. Over(t) = [NoTurn EXCEPT !.at = "ended", !.chat = t.chat, !.replied = t.replied,
                                 !.exposed = t.exposed, !.moved = b]
    BY DEF Over
  <2> HIDE DEF b
  <2> QED
    BY ZenonT(40), <1>1, <2>1, <2>2 DEF TurnRows
<1> QED
  BY <1>2, <1>3

\* An entry of the ledger that is written keeps its type
LEMMA Entered ==
  ASSUME NEW d \in Ledgers, NEW m \in Turns, NEW key \in WorkTools \X (0..MaxSteps - 1),
         NEW x \in {"none", "started", "succeeded", "failed", "uncertain"}
  PROVE  [d EXCEPT ![m][key] = x] \in Ledgers
BY DEF Ledgers

\* The next step of a conversation is inside the bound, or there is none
LEMMA NextStepType ==
  ASSUME StepsAssumed, NEW t \in TurnRows, t.step < MaxSteps
  PROVE  LET u == NextStep(t) IN
         /\ u \in TurnRows /\ u.at \in {"save", "talking"}
         /\ u.at = "talking" => u.step < MaxSteps
         /\ u.chat = t.chat /\ u.named = t.named /\ u.model = t.model
         /\ u.approved = t.approved /\ u.exposed = t.exposed /\ u.moved = t.moved
<1>1. t.step + 1 \in 0..MaxSteps /\ (t.step + 1 # MaxSteps => t.step + 1 < MaxSteps)
  BY DEF TurnRows, StepsAssumed
<1> QED
  BY ZenonT(40), <1>1 DEF NextStep, TurnRows

\* A message that goes to the model, with the word of its conversation or after a move
LEMMA ToldAsAgreed ==
  ASSUME Word, NEW m \in Turns, turn[m].at = "talking"
  PROVE  LET u == Told(m) IN
         /\ u \in TurnRows /\ u.at = "talking" /\ u.step = turn[m].step
         /\ u.chat = turn[m].chat /\ u.named = turn[m].named /\ u.model = turn[m].model
         /\ u.approved = turn[m].approved /\ u.moved = turn[m].moved
         /\ u.exposed => u.moved
<1> DEFINE b == turn[m].exposed \/ Exposes(m)
<1>1. turn[m] \in TurnRows
  BY DEF Word, AssistantTypeOK
<1>2. b \in BOOLEAN
  OBVIOUS
<1>3. b => turn[m].moved
  BY DEF Word, ConsentBeforeOnline, TalksAsAgreed, InConversation, Exposes, Allowed
<1> HIDE DEF b
<1>4. /\ [turn[m] EXCEPT !.exposed = b] \in TurnRows
      /\ [turn[m] EXCEPT !.exposed = b].exposed = b
  BY <1>1, <1>2 DEF TurnRows
<1> QED
  BY <1>1, <1>3, <1>4 DEF b, Told, TurnRows

\* A run that is past its consent goes on with the same word
LEMMA GoesOn ==
  ASSUME Word, NEW m \in Turns, Underway(m), NEW u \in TurnRows,
         turn' = [turn EXCEPT ![m] = u], UNCHANGED <<chat, usual, switched>>,
         done' \in Ledgers,
         u.chat = turn[m].chat, u.named = turn[m].named,
         u.approved = turn[m].approved, u.moved = turn[m].moved, u.exposed => u.moved,
         \/ u.at \in {"converse", "save"}
         \/ /\ InConversation(m) /\ u.at \in {"talking", "working", "worked"}
            /\ u.model = turn[m].model /\ u.step < MaxSteps
            /\ u.at # "talking" => u.tool \in WorkTools
  PROVE  Word'
<1>1. turn[m].chat \in Chats /\ turn \in [Turns -> TurnRows]
  BY DEF Word, AssistantTypeOK, Underway
<1>2. chat' \in [Chats -> [state : {"new", "open", "cleared"}, consented : BOOLEAN]]
  BY DEF Word, AssistantTypeOK
<1>3. u.approved /\ ~u.moved =>
        (IF u.named = NoModel THEN usual ELSE u.named) \in DeviceModels \/ chat'[u.chat].consented
  BY DEF Word, Agreed, Allowed, Resolved
<1>4. u.at \in {"talking", "working", "worked"} =>
        /\ u.approved
        /\ ~u.moved => u.model \in DeviceModels \/ chat'[u.chat].consented
  BY DEF Word, TalksAsAgreed, Allowed
<1> QED
  BY <1>1, <1>2, <1>3, <1>4, OneRun

\* The steps of a run, from its consent to its end
LEMMA RunSteps ==
  ASSUME StepsAssumed, Word, NEW m \in Turns,
         \/ Consent(m) \/ BeginConverse(m) \/ Replies(m) \/ LooksUp(m) \/ RunTool(m)
         \/ WorkRecorded(m) \/ SaveReply(m) \/ TurnCut(m) \/ TurnEnds(m)
         \/ \E w \in WorkTools : AsksForWork(m, w)
         \/ \E yes \in BOOLEAN : Decide(m, yes)
  PROVE  Word'
<1> DEFINE t == turn[m]
<1>1. /\ t \in TurnRows /\ turn \in [Turns -> TurnRows] /\ done \in Ledgers
      /\ chat \in [Chats -> [state : {"new", "open", "cleared"}, consented : BOOLEAN]]
      /\ t.at # "none" => t.chat \in Chats
      /\ t.exposed => t.moved
  BY DEF Word, AssistantTypeOK, ConsentBeforeOnline, Ledgers
<1>2. ASSUME NEW u \in TurnRows, turn' = [turn EXCEPT ![m] = u],
             UNCHANGED <<chat, usual, switched>>, done' \in Ledgers,
             u.chat = t.chat, t.at # "none", u.at = "ended", u.exposed => u.moved
      PROVE  Word'
  BY <1>1, <1>2, OneRun
<1>3. CASE TurnEnds(m)
  BY <1>1, <1>2, <1>3, OverType DEF TurnEnds
<1>4. CASE SaveReply(m)
  <2> DEFINE o == Over(t)
             b == o.replied \/ chat[t.chat].state = "open"
             u == [o EXCEPT !.replied = b]
  <2>1. turn' = [turn EXCEPT ![m] = u]
    BY <1>4, Zenon DEF SaveReply
  <2>2. UNCHANGED <<chat, done, usual, switched>> /\ t.at # "none"
    BY <1>4 DEF SaveReply
  <2>3. b \in BOOLEAN
    OBVIOUS
  <2> HIDE DEF b
  <2>4. o \in TurnRows /\ o.chat = t.chat /\ o.at = "ended" /\ (o.exposed => o.moved)
    BY <1>1, OverType
  <2> HIDE DEF o
  <2>5. u \in TurnRows /\ u.chat = t.chat /\ u.at = "ended" /\ (u.exposed => u.moved)
    BY <1>1, <2>3, <2>4 DEF TurnRows
  <2> HIDE DEF u
  <2> QED
    BY <1>1, <1>2, <2>1, <2>2, <2>5
<1>5. CASE TurnCut(m)
  <2> DEFINE u == [t EXCEPT !.at = "converse", !.tool = "none", !.model = NoModel, !.step = 0]
  <2>1. u \in TurnRows /\ u.at = "converse" /\ u.chat = t.chat /\ u.exposed = t.exposed
        /\ u.moved = t.moved /\ u.approved = t.approved /\ u.named = t.named
    BY ZenonT(40), <1>1, NoTurnType DEF TurnRows
  <2>2. /\ turn' = [turn EXCEPT ![m] = u] /\ UNCHANGED <<chat, done, usual, switched>>
        /\ Underway(m)
    BY <1>1, <1>5 DEF TurnCut, TurnRows, Underway
  <2> HIDE DEF u
  <2> QED
    BY <1>1, <2>1, <2>2, GoesOn
<1>6. CASE \E yes \in BOOLEAN : Decide(m, yes)
  <2> PICK yes \in BOOLEAN : Decide(m, yes)
    BY <1>6
  <2> DEFINE u == [t EXCEPT !.at = "consent", !.asked = IF yes THEN "approved" ELSE "rejected"]
  <2>1. u \in TurnRows /\ u.at = "consent" /\ u.chat = t.chat /\ u.exposed = t.exposed
    BY <1>1 DEF TurnRows
  <2>2. /\ turn' = [turn EXCEPT ![m] = u] /\ UNCHANGED <<chat, done, usual, switched>>
        /\ t.at = "waiting"
    BY DEF Decide
  <2>3. ~t.exposed
    BY <2>2 DEF Word, NothingYet
  <2> HIDE DEF u
  <2> QED
    BY <1>1, <2>1, <2>2, <2>3, OneRun
<1>7. CASE Consent(m)
  <2>1. /\ t.at = "consent" /\ ~t.exposed /\ t.chat \in Chats
        /\ UNCHANGED <<done, usual, switched>>
    BY <1>1, <1>7 DEF Consent, Word, NothingYet
  <2>2. CASE chat[t.chat].state = "cleared"
    BY <1>1, <1>2, <1>7, <2>1, <2>2, OverType DEF Consent
  <2>3. CASE chat[t.chat].state # "cleared" /\ ~NeedsConsent(m)
    <3> DEFINE u == [t EXCEPT !.at = "converse", !.approved = TRUE, !.moved = FALSE]
    <3>1. u \in TurnRows /\ u.at = "converse" /\ u.chat = t.chat /\ u.exposed = t.exposed
          /\ u.named = t.named
      BY <1>1 DEF TurnRows
    <3>2. turn' = [turn EXCEPT ![m] = u] /\ UNCHANGED chat
      BY <1>7, <2>3 DEF Consent
    <3>3. (IF u.named = NoModel THEN usual ELSE u.named) \in DeviceModels
          \/ chat'[u.chat].consented
      BY <2>3, <3>1, <3>2 DEF NeedsConsent, Resolved
    <3> HIDE DEF u
    <3> QED
      BY <1>1, <2>1, <3>1, <3>2, <3>3, OneRun
  <2>4. CASE chat[t.chat].state # "cleared" /\ NeedsConsent(m) /\ t.asked \in {"no", "pending"}
    <3> DEFINE u == [t EXCEPT !.at = "waiting", !.asked = "pending"]
    <3>1. u \in TurnRows /\ u.at = "waiting" /\ u.chat = t.chat /\ u.exposed = t.exposed
      BY <1>1 DEF TurnRows
    <3>2. turn' = [turn EXCEPT ![m] = u] /\ UNCHANGED chat
      BY <1>7, <2>4 DEF Consent
    <3> HIDE DEF u
    <3> QED
      BY <1>1, <2>1, <3>1, <3>2, OneRun
  <2>5. CASE /\ chat[t.chat].state # "cleared" /\ NeedsConsent(m)
             /\ t.asked \notin {"no", "pending"}
    <3> DEFINE b == t.asked = "approved"
               k == chat[t.chat].consented \/ b
               u == [t EXCEPT !.at = "converse", !.moved = FALSE, !.approved = b]
    <3>0. b \in BOOLEAN /\ k \in BOOLEAN
      OBVIOUS
    <3>1. /\ turn' = [turn EXCEPT ![m] = u]
          /\ chat' = [chat EXCEPT ![t.chat].consented = k]
      BY <1>7, <2>5 DEF Consent
    <3>2. b => k
      OBVIOUS
    <3>3. chat[t.chat].consented => k
      OBVIOUS
    <3> HIDE DEF b, k
    <3>4. u \in TurnRows /\ u.at = "converse" /\ u.chat = t.chat /\ u.exposed = t.exposed
          /\ u.approved = b
      BY <1>1, <3>0 DEF TurnRows
    <3>5. /\ chat' \in [Chats -> [state : {"new", "open", "cleared"}, consented : BOOLEAN]]
          /\ \A c \in Chats : chat[c].consented => chat'[c].consented
          /\ chat'[t.chat].consented = k
      BY <1>1, <2>1, <3>0, <3>1, <3>3
    <3> HIDE DEF u
    <3> QED
      BY <1>1, <2>1, <3>1, <3>2, <3>4, <3>5, OneRun
  <2> QED
    BY <2>2, <2>3, <2>4, <2>5
<1>8. CASE BeginConverse(m)
  <2>1. t.at = "converse" /\ t.chat \in Chats /\ Underway(m)
        /\ UNCHANGED <<chat, done, usual, switched>>
    BY <1>1, <1>8 DEF BeginConverse, Underway
  <2>2. CASE ~t.approved
    <3> DEFINE u == [t EXCEPT !.at = "save"]
    <3>1. u \in TurnRows /\ u.at = "save" /\ u.chat = t.chat /\ u.exposed = t.exposed
          /\ u.moved = t.moved /\ u.approved = t.approved /\ u.named = t.named
      BY <1>1 DEF TurnRows
    <3>2. turn' = [turn EXCEPT ![m] = u]
      BY <1>8, <2>2 DEF BeginConverse
    <3> HIDE DEF u
    <3> QED
      BY <1>1, <2>1, <3>1, <3>2, GoesOn
  <2>3. CASE t.approved /\ chat[t.chat].state = "cleared"
    BY <1>1, <1>2, <1>8, <2>1, <2>3, OverType DEF BeginConverse
  <2>4. CASE t.approved /\ chat[t.chat].state # "cleared"
    <3> DEFINE u == Talks(t, Resolved(m), 0)
    <3>1. Resolved(m) \in ChatModels \cup {NoModel} /\ 0 < MaxSteps
      BY <1>1 DEF Resolved, TurnRows, Word, AssistantTypeOK, StepsAssumed
    <3>2. u \in TurnRows /\ u.at = "talking" /\ u.chat = t.chat /\ u.exposed = t.exposed
          /\ u.moved = t.moved /\ u.approved = t.approved /\ u.named = t.named
          /\ u.model = Resolved(m) /\ u.step = 0
      BY <1>1, <3>1, NoTurnType, TalksRow
    <3>3. turn' = [turn EXCEPT ![m] = u]
      BY <1>8, <2>4, Zenon DEF BeginConverse, Talks
    <3>4. ~t.moved => Resolved(m) \in DeviceModels \/ chat[t.chat].consented
      BY <2>1, <2>4 DEF Word, Agreed, Allowed
    <3>5. Resolved(m) = IF t.named = NoModel THEN usual ELSE t.named
      BY DEF Resolved
    <3> HIDE DEF u
    <3> QED
      BY <1>1, <2>1, <2>4, <3>1, <3>2, <3>3, <3>4, <3>5, OneRun
  <2> QED
    BY <2>2, <2>3, <2>4
<1>9. ASSUME t.at = "talking"
      PROVE  /\ Underway(m) /\ InConversation(m) /\ t.approved /\ t.step < MaxSteps
  BY <1>9 DEF Word, TalksAsAgreed, Underway, InConversation
<1>10. CASE Replies(m)
  <2> DEFINE v == Told(m)
             u == [v EXCEPT !.at = "save"]
  <2>1. t.at = "talking" /\ UNCHANGED <<chat, done, usual, switched>>
    BY <1>10 DEF Replies
  <2>2. /\ v \in TurnRows /\ v.chat = t.chat /\ v.named = t.named
        /\ v.approved = t.approved /\ v.moved = t.moved
        /\ v.exposed => v.moved
    BY <2>1, ToldAsAgreed
  <2>3. turn' = [turn EXCEPT ![m] = u]
    BY <1>10, Zenon DEF Replies
  <2> HIDE DEF v
  <2>4. /\ u \in TurnRows /\ u.at = "save" /\ u.chat = t.chat /\ u.named = t.named
        /\ u.approved = t.approved /\ u.moved = t.moved
        /\ u.exposed => u.moved
    BY <2>2 DEF TurnRows
  <2> HIDE DEF u
  <2> QED
    BY <1>1, <1>9, <2>1, <2>3, <2>4, GoesOn
<1>11. CASE LooksUp(m)
  <2> DEFINE v == Told(m)
             u == NextStep(v)
  <2>1. t.at = "talking" /\ UNCHANGED <<chat, done, usual, switched>>
    BY <1>11 DEF LooksUp
  <2>2. /\ v \in TurnRows /\ v.chat = t.chat /\ v.named = t.named /\ v.step = t.step
        /\ v.approved = t.approved /\ v.moved = t.moved /\ v.model = t.model
        /\ v.exposed => v.moved
    BY <2>1, ToldAsAgreed
  <2>3. turn' = [turn EXCEPT ![m] = u]
    BY <1>11, Zenon DEF LooksUp
  <2> HIDE DEF v
  <2>4. /\ u \in TurnRows /\ u.at \in {"save", "talking"}
        /\ u.at = "talking" => u.step < MaxSteps
        /\ u.chat = v.chat /\ u.named = v.named /\ u.model = v.model
        /\ u.approved = v.approved /\ u.exposed = v.exposed /\ u.moved = v.moved
    BY <1>9, <2>1, <2>2, NextStepType
  <2> HIDE DEF u
  <2> QED
    BY <1>1, <1>9, <2>1, <2>2, <2>3, <2>4, GoesOn
<1>12. CASE RunTool(m) \/ WorkRecorded(m)
  <2>1. Underway(m) /\ InConversation(m) /\ t.step < MaxSteps /\ UNCHANGED <<chat, usual, switched>>
    BY <1>12 DEF RunTool, WorkRecorded, Word, TalksAsAgreed, Underway, InConversation
  <2>2. t.tool \in WorkTools
    BY <1>12 DEF RunTool, WorkRecorded, Word, TalksAsAgreed, InConversation
  <2>3. done' \in Ledgers
    <3>1. done' = done \/ \E x \in {"failed", "succeeded"} :
            done' = [done EXCEPT ![m][<<t.tool, t.step>>] = x]
      BY <1>12 DEF RunTool, WorkRecorded, Go
    <3>2. <<t.tool, t.step>> \in WorkTools \X (0..MaxSteps - 1)
      BY <1>1, <2>1, <2>2 DEF TurnRows, StepsAssumed
    <3>3. \A x \in {"failed", "succeeded"} : [done EXCEPT ![m][<<t.tool, t.step>>] = x] \in Ledgers
      BY <1>1, <3>2, Entered
    <3> QED
      BY <1>1, <3>1, <3>3, Zenon
  <2>4. CASE turn' = [turn EXCEPT ![m] = [t EXCEPT !.at = "worked"]]
    <3> DEFINE u == [t EXCEPT !.at = "worked"]
    <3>1. u \in TurnRows /\ u.at = "worked" /\ u.chat = t.chat /\ u.exposed = t.exposed
          /\ u.moved = t.moved /\ u.approved = t.approved /\ u.named = t.named
          /\ u.model = t.model /\ u.step = t.step /\ u.tool = t.tool
      BY <1>1 DEF TurnRows
    <3> HIDE DEF u
    <3> QED
      BY <1>1, <2>1, <2>2, <2>3, <2>4, <3>1, GoesOn DEF u
  <2>5. CASE turn' = [turn EXCEPT ![m] = NextStep(t)]
    <3> DEFINE u == NextStep(t)
    <3>1. /\ u \in TurnRows /\ u.at \in {"save", "talking"}
          /\ u.at = "talking" => u.step < MaxSteps
          /\ u.chat = t.chat /\ u.named = t.named /\ u.model = t.model
          /\ u.approved = t.approved /\ u.exposed = t.exposed /\ u.moved = t.moved
      BY <1>1, <2>1, NextStepType
    <3>2. turn' = [turn EXCEPT ![m] = u]
      BY <2>5
    <3> HIDE DEF u
    <3> QED
      BY <1>1, <2>1, <2>3, <3>1, <3>2, GoesOn
  <2> QED
    BY <1>1, <1>12, <2>4, <2>5 DEF RunTool, WorkRecorded, Go
<1>13. CASE \E w \in WorkTools : AsksForWork(m, w)
  <2> PICK w \in WorkTools : AsksForWork(m, w)
    BY <1>13
  <2> DEFINE key == <<w, t.step>>
             v == Told(m)
  <2>1. t.at = "talking" /\ UNCHANGED <<chat, usual, switched>>
    BY DEF AsksForWork
  <2>2. /\ v \in TurnRows /\ v.chat = t.chat /\ v.named = t.named /\ v.step = t.step
        /\ v.approved = t.approved /\ v.moved = t.moved /\ v.model = t.model
        /\ v.exposed => v.moved
    BY <2>1, ToldAsAgreed
  <2>3. key \in WorkTools \X (0..MaxSteps - 1)
    BY <1>1, <1>9, <2>1 DEF TurnRows, StepsAssumed
  <2>4. done' \in Ledgers
    <3>1. done' = done \/ \E x \in {"started", "uncertain"} : done' = [done EXCEPT ![m][key] = x]
      BY DEF AsksForWork
    <3>2. \A x \in {"started", "uncertain"} : [done EXCEPT ![m][key] = x] \in Ledgers
      BY <1>1, <2>3, Entered
    <3> QED
      BY <1>1, <3>1, <3>2, Zenon
  <2>5. \/ turn' = [turn EXCEPT ![m] = NextStep(v)]
        \/ turn' = [turn EXCEPT ![m] = Over(v)]
        \/ turn' = [turn EXCEPT ![m] = [v EXCEPT !.at = "working", !.tool = w]]
    BY DEF AsksForWork
  <2> HIDE DEF v
  <2>6. CASE turn' = [turn EXCEPT ![m] = NextStep(v)]
    <3> DEFINE u == NextStep(v)
    <3>1. /\ u \in TurnRows /\ u.at \in {"save", "talking"}
          /\ u.at = "talking" => u.step < MaxSteps
          /\ u.chat = v.chat /\ u.named = v.named /\ u.model = v.model
          /\ u.approved = v.approved /\ u.exposed = v.exposed /\ u.moved = v.moved
      BY <1>9, <2>1, <2>2, NextStepType
    <3>2. turn' = [turn EXCEPT ![m] = u]
      BY <2>6
    <3> HIDE DEF u
    <3> QED
      BY <1>1, <1>9, <2>1, <2>2, <2>4, <3>1, <3>2, GoesOn
  <2>7. CASE turn' = [turn EXCEPT ![m] = Over(v)]
    <3> DEFINE o == Over(v)
    <3>1. o \in TurnRows /\ o.chat = t.chat /\ o.at = "ended" /\ (o.exposed => o.moved)
      BY <2>2, OverType
    <3>2. turn' = [turn EXCEPT ![m] = o]
      BY <2>7
    <3> HIDE DEF o
    <3> QED
      BY <1>1, <1>2, <2>1, <2>4, <3>1, <3>2
  <2>8. CASE turn' = [turn EXCEPT ![m] = [v EXCEPT !.at = "working", !.tool = w]]
    <3> DEFINE u == [v EXCEPT !.at = "working", !.tool = w]
    <3>1. u \in TurnRows /\ u.at = "working" /\ u.chat = v.chat /\ u.exposed = v.exposed
          /\ u.moved = v.moved /\ u.approved = v.approved /\ u.named = v.named
          /\ u.model = v.model /\ u.step = v.step /\ u.tool = w
      BY <2>2 DEF TurnRows
    <3>2. turn' = [turn EXCEPT ![m] = u]
      BY <2>8
    <3> HIDE DEF u
    <3> QED
      BY <1>1, <1>9, <2>1, <2>2, <2>4, <3>1, <3>2, GoesOn
  <2> QED
    BY <2>5, <2>6, <2>7, <2>8
<1> QED
  BY <1>3, <1>4, <1>5, <1>6, <1>7, <1>8, <1>10, <1>11, <1>12, <1>13

\* What the user does: a conversation that is cleared, and a standard model that changes,
\* move the runs that rest on them
LEMMA UserSteps ==
  ASSUME StepsAssumed, Word, UserOnAssistant
  PROVE  Word'
<1>1. ASSUME NEW c \in Chats, NewConversation(c) PROVE Word'
  <2>1. /\ chat' \in [Chats -> [state : {"new", "open", "cleared"}, consented : BOOLEAN]]
        /\ \A d \in Chats : chat'[d].consented = chat[d].consented
        /\ UNCHANGED <<turn, done, usual, switched>>
    BY <1>1 DEF NewConversation, Word, AssistantTypeOK
  <2>2. AssistantTypeOK' /\ NothingYet' /\ ConsentBeforeOnline'
    BY <2>1 DEF Word, AssistantTypeOK, NothingYet, ConsentBeforeOnline
  <2>3. Agreed' /\ TalksAsAgreed'
    BY <2>1 DEF Word, AssistantTypeOK, Agreed, TalksAsAgreed, Underway, InConversation, Allowed, Resolved
  <2> QED
    BY <2>2, <2>3 DEF Word
<1>2. ASSUME NEW c \in Chats, ClearConversation(c) PROVE Word'
  <2> DEFINE u(m) == IF turn[m].chat = c
                       THEN [turn[m] EXCEPT !.replied = FALSE, !.moved = @ \/ Underway(m)]
                       ELSE turn[m]
  <2>1. /\ chat' \in [Chats -> [state : {"new", "open", "cleared"}, consented : BOOLEAN]]
        /\ \A d \in Chats : d # c => chat'[d].consented = chat[d].consented
        /\ turn' = [m \in Turns |-> u(m)]
        /\ UNCHANGED <<done, usual, switched>>
    BY <1>2 DEF ClearConversation, Word, AssistantTypeOK
  <2>2. ASSUME NEW m \in Turns
        PROVE  /\ u(m) \in TurnRows /\ u(m).at = turn[m].at /\ u(m).chat = turn[m].chat
               /\ u(m).named = turn[m].named /\ u(m).approved = turn[m].approved
               /\ u(m).model = turn[m].model /\ u(m).step = turn[m].step
               /\ u(m).tool = turn[m].tool /\ u(m).exposed = turn[m].exposed
               /\ turn[m].moved => u(m).moved
               /\ Underway(m) /\ turn[m].chat = c => u(m).moved
    <3> DEFINE b == turn[m].moved \/ Underway(m)
    <3>1. turn[m] \in TurnRows /\ b \in BOOLEAN
      BY DEF Word, AssistantTypeOK
    <3>2. u(m) = IF turn[m].chat = c THEN [turn[m] EXCEPT !.replied = FALSE, !.moved = b]
                                     ELSE turn[m]
      BY Zenon
    <3>3. (turn[m].moved => b) /\ (Underway(m) => b)
      OBVIOUS
    <3> HIDE DEF b, u
    <3> QED
      BY ZenonT(40), <3>1, <3>2, <3>3 DEF TurnRows
  <2>3. \A m \in Turns : turn'[m] = u(m)
    BY <2>1
  <2> HIDE DEF u
  <2>4. AssistantTypeOK' /\ NothingYet' /\ ConsentBeforeOnline'
    BY <2>1, <2>2, <2>3 DEF Word, AssistantTypeOK, NothingYet, ConsentBeforeOnline
  <2>5. Agreed'
    BY <2>1, <2>2, <2>3 DEF Word, AssistantTypeOK, Agreed, Underway, Allowed, Resolved
  <2>6. TalksAsAgreed'
    BY <2>1, <2>2, <2>3 DEF Word, AssistantTypeOK, TalksAsAgreed, Underway, InConversation, Allowed
  <2> QED
    BY <2>4, <2>5, <2>6 DEF Word
<1>3. ASSUME NEW m \in Turns, NEW c \in Chats, NEW p \in Named \cup {NoModel},
             StartTurn(m, c, p), p \in ChatModels \cup {NoModel}
      PROVE  Word'
  <2> DEFINE u == [turn[m] EXCEPT !.at = "consent", !.chat = c, !.named = p]
  <2>1. turn[m] \in TurnRows /\ turn[m].at = "none" /\ ~turn[m].exposed
    BY <1>3 DEF StartTurn, Word, AssistantTypeOK, NothingYet
  <2>2. u \in TurnRows /\ u.at = "consent" /\ u.chat = c /\ u.exposed = turn[m].exposed
    BY <1>3, <2>1 DEF TurnRows
  <2>3. turn' = [turn EXCEPT ![m] = u] /\ UNCHANGED <<chat, done, usual, switched>>
    BY <1>3 DEF StartTurn, Word, AssistantTypeOK
  <2> HIDE DEF u
  <2> QED
    BY <2>1, <2>2, <2>3, OneRun DEF Word, AssistantTypeOK, Ledgers
<1>4. ASSUME NEW m \in Turns, NEW yes \in BOOLEAN, Decide(m, yes) PROVE Word'
  BY <1>4, RunSteps
<1>5. ASSUME NEW p \in ChatModels, SetStandard(p) PROVE Word'
  <2> DEFINE b(m) == turn[m].moved \/ (turn[m].named = NoModel /\ Underway(m))
             u(m) == [turn[m] EXCEPT !.moved = b(m)]
  <2>1. /\ turn' = [m \in Turns |-> u(m)]
        /\ usual' = p /\ switched < MaxSwitches /\ switched' = switched + 1
        /\ UNCHANGED <<chat, done>>
    BY <1>5, Zenon DEF SetStandard
  <2>2. ASSUME NEW m \in Turns
        PROVE  /\ u(m) \in TurnRows /\ u(m).at = turn[m].at /\ u(m).chat = turn[m].chat
               /\ u(m).named = turn[m].named /\ u(m).approved = turn[m].approved
               /\ u(m).model = turn[m].model /\ u(m).step = turn[m].step
               /\ u(m).tool = turn[m].tool /\ u(m).exposed = turn[m].exposed
               /\ turn[m].moved => u(m).moved
               /\ Underway(m) /\ turn[m].named = NoModel => u(m).moved
    <3>1. turn[m] \in TurnRows /\ b(m) \in BOOLEAN
      BY DEF Word, AssistantTypeOK
    <3>2. (turn[m].moved => b(m)) /\ (Underway(m) /\ turn[m].named = NoModel => b(m))
      OBVIOUS
    <3> HIDE DEF b
    <3> QED
      BY <3>1, <3>2 DEF TurnRows
  <2>3. \A m \in Turns : turn'[m] = u(m)
    BY <2>1
  <2>4. switched' \in 0..MaxSwitches
    BY <2>1 DEF Word, AssistantTypeOK, StepsAssumed
  <2> HIDE DEF u
  <2>5. AssistantTypeOK' /\ NothingYet' /\ ConsentBeforeOnline'
    BY <2>1, <2>2, <2>3, <2>4 DEF Word, AssistantTypeOK, NothingYet, ConsentBeforeOnline
  <2>6. Agreed'
    BY <2>1, <2>2, <2>3 DEF Word, AssistantTypeOK, Agreed, Underway, Allowed, Resolved
  <2>7. TalksAsAgreed'
    BY <2>1, <2>2, <2>3 DEF Word, AssistantTypeOK, TalksAsAgreed, InConversation, Allowed
  <2> QED
    BY <2>5, <2>6, <2>7 DEF Word
<1> QED
  BY <1>1, <1>2, <1>3, <1>4, <1>5 DEF UserOnAssistant, StepsAssumed

LEMMA WordStays ==
  ASSUME StepsAssumed, Word, [AssistantNext]_assistantVars
  PROVE  Word'
<1>1. CASE UNCHANGED assistantVars
  BY <1>1 DEF assistantVars, Word, AssistantTypeOK, NothingYet, Agreed, TalksAsAgreed,
     Underway, InConversation, Allowed, Resolved, ConsentBeforeOnline
<1>2. ASSUME NEW m \in Turns,
             Consent(m) \/ ConverseStep(m) \/ SaveReply(m) \/ TurnCut(m) \/ TurnEnds(m)
      PROVE  Word'
  BY <1>2, RunSteps DEF ConverseStep
<1> QED
  BY <1>1, <1>2, UserSteps DEF AssistantNext

-----------------------------------------------------------------------------
\* Types, whatever is cut off, cleared or changed.
THEOREM TypeCorrect == StepsAssumed => (AssistantSpec => []AssistantTypeOK)
<1> SUFFICES ASSUME StepsAssumed PROVE AssistantSpec => []AssistantTypeOK
  OBVIOUS
<1>1. AssistantInit => Word
  BY WordStarts
<1>2. Word /\ [AssistantNext]_assistantVars => Word'
  BY WordStays
<1>3. Word => AssistantTypeOK
  BY DEF Word
<1> QED
  BY <1>1, <1>2, <1>3, PTL DEF AssistantSpec

\* What goes to an online model is what the user agreed to share (agents/assistant.py,
\* consent and converse), unless the model or the conversation moved under the run.
THEOREM ConsentComesFirst == StepsAssumed => (AssistantSpec => []ConsentBeforeOnline)
<1> SUFFICES ASSUME StepsAssumed PROVE AssistantSpec => []ConsentBeforeOnline
  OBVIOUS
<1>1. AssistantInit => Word
  BY WordStarts
<1>2. Word /\ [AssistantNext]_assistantVars => Word'
  BY WordStays
<1>3. Word => ConsentBeforeOnline
  BY DEF Word
<1> QED
  BY <1>1, <1>2, <1>3, PTL DEF AssistantSpec
==============================================================================
