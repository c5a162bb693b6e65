------------------------------- MODULE Sources -------------------------------
(***************************************************************************)
(* The sources of a user (application/sources.py): those of the built-in    *)
(* catalog, which are off until they are turned on, and the user's own.     *)
(* Turning on and off is one statement; adding, testing and reading go out  *)
(* to the site first, with a connection that has read the sources before    *)
(* and writes what came of it after, whatever happened in between.          *)
(***************************************************************************)
EXTENDS Naturals, FiniteSets

CONSTANTS
  CatalogKeys,  \* sources of the catalog
  CustomKeys,   \* keys of the sources a user may add (_custom_key)
  Browsers,     \* requests and runs that go out to a site at once
  MaxCustom,    \* MAX_CUSTOM
  NoSource      \* no row for a source

VARIABLES
  custom,     \* the sources that were added
  source,     \* the row of a source, if it has one
  job,        \* what a request that goes out to a site is doing
  asked,      \* history: the user's last word on a source
  overtaken   \* history: the sources that were turned off while they were being added

sourceVars == <<custom, source, job, asked, overtaken>>

Keys == CatalogKeys \cup CustomKeys
Rows == [on : BOOLEAN, status : {"none", "ok", "error"}]
NoJob == [kind |-> "none", keys |-> {}]

SourcesTypeOK ==
  /\ custom \subseteq CustomKeys
  /\ source \in [Keys -> Rows \cup {NoSource}]
  /\ \A r \in Browsers :
       job[r].kind \in {"none", "add", "test", "sync"} /\ job[r].keys \subseteq Keys
  /\ asked \in [Keys -> {"none", "on", "off"}]
  /\ overtaken \subseteq CustomKeys

SourcesInit ==
  /\ custom = {}
  /\ source = [k \in Keys |-> NoSource]
  /\ job = [r \in Browsers |-> NoJob]
  /\ asked = [k \in Keys |-> "none"]
  /\ overtaken = {}

-----------------------------------------------------------------------------
Available == CatalogKeys \cup custom

\* default_enabled, where there is no row
Enabled(k) ==
  /\ k \in Available
  /\ IF source[k] = NoSource THEN k \in CustomKeys ELSE source[k].on

\* set_enabled: one upsert per key; the result of the last read stays
SetTo(keys, on) ==
  [k \in Keys |->
     IF k \notin keys THEN source[k]
     ELSE IF source[k] = NoSource THEN [on |-> on, status |-> "none"]
     ELSE [source[k] EXCEPT !.on = on]]

\* Mutant of Health: what was read is shown as a source that is on
MutantHealth(rows, k, status) == [rows EXCEPT ![k] = [on |-> TRUE, status |-> status]]
\* _health: a row that is there keeps its switch, a new one is on
Health(rows, k, status) ==
  [rows EXCEPT ![k] = IF @ = NoSource THEN [on |-> TRUE, status |-> status]
                      ELSE [@ EXCEPT !.status = status]]

\* The user's word, and which additions under way it overtakes
Tells(keys, word) ==
  LET adding == {k \in keys : \E r \in Browsers : job[r].kind = "add" /\ k \in job[r].keys} IN
  /\ asked' = [k \in Keys |-> IF k \in keys THEN word ELSE asked[k]]
  /\ overtaken' = (overtaken \ keys) \cup (IF word = "off" THEN adding ELSE {})

-----------------------------------------------------------------------------
\* PUT /sources/bulk and, for one key, configure_source
SetEnabled(keys, on) ==
  /\ keys # {} /\ keys \subseteq Available
  /\ source' = SetTo(keys, on)
  /\ Tells(keys, IF on THEN "on" ELSE "off")
  /\ UNCHANGED <<custom, job>>

\* add_custom, to the answer of the site: an address the catalog has turns that source
\* on, another one has to find room
BeginAdd(r, k) ==
  /\ job[r] = NoJob
  /\ Tells({k}, "on")
  /\ IF k \in CatalogKeys
       THEN source' = SetTo({k}, TRUE) /\ UNCHANGED job
       ELSE /\ Cardinality(custom) < MaxCustom
            /\ job' = [job EXCEPT ![r] = [kind |-> "add", keys |-> {k}]]
            /\ UNCHANGED source
  /\ UNCHANGED custom

\* probe found a provider that reads the address: the source is kept and on
EndAdd(r) ==
  /\ job[r].kind = "add"
  /\ \E k \in job[r].keys :
       /\ custom' = custom \cup {k}
       /\ source' = Health(SetTo({k}, TRUE), k, "ok")
  /\ job' = [job EXCEPT ![r] = NoJob]
  /\ UNCHANGED <<asked, overtaken>>

\* It found none; or the request of a test ends without an answer
JobFails(r) ==
  /\ job[r] # NoJob
  /\ job' = [job EXCEPT ![r] = NoJob]
  /\ UNCHANGED <<custom, source, asked, overtaken>>

\* import_portals: no site is asked; as many new sources as there is room for
Import(keys) ==
  LET fresh == (keys \cap CustomKeys) \ custom
      room  == IF Cardinality(custom) < MaxCustom THEN MaxCustom - Cardinality(custom) ELSE 0
  IN \E added \in SUBSET fresh :
       /\ Cardinality(added) = IF Cardinality(fresh) < room THEN Cardinality(fresh) ELSE room
       /\ LET on == (keys \ fresh) \cup added IN
            /\ custom' = custom \cup added
            /\ source' = SetTo(on, TRUE)
            /\ Tells(on, "on")
       /\ UNCHANGED job

\* delete_custom: the source and its row
DeleteCustom(k) ==
  /\ k \in custom
  /\ custom' = custom \ {k}
  /\ source' = [source EXCEPT ![k] = NoSource]
  /\ Tells({k}, "off")
  /\ UNCHANGED job

\* test_source, to the answer of the site: any source there is, on or off
BeginTest(r, k) ==
  /\ job[r] = NoJob /\ k \in Available
  /\ job' = [job EXCEPT ![r] = [kind |-> "test", keys |-> {k}]]
  /\ UNCHANGED <<custom, source, asked, overtaken>>

\* sync_case, to the answers of the sites: of the sources that were named, or of all,
\* those that are on; a name nobody knows ends it
BeginSync(r, named) ==
  /\ job[r] = NoJob /\ named \subseteq Available
  /\ LET chosen == IF named = {} THEN Available ELSE named
         keys   == {k \in chosen : Enabled(k)}
     IN /\ keys # {}
        /\ job' = [job EXCEPT ![r] = [kind |-> "sync", keys |-> keys]]
  /\ UNCHANGED <<custom, source, asked, overtaken>>

\* record_health, of a test and of every source of a sync: what was read, or why not;
\* whether the source is still there, and still on, is not looked at
EndRead(r, failed) ==
  /\ job[r].kind \in {"test", "sync"} /\ failed \subseteq job[r].keys
  /\ source' = [k \in Keys |->
       IF k \in job[r].keys
         THEN Health(source, k, IF k \in failed THEN "error" ELSE "ok")[k] ELSE source[k]]
  /\ job' = [job EXCEPT ![r] = NoJob]
  /\ UNCHANGED <<custom, asked, overtaken>>

UserOnSources ==
  \/ \E keys \in SUBSET Keys, on \in BOOLEAN : SetEnabled(keys, on)
  \/ \E r \in Browsers, k \in Keys : BeginAdd(r, k) \/ BeginTest(r, k)
  \/ \E keys \in SUBSET Keys : Import(keys)
  \/ \E k \in CustomKeys : DeleteCustom(k)

SourcesNext ==
  \/ UserOnSources
  \/ \E r \in Browsers :
       \/ EndAdd(r) \/ JobFails(r)
       \/ \E named \in SUBSET Keys : BeginSync(r, named)
       \/ \E failed \in SUBSET Keys : EndRead(r, failed)

SourcesSpec == SourcesInit /\ [][SourcesNext]_sourceVars

-----------------------------------------------------------------------------
(* Properties *)

\* A source the user turned off or deleted is off, whatever was being read, tested or
\* imported meanwhile: a source is on because the user's last word was so, because it is
\* a catalog source that was tested before the user said anything, or because it was
\* turned off while its own addition was under way.
OffStaysOff ==
  \A k \in Keys : Enabled(k) =>
    \/ asked[k] = "on"
    \/ asked[k] = "none" /\ source[k] # NoSource /\ source[k].status # "none"
    \/ k \in overtaken
=============================================================================
