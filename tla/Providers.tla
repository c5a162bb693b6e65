------------------------------ MODULE Providers ------------------------------
(***************************************************************************)
(* The model providers of a user (application/providers.py): their server,  *)
(* their stored key and which of them is the default.                       *)
(*                                                                          *)
(* A request reads the row, checks what it read, and commits the columns    *)
(* that differ from it; nothing locks the row in between, so two tabs are   *)
(* two requests under way.  An update says which version of the row its     *)
(* user saw, but a version is counted on from the copy: two commits may     *)
(* give the row the same one.  A key is named by the server it was entered  *)
(* for: the one the user sent with it or, without one, saw when typing it.  *)
(***************************************************************************)
EXTENDS Naturals

CONSTANTS
  Configs,     \* the providers a user may have
  Servers,     \* where requests may go
  Tabs,        \* requests that may be under way at once
  NoConfig, NoKey, Unchecked,
  MaxVersion   \* bound: how often a row is changed

VARIABLES
  config,  \* provider_configs, with their secrets
  edit,    \* what each tab shows, and what it is changing
  check    \* the connection check under way

providerVars == <<config, edit, check>>

Rows == [here: BOOLEAN, server: Servers, key: Servers \cup {NoKey},
         default: BOOLEAN, version: 0..MaxVersion, checked: Servers \cup {Unchecked}]
AnyServer == CHOOSE s \in Servers : TRUE
NoRow   == [here |-> FALSE, server |-> AnyServer, key |-> NoKey, default |-> FALSE,
            version |-> 0, checked |-> Unchecked]
Seen(row) == [version |-> row.version, server |-> row.server]
NoEdit  == [kind |-> "none", of |-> NoConfig, saw |-> Seen(NoRow), copy |-> NoRow,
            server |-> AnyServer, for |-> AnyServer, key |-> "keep", default |-> FALSE,
            clears |-> {}]
NoCheck == [of |-> NoConfig, server |-> AnyServer]

KeyChanges == {"keep", "clear", "new"}
Edits == [kind: {"none", "form", "create", "update", "default"},
          of: Configs \cup {NoConfig}, saw: [version: 0..MaxVersion, server: Servers],
          copy: Rows, server: Servers, for: Servers, key: KeyChanges, default: BOOLEAN,
          clears: SUBSET Configs]

ProvidersTypeOK ==
  /\ config \in [Configs -> Rows]
  /\ edit \in [Tabs -> Edits]
  /\ \A t \in Tabs : edit[t].kind # "none" => edit[t].of \in Configs
  /\ check \in [of: Configs \cup {NoConfig}, server: Servers]

ProvidersInit ==
  /\ config = [c \in Configs |-> NoRow]
  /\ edit = [t \in Tabs |-> NoEdit]
  /\ check = NoCheck

\* What "not the default any more" reaches: the rows committed when it is said
Others(c) == {d \in Configs \ {c} : config[d].here}

\* create_provider: the key, if there is one, is for the server given with it
BeginCreate(t, c, server, key, default) ==
  /\ edit[t].kind = "none" /\ ~config[c].here /\ key # "clear"
  /\ \A u \in Tabs : edit[u].of # c  \* an id of its own
  /\ edit' = [edit EXCEPT ![t] =
       [kind |-> "create", of |-> c, saw |-> Seen(NoRow), copy |-> NoRow,
        server |-> server, for |-> server, key |-> key, default |-> default,
        clears |-> IF default THEN Others(c) ELSE {}]]
  /\ UNCHANGED <<config, check>>

\* Mutant of NeedsKey: only an update that says nothing of the key is asked
MutantNeedsKey(row, server, key) == FALSE
\* _destination: the stored key is asked for again when requests go elsewhere
NeedsKey(row, server, key) ==
  server # row.server /\ row.key # NoKey /\ key = "keep"

\* A provider's page, with the version it will send, and its end
ShowForm(t, c) ==
  /\ edit[t].kind = "none" /\ config[c].here
  /\ edit' = [edit EXCEPT ![t] =
       [NoEdit EXCEPT !.kind = "form", !.of = c, !.saw = Seen(config[c])]]
  /\ UNCHANGED <<config, check>>

LeaveForm(t) ==
  /\ edit[t].kind = "form"
  /\ edit' = [edit EXCEPT ![t] = NoEdit]
  /\ UNCHANGED <<config, check>>

\* update_provider, up to its flush.  A server that is not sent is the row's, and the
\* key that is sent is then for the one the form showed.
BeginUpdate(t, server, for, key, default) ==
  LET e == edit[t] row == config[e.of] IN
  /\ e.kind = "form" /\ row.here
  /\ row.version = e.saw.version /\ row.version < MaxVersion
  /\ for = server \/ (key = "new" /\ server = row.server /\ for = e.saw.server)
  /\ ~NeedsKey(row, server, key)
  /\ server # row.server \/ key # "keep" \/ default # row.default
  /\ edit' = [edit EXCEPT ![t] =
       [e EXCEPT !.kind = "update", !.copy = row, !.server = server, !.for = for,
                 !.key = key, !.default = default,
                 !.clears = IF default /\ ~row.default THEN Others(e.of) ELSE {}]]
  /\ UNCHANGED <<config, check>>

\* set_default: every row it sees stops being the default before one becomes it
BeginDefault(t, c) ==
  LET row == config[c] IN
  /\ edit[t].kind = "none" /\ row.here /\ row.version < MaxVersion
  /\ edit' = [edit EXCEPT ![t] =
       [kind |-> "default", of |-> c, saw |-> Seen(row), copy |-> row,
        server |-> row.server, for |-> row.server, key |-> "keep", default |-> TRUE,
        clears |-> Others(c)]]
  /\ UNCHANGED <<config, check>>

\* The row after a commit: only columns that differ from the copy are written, and a
\* check is forgotten only if the copy had one
Written(e, row) ==
  [row EXCEPT
     !.here    = TRUE,
     !.server  = IF e.kind = "create" \/ e.server # e.copy.server THEN e.server ELSE @,
     !.key     = IF e.key = "new" THEN e.for
                 ELSE IF e.key = "clear" /\ e.copy.key # NoKey THEN NoKey ELSE @,
     !.default = IF e.kind = "default" \/ e.default # e.copy.default THEN e.default ELSE @,
     !.version = IF e.kind = "create" THEN 1 ELSE e.copy.version + 1,
     !.checked = IF e.copy.checked # Unchecked /\
                    (e.server # e.copy.server \/ e.key # "keep") THEN Unchecked ELSE @]

\* The commit; a row that was deleted in the meantime makes it an error
Commit(t) ==
  LET e == edit[t] IN
  /\ e.kind \in {"create", "update", "default"}
  /\ config' =
       IF e.kind # "create" /\ ~config[e.of].here THEN config
       ELSE [d \in Configs |->
               IF d = e.of THEN Written(e, config[d])
               ELSE IF d \in e.clears THEN [config[d] EXCEPT !.default = FALSE]
               ELSE config[d]]
  /\ edit' = [edit EXCEPT ![t] = NoEdit]
  /\ UNCHANGED check

\* delete_provider, with its secret
DeleteProvider(c) ==
  /\ config[c].here
  /\ \A t \in Tabs : edit[t].of # c \/ edit[t].kind # "create"
  /\ config' = [config EXCEPT ![c] = NoRow]
  /\ UNCHANGED <<edit, check>>

\* verify_provider: up to a minute between reading the row and writing the result
BeginCheck(c) ==
  /\ check = NoCheck /\ config[c].here
  /\ check' = [of |-> c, server |-> config[c].server]
  /\ UNCHANGED <<config, edit>>

EndCheck ==
  LET c == check.of IN
  /\ c # NoConfig
  /\ config' = IF config[c].here
                 THEN [config EXCEPT ![c].checked = check.server] ELSE config
  /\ check' = NoCheck
  /\ UNCHANGED edit

UserOnProviders ==
  \/ \E t \in Tabs, c \in Configs, s \in Servers, key \in KeyChanges, d \in BOOLEAN :
       BeginCreate(t, c, s, key, d) \/ (\E f \in Servers : BeginUpdate(t, s, f, key, d))
  \/ \E t \in Tabs, c \in Configs : ShowForm(t, c) \/ BeginDefault(t, c)
  \/ \E t \in Tabs : LeaveForm(t)
  \/ \E c \in Configs : DeleteProvider(c) \/ BeginCheck(c)

ProvidersNext == UserOnProviders \/ (\E t \in Tabs : Commit(t)) \/ EndCheck

ProvidersSpec == ProvidersInit /\ [][ProvidersNext]_providerVars

-----------------------------------------------------------------------------
(* Properties *)

Fits(row) == row.key \in {NoKey, row.server}

\* A stored key is never left with a server it was not entered for, except by a request
\* whose copy of the row is not the row any more (two tabs, of which one sets the key and
\* the other one the address, each pass the check on what they read), or whose user saw
\* another server under the very version the row has again.
KeyStaysWithItsServer ==
  [][config' # config => \A c \in Configs :
       Fits(config[c]) /\ ~Fits(config'[c]) =>
         \E t \in Tabs : /\ edit[t].kind = "update" /\ edit[t].of = c
                         /\ \/ edit[t].copy # config[c]
                            \/ /\ edit[t].saw.version = edit[t].copy.version
                               /\ edit[t].saw.server # edit[t].copy.server]_providerVars
=============================================================================
