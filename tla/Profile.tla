------------------------------ MODULE Profile -------------------------------
(***************************************************************************)
(* A case's documents and profile: uploads and their files in the           *)
(* content-addressed store (infrastructure/storage.py), the workflow that   *)
(* reads a document and proposes entries (agents/document_ingestion.py),    *)
(* reading it again and deleting it (application/documents.py), and what    *)
(* the user does with entries (application/profile.py); and the import of a *)
(* bundle, which makes a case of its own (application/profile_bundle.py).   *)
(*                                                                          *)
(* An entry is named by where it came from and by what it says, its         *)
(* identity key.  Requests that read before they write, outside any lock,   *)
(* are two steps; so is what they do to files beside their transaction.     *)
(*                                                                          *)
(* The store is shared: the files of generated documents                    *)
(* (application/generated_documents.py) lie in it under the same keys, and  *)
(* an upload may be one of them that was downloaded before.                 *)
(***************************************************************************)
EXTENDS Naturals, FiniteSets

CONSTANTS
  Uploads,     \* the documents a user may upload
  Bytes,       \* what each consists of
  Mined,       \* those of a purpose that entries are read from
  Wordings,    \* identity keys: what the documents and the user say
  Says,        \* what each document says
  ByHand       \* the origin of entries the user typed in

VARIABLES
  document,  \* documents: the parse status; "stored" while the upload has not committed
  files,     \* the store: the contents it holds
  rendering, \* the generated document whose file has these contents
  reading,   \* the runs of document_ingestion
  entry,     \* profile_facts
  rereading, \* the request that reads a document again: entries it is to replace
  deletion,  \* the request that deletes a document
  imported   \* the documents of the case that was imported; the others are of the first

profileVars == <<document, files, rendering, reading, entry, rereading, deletion,
                 imported>>

Contents     == {Bytes[u] : u \in Uploads}
Origins      == Uploads \cup {ByHand}
EntryIds     == Origins \X Wordings
ReviewStates == {"pending", "accepted", "rejected"}

NoEntry     == [state |-> "none", edited |-> FALSE]
NoRereading == [of |-> ByHand, picked |-> {}]
NoDeletion  == [of |-> ByHand, picked |-> {}, at |-> "none", counted |-> {}]

ProfileTypeOK ==
  /\ document \in [Uploads -> {"none", "stored", "pending", "parsed", "failed"}]
  /\ files \subseteq Contents
  /\ rendering \in [Contents -> {"none", "listed"}]
  /\ reading \in [Uploads -> {"none", "queued", "read", "ended"}]
  /\ entry \in [EntryIds -> [state: ReviewStates \cup {"none"}, edited: BOOLEAN]]
  /\ rereading.of \in Origins
  /\ deletion.of \in Origins /\ deletion.at \in {"none", "picked", "file"}
  /\ imported \subseteq Uploads

ProfileInit ==
  /\ document = [u \in Uploads |-> "none"]
  /\ files = {}
  /\ rendering = [b \in Contents |-> "none"]
  /\ reading = [u \in Uploads |-> "none"]
  /\ entry = [e \in EntryIds |-> NoEntry]
  /\ rereading = NoRereading
  /\ deletion = NoDeletion
  /\ imported = {}

\* The row of a document is there
Row(u) == document[u] \notin {"none", "stored"}

-----------------------------------------------------------------------------
(* Uploading *)

\* upload_document: store.put before the transaction commits; a file that is
\* there already is left as it is.  An import does the same with what it unpacks.
UploadPut(u) ==
  /\ document[u] = "none" /\ u \notin imported
  /\ files' = files \cup {Bytes[u]}
  /\ document' = [document EXCEPT ![u] = "stored"]
  /\ UNCHANGED <<rendering, reading, entry, rereading, deletion, imported>>

\* The row and the run that reads it
UploadCommit(u) ==
  /\ document[u] = "stored"
  /\ document' = [document EXCEPT ![u] = "pending"]
  /\ reading' = [reading EXCEPT ![u] = "queued"]
  /\ UNCHANGED <<files, rendering, entry, rereading, deletion, imported>>

\* The request fails after the file was stored; the file stays
UploadFails(u) ==
  /\ document[u] = "stored"
  /\ document' = [document EXCEPT ![u] = "none"]
  /\ UNCHANGED <<files, rendering, reading, entry, rereading, deletion, imported>>

-----------------------------------------------------------------------------
(* Generated documents: their files in the same store *)

\* render_version stores a file nobody has yet, for it bears the time it was made, and
\* lists its key in a second transaction, unless the worker died or the document was
\* deleted in between: then the file stays.  Nobody can have its bytes before that.
Render(b) ==
  /\ rendering[b] = "none" /\ b \notin files
  /\ \A u \in Uploads : Bytes[u] = b => document[u] = "none"
  /\ files' = files \cup {b}
  /\ rendering' \in {rendering, [rendering EXCEPT ![b] = "listed"]}
  /\ UNCHANGED <<document, reading, entry, rereading, deletion, imported>>

\* delete_document of a generated document counts nobody who uses these bytes, and
\* unlinks them before its transaction commits; when that fails, the key stays listed
UnlinkRendered(b) ==
  /\ rendering[b] = "listed"
  /\ files' = files \ {b}
  /\ rendering' \in {rendering, [rendering EXCEPT ![b] = "none"]}
  /\ UNCHANGED <<document, reading, entry, rereading, deletion, imported>>

-----------------------------------------------------------------------------
(* Reading a document *)

\* The origins of the entries in the same case
Mates(o) == {p \in Origins : (p \in imported) = (o \in imported)}
\* What the case already has, in any state and in the wording a user edited away
Has(es, o, w) == \E p \in Mates(o) : es[<<p, w>>].state # "none"

\* _extract_into: a pending entry for everything the case does not have yet
Extracted(es, u) ==
  [e \in EntryIds |->
     IF e[1] = u /\ e[2] \in Says[u] /\ ~Has(es, u, e[2])
       THEN [state |-> "pending", edited |-> FALSE] ELSE es[e]]

\* read_and_save reads the row and its bytes, and parses, in no transaction
ReadDocument(u) ==
  /\ reading[u] = "queued"
  /\ reading' = [reading EXCEPT ![u] =
       IF Row(u) /\ Bytes[u] \in files THEN "read" ELSE "ended"]
  /\ UNCHANGED <<document, files, rendering, entry, rereading, deletion, imported>>

\* save_extraction of a document of which the case has no entries
Reads(u) == \A w \in Wordings : entry[<<u, w>>].state = "none"

\* save_extraction, unless the document was deleted in the meantime
SaveExtraction(u, status) ==
  /\ reading[u] = "read"
  /\ reading' = [reading EXCEPT ![u] = "ended"]
  /\ IF ~Row(u) THEN UNCHANGED <<document, entry>> ELSE
       /\ document' = [document EXCEPT ![u] = status]
       /\ entry' = IF status = "parsed" /\ u \in Mined /\ Reads(u)
                     THEN Extracted(entry, u) ELSE entry
  /\ UNCHANGED <<files, rendering, rereading, deletion, imported>>

\* The worker dies before the run's checkpoint: the run reads it again
ReadingCut(u) ==
  /\ reading[u] \in {"read", "ended"}
  /\ Row(u)
  /\ reading' = [reading EXCEPT ![u] = "queued"]
  /\ UNCHANGED <<document, files, rendering, entry, rereading, deletion, imported>>

\* Mutant of Replaced: whatever came of the document
MutantReplaced(u) == {<<e, entry[e]>> : e \in {x \in EntryIds :
                        x[1] = u /\ entry[x].state # "none"}}
\* What reading again replaces: pending and not edited, as the request sees them
Replaced(u) == {<<e, entry[e]>> : e \in {x \in EntryIds :
                  x[1] = u /\ entry[x].state = "pending" /\ ~entry[x].edited}}

\* reread_document selects them ...
RereadPick(u) ==
  /\ document[u] = "parsed" /\ u \in Mined
  /\ rereading = NoRereading /\ deletion = NoDeletion
  /\ rereading' = [of |-> u, picked |-> Replaced(u)]
  /\ UNCHANGED <<document, files, rendering, reading, entry, deletion, imported>>

\* ... deletes them by their ids, and extracts; an error when the document is gone
Reread ==
  LET picked == {p[1] : p \in rereading.picked}
      left   == [e \in EntryIds |-> IF e \in picked THEN NoEntry ELSE entry[e]] IN
  /\ rereading # NoRereading
  /\ entry' = IF ~Row(rereading.of) THEN entry
              ELSE Extracted(left, rereading.of)
  /\ rereading' = NoRereading
  /\ UNCHANGED <<document, files, rendering, reading, deletion, imported>>

-----------------------------------------------------------------------------
(* Importing a case *)

\* What export_case may have found of a document whose file was there: its text or
\* not, and its entries in any state of review
Bundles == [status : {"parsed", "failed"},
            entries : [Wordings -> {NoEntry} \cup [state : ReviewStates, edited : BOOLEAN]]]

\* import_case, after it stored the file: a new case with the document, which no run
\* reads, and the entries as they were.  Bounds: one import, of one document; nothing
\* else by hand in that case.
ImportCase(u, bundle) ==
  /\ document[u] = "stored" /\ reading[u] = "none" /\ Reads(u)  \* an id of its own
  /\ imported = {}
  /\ imported' = {u}
  /\ document' = [document EXCEPT ![u] = bundle.status]
  /\ entry' = [e \in EntryIds |-> IF e[1] = u THEN bundle.entries[e[2]] ELSE entry[e]]
  /\ UNCHANGED <<files, rendering, reading, rereading, deletion>>

-----------------------------------------------------------------------------
(* Deleting a document, with the entries nobody reviewed or without *)

DeletePick(u, withEntries) ==
  /\ Row(u)
  /\ deletion = NoDeletion /\ rereading = NoRereading  \* bound: one of them at a time
  /\ deletion' = [NoDeletion EXCEPT !.of = u, !.at = "picked",
       !.picked = IF withEntries THEN {<<e, entry[e]>> : e \in {x \in EntryIds :
                    x[1] = u /\ entry[x].state = "pending"}} ELSE {}]
  /\ UNCHANGED <<document, files, rendering, reading, entry, rereading, imported>>

\* Mutant of StillUsed: the document is the only one of its bytes
MutantStillUsed(u) == {}
\* The other documents of these bytes whose uploads are committed; the files of
\* generated documents are not counted
StillUsed(u) == {v \in Uploads \ {u} : Bytes[v] = Bytes[u] /\ Row(v)}

DeleteCommit ==
  LET u == deletion.of
      picked == {p[1] : p \in deletion.picked} IN
  /\ deletion.at = "picked"
  /\ entry' = [e \in EntryIds |-> IF e \in picked THEN NoEntry ELSE entry[e]]
  /\ document' = [document EXCEPT ![u] = "none"]
  /\ deletion' = IF StillUsed(u) = {}
       THEN [deletion EXCEPT !.at = "file", !.picked = {},
               !.counted = {v \in Uploads \ {u} : Row(v)}]
       ELSE NoDeletion
  /\ UNCHANGED <<files, rendering, reading, rereading, imported>>

\* After the commit; or the process dies before, and the file stays
DeleteFile ==
  /\ deletion.at = "file"
  /\ files' \in {files, files \ {Bytes[deletion.of]}}
  /\ deletion' = NoDeletion
  /\ UNCHANGED <<document, rendering, reading, entry, rereading, imported>>

-----------------------------------------------------------------------------
(* The user, and the entries *)

\* create_fact: accepted at once
CreateEntry(w) ==
  /\ entry[<<ByHand, w>>].state = "none"
  /\ entry' = [entry EXCEPT ![<<ByHand, w>>].state = "accepted"]
  /\ UNCHANGED <<document, files, rendering, reading, rereading, deletion, imported>>

\* review_facts, which accepts and rejects, and update_fact, which also puts an entry
\* back to pending (bound, here and below: entries from documents; what was typed in is
\* accepted, and nothing asks whether it was edited)
ReviewEntry(e, state) ==
  /\ e[1] # ByHand /\ entry[e].state \notin {"none", state}
  /\ entry' = [entry EXCEPT ![e].state = state]
  /\ UNCHANGED <<document, files, rendering, reading, rereading, deletion, imported>>

\* update_fact of its data, which keeps the original; under the version it was seen in
EditEntry(e) ==
  /\ e[1] # ByHand /\ entry[e].state # "none" /\ ~entry[e].edited
  /\ entry' = [entry EXCEPT ![e].edited = TRUE]
  /\ UNCHANGED <<document, files, rendering, reading, rereading, deletion, imported>>

\* delete_fact; bulk_facts "delete" comes to the same, several at once
DeleteEntry(e) ==
  /\ entry[e].state # "none"
  /\ entry' = [entry EXCEPT ![e] = NoEntry]
  /\ UNCHANGED <<document, files, rendering, reading, rereading, deletion, imported>>

\* merge_facts: the others go, whatever their state (bound: the kept one keeps its data)
MergeEntries(keep, other) ==
  /\ keep # other /\ other[1] \in Mates(keep[1])
  /\ entry[keep].state # "none" /\ entry[other].state # "none"
  /\ entry' = [entry EXCEPT ![other] = NoEntry]
  /\ UNCHANGED <<document, files, rendering, reading, rereading, deletion, imported>>

\* delete_case, of one case or the other, and delete_account: every row goes; only the
\* account's documents take their files along, a case leaves its files behind, and so do
\* generated documents (bound: they are of the first case).  A request that has stored a
\* file is of another case.
DeleteCase(gone, account) ==
  /\ rereading = NoRereading /\ deletion = NoDeletion
  /\ gone # {}
  /\ document' = [u \in Uploads |->
       IF u \in gone /\ (account \/ Row(u)) THEN "none" ELSE document[u]]
  /\ rendering' = IF ByHand \in gone THEN [b \in Contents |-> "none"] ELSE rendering
  /\ files' = files \ IF account THEN {Bytes[u] : u \in {v \in Uploads : Row(v)}}
                      ELSE {}
  /\ reading' = [u \in Uploads |-> IF u \in gone THEN "none" ELSE reading[u]]
  /\ entry' = [e \in EntryIds |-> IF e[1] \in gone THEN NoEntry ELSE entry[e]]
  /\ imported' = imported \ gone
  /\ UNCHANGED <<rereading, deletion>>

-----------------------------------------------------------------------------
RemovedByUser ==
  \/ \E e \in EntryIds : DeleteEntry(e)
  \/ \E e, f \in EntryIds : MergeEntries(e, f)
  \/ DeleteCase(Origins, TRUE)
  \/ \E gone \in {Origins \ imported, imported} : DeleteCase(gone, FALSE)

UserOnProfile ==
  \/ \E u \in Uploads : UploadPut(u) \/ UploadCommit(u) \/ UploadFails(u)
  \/ \E u \in Uploads, bundle \in Bundles : ImportCase(u, bundle)
  \/ \E u \in Uploads : RereadPick(u) \/ \E b \in BOOLEAN : DeletePick(u, b)
  \/ Reread \/ DeleteCommit \/ DeleteFile
  \/ \E w \in Wordings : CreateEntry(w)
  \/ \E e \in EntryIds : EditEntry(e) \/ \E s \in ReviewStates : ReviewEntry(e, s)
  \/ \E b \in Contents : UnlinkRendered(b)
  \/ RemovedByUser

ReadingStep ==
  \E u \in Uploads : ReadDocument(u) \/ ReadingCut(u)
                     \/ \E s \in {"parsed", "failed"} : SaveExtraction(u, s)

RenderingStep == \E b \in Contents : Render(b)

ProfileNext == UserOnProfile \/ ReadingStep \/ RenderingStep

ProfileSpec == ProfileInit /\ [][ProfileNext]_profileVars

-----------------------------------------------------------------------------
(* Properties *)

\* An entry the user accepted or rejected goes, or is pending again, only by the user's
\* hand (who removes it, or puts it back), or by a request that had picked it before it
\* was reviewed (reading a document again, deleting one): those delete what they picked,
\* whatever became of it.
ReviewedStays ==
  [][entry' # entry => \A e \in EntryIds :
       /\ entry[e].state \in {"accepted", "rejected"}
       /\ entry'[e].state \notin {"accepted", "rejected"}
       => \/ RemovedByUser \/ ReviewEntry(e, "pending")
          \/ \E p \in rereading.picked \cup deletion.picked :
               p[1] = e /\ p[2].state = "pending"]_profileVars

\* A document, from the upload that stored it on, keeps its bytes, but for one that was
\* uploaded while another one of the same bytes was being deleted, after that request
\* counted who uses them; and for one that was downloaded from a generated document, whose
\* deletion counts nobody.  What a generated document lists goes only with an upload of
\* the same bytes, or when its own deletion does not commit.
DocumentsHaveFiles ==
  [][files' # files => \A b \in files \ files' :
       /\ \A u \in Uploads :
            Bytes[u] = b /\ document[u] # "none" /\ document'[u] # "none" =>
              \/ deletion.at = "file" /\ u \notin deletion.counted
              \/ UnlinkRendered(b)
       /\ rendering'[b] = "listed" =>
            \/ deletion.at = "file" /\ Bytes[deletion.of] = b
            \/ UnlinkRendered(b)]_profileVars
=============================================================================
