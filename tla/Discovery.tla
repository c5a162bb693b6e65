------------------------------ MODULE Discovery ------------------------------
(***************************************************************************)
(* Opportunity discovery: the sync of a case reads the sources that are on  *)
(* page by page and merges what they list into one catalogue that all users *)
(* share (application/opportunities.py, run by the workflow                 *)
(* opportunity_discovery); and the sources a user adds (sources.py).        *)
(*                                                                          *)
(* A listing is one entry of one source.  What dedup decides on (employer,  *)
(* URL, requisition, title, text) is Posting: two listings are duplicates   *)
(* when they are of one posting.  An opportunity is named by the listing it *)
(* was made from; a sync commits after every listing.  Bound: what a case's *)
(* preferences filter out stays so.                                         *)
(***************************************************************************)
EXTENDS Naturals, Sequences, FiniteSets

CONSTANTS
  Cases,        \* the cases of the users, one sync of each at a time
  Listings,
  Pages,        \* the sources, and what each lists: a sequence of sets of Listings
  Posting,      \* what each listing advertises
  Employer,     \* whose it is
  Url,          \* and its canonical URL
  Wanted,       \* of each case: the listings that are valid and pass its filter
  DedupLimit,   \* MAX_DEDUP_CANDIDATES
  Marked,       \* bound: the opportunities whose matches users mark
  NoListing

VARIABLES
  listed,     \* opportunity_sources: the opportunity a listing belongs to
  posting,    \* opportunities, each by the listing it was made from
  match,      \* opportunity_matches of each case
  checkpoint, \* sync_checkpoints: the page each case's sync of a source resumes at
  sync,       \* the syncs
  held        \* advisory locks: the case whose sync holds an employer's, or a URL's

dVars == <<listed, posting, match, checkpoint, sync, held>>

Sources   == DOMAIN Pages
LockKeys  == {Employer[l] : l \in Listings} \cup {Url[l] : l \in Listings}
\* What a sync takes of a page: a listing that is not valid, or that the filter does not
\* keep, is passed over
Taken(c, s, i) == Pages[s][i] \cap Wanted[c]
\* Two of the four statuses: as a sync leaves it, and as the user sets it
MatchStatus == {"new", "dismissed"}

\* A sync: where it is, the sources still to read, the one being read, its page
\* and what is left of it; the sources it has read to their end
Idle == [at |-> "idle", todo |-> {}, source |-> CHOOSE s \in Sources : TRUE,
         page |-> 1, left |-> {}, one |-> NoListing, into |-> NoListing, read |-> {}]

DiscoveryTypeOK ==
  /\ listed \in [Listings -> Listings \cup {NoListing}]
  /\ posting \subseteq Listings
  /\ match \in [Cases -> [Listings -> MatchStatus \cup {"none"}]]
  /\ \A c \in Cases : \A s \in Sources : checkpoint[c][s] \in 1..Len(Pages[s])
  /\ \A c \in Cases :
       /\ sync[c].at \in {"idle", "choose", "page", "locked", "done"}
       /\ sync[c].todo \subseteq Sources /\ sync[c].read \subseteq Sources
       /\ sync[c].left \subseteq Listings
  /\ held \in [LockKeys -> Cases \cup {NoListing}]

DiscoveryInit ==
  /\ listed = [l \in Listings |-> NoListing]
  /\ posting = {}
  /\ match = [c \in Cases |-> [l \in Listings |-> "none"]]
  /\ checkpoint = [c \in Cases |-> [s \in Sources |-> 1]]
  /\ sync = [c \in Cases |-> Idle]
  /\ held = [k \in LockKeys |-> NoListing]

-----------------------------------------------------------------------------
(* The sync of a case *)

\* The sources that are on, or those the request names
StartSync(c, todo) ==
  /\ sync[c].at \in {"idle", "done"}
  /\ sync' = [sync EXCEPT ![c] = [Idle EXCEPT !.at = "choose", !.todo = todo]]
  /\ UNCHANGED <<listed, posting, match, checkpoint, held>>

\* A source that cannot be read, or takes too long: its error is shown on it, and
\* the others go on
SourceFails(c, s) ==
  /\ sync[c].at = "choose"
  /\ s \in sync[c].todo
  /\ sync' = [sync EXCEPT ![c].todo = @ \ {s}]
  /\ UNCHANGED <<listed, posting, match, checkpoint, held>>

\* One that can is read from the page the last sync stopped at
OpenSource(c, s) ==
  /\ sync[c].at = "choose"
  /\ s \in sync[c].todo
  /\ sync' = [sync EXCEPT ![c] = [@ EXCEPT
       !.at = "page", !.source = s, !.page = checkpoint[c][s],
       !.left = Taken(c, s, checkpoint[c][s]), !.todo = sync[c].todo \ {s}]]
  /\ UNCHANGED <<listed, posting, match, checkpoint, held>>

\* Mutant of Locks: nothing is locked
MutantLocks(l) == {}
\* The advisory locks of a listing.  They are taken in one order, so taken together here.
Locks(l) == {Employer[l], Url[l]}

\* The opportunities dedup looks at for a listing: its employer's, and those with its URL
Near(l) == {o \in posting : Employer[o] = Employer[l] \/ Url[o] = Url[l]}

\* decide: the same URL or requisition, or the same employer, title and text
Duplicates(l, o) == Posting[o] = Posting[l]

\* What a new listing becomes part of: decide on the candidates that the query
\* returns, at most DedupLimit of them in no order
Merges(l) ==
  {IF \E o \in some : Duplicates(l, o)
     THEN CHOOSE o \in some : Duplicates(l, o) ELSE l :
     some \in {x \in SUBSET Near(l) : \/ x = Near(l) /\ Cardinality(x) <= DedupLimit
                                      \/ Cardinality(x) = DedupLimit}}

\* The locks, and under them the look-ups: the listing as it is known, or what
\* it is a duplicate of
LockListing(c, l) ==
  /\ sync[c].at = "page"
  /\ l \in sync[c].left
  /\ \A k \in Locks(l) : held[k] = NoListing
  /\ held' = [k \in LockKeys |-> IF k \in Locks(l) THEN c ELSE held[k]]
  /\ \E o \in IF listed[l] # NoListing THEN {listed[l]} ELSE Merges(l) :
       sync' = [sync EXCEPT ![c].at = "locked", ![c].one = l, ![c].into = o]
  /\ UNCHANGED <<listed, posting, match, checkpoint>>

\* Mutant of MatchOf: a sync writes the whole row
MutantMatchOf(status) == "new"
\* _upsert_match: inserted as new, its score updated otherwise
MatchOf(status) == IF status = "none" THEN "new" ELSE status

\* _upsert_listing and _upsert_match write, and the transaction commits
UpsertListing(c) ==
  LET l == sync[c].one
      o == sync[c].into IN
  /\ sync[c].at = "locked"
  /\ listed' = [listed EXCEPT ![l] = o]
  /\ posting' = posting \cup {o}
  /\ match' = [match EXCEPT ![c][o] = MatchOf(@)]
  /\ sync' = [sync EXCEPT ![c].at = "page", ![c].left = @ \ {l},
                          ![c].one = NoListing, ![c].into = NoListing]
  /\ held' = [k \in LockKeys |-> IF k \in Locks(l) THEN NoListing ELSE held[k]]
  /\ UNCHANGED checkpoint

\* Mutant of Leftover: the page counts as read when it was fetched
MutantLeftover(c) == {}
Leftover(c) == sync[c].left

\* The page to read next: a source read to its end starts again
NextPage(s, p) == IF p = Len(Pages[s]) THEN 1 ELSE p + 1

\* The checkpoint moves once the page's listings are committed.  The source is left at
\* its end, or after MAX_PAGES pages (here: after any).
PageDone(c) ==
  LET s == sync[c].source
      next == NextPage(s, sync[c].page) IN
  /\ sync[c].at = "page"
  /\ Leftover(c) = {}
  /\ checkpoint' = [checkpoint EXCEPT ![c][s] = next]
  /\ \/ /\ next # 1
        /\ sync' = [sync EXCEPT ![c].page = next, ![c].left = Taken(c, s, next)]
     \/ sync' = [sync EXCEPT ![c].at = "choose", ![c].page = 1, ![c].left = {},
                             ![c].read = IF next = 1 THEN @ \cup {s} ELSE @]
  /\ UNCHANGED <<listed, posting, match, held>>

SyncDone(c) ==
  /\ sync[c].at = "choose"
  /\ sync[c].todo = {}
  /\ sync' = [sync EXCEPT ![c].at = "done"]
  /\ UNCHANGED <<listed, posting, match, checkpoint, held>>

\* The worker dies: the transaction of the listing at hand is rolled back
SyncCut(c) ==
  /\ sync[c].at \in {"choose", "page", "locked"}
  /\ sync' = [sync EXCEPT ![c] = Idle]
  /\ held' = [k \in LockKeys |-> IF held[k] = c THEN NoListing ELSE held[k]]
  /\ UNCHANGED <<listed, posting, match, checkpoint>>

SetMatchStatus(c, o, status) ==
  /\ o \in Marked
  /\ match[c][o] # "none"
  /\ match' = [match EXCEPT ![c][o] = status]
  /\ match' # match
  /\ UNCHANGED <<listed, posting, checkpoint, sync, held>>

-----------------------------------------------------------------------------
\* sync_case
SyncStep(c) ==
  \/ UpsertListing(c) \/ PageDone(c) \/ SyncDone(c)
  \/ \E s \in Sources : SourceFails(c, s) \/ OpenSource(c, s)
  \/ \E l \in Listings : LockListing(c, l)

\* The requests about a case's opportunities
UserOnOpportunities(c) ==
  \/ \E todo \in SUBSET Sources \ {{}} : StartSync(c, todo)
  \/ \E l \in Listings, status \in MatchStatus : SetMatchStatus(c, l, status)

DiscoveryNext ==
  \E c \in Cases : SyncStep(c) \/ SyncCut(c) \/ UserOnOpportunities(c)

DiscoverySpec == DiscoveryInit /\ [][DiscoveryNext]_dVars

-----------------------------------------------------------------------------
(* Properties *)

\* Concurrent syncs of different users never make two opportunities of one
\* posting, unless one of them has more others of its employer and with its URL than
\* dedup looks at.
OnePerPosting ==
  \A o, p \in posting :
    o # p /\ Posting[o] = Posting[p] =>
      \/ Cardinality(Near(o) \ {o}) > DedupLimit
      \/ Cardinality(Near(p) \ {p}) > DedupLimit

\* What a sync has read to its end is in the catalogue and matched for its case,
\* whatever was interrupted before: a page that was skipped at a resumption was
\* committed by an earlier sync of the case.
ReadMeansMatched ==
  \A c \in Cases : \A s \in sync[c].read : \A i \in 1..Len(Pages[s]) :
    \A l \in Taken(c, s, i) : listed[l] # NoListing /\ match[c][listed[l]] # "none"

\* A sync never changes what the user said of a match.
SyncKeepsStatus ==
  [][sync' # sync => \A c \in Cases, o \in Listings :
       match[c][o] # "none" => match'[c][o] = match[c][o]]_dVars
=============================================================================
