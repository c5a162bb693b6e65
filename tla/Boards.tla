-------------------------------- MODULE Boards --------------------------------
(***************************************************************************)
(* Reading one source (integrations/sources): the adapter of an entry asks  *)
(* its provider for every posting of a board, which the provider reads page *)
(* by page, by offset, until its own rule says that there are no more.      *)
(*                                                                          *)
(* The board is somebody else's and changes while it is read: a posting     *)
(* that appears is listed first and moves the others back, one that goes    *)
(* moves those behind it forward.  What a posting says is left out; how a   *)
(* provider turns the pages, and when it stops, is its plan.                *)
(***************************************************************************)
EXTENDS Naturals, Sequences, FiniteSets, Functions

CONSTANTS
  Listed,       \* a sequence of postings: what the board lists at the start is
                \* the end of it, and what appears comes from before that
  Size,         \* rows of a page: 20, 50 or 100
  Finds,        \* what each search word finds (the case's, or the provider's own
                \* when the case has none): a sequence of sets of postings
  Readable,     \* the postings with a title and an https address
  ConfigPages,  \* the entry's max_pages; 0 when it has none
  MaxRequests,  \* 400 in Http._call
  MaxJobs       \* MAX_JOBS_PER_SOURCE

VARIABLES
  board,    \* what the board lists now
  came,     \* how many postings have appeared
  plan,     \* the provider of the entry
  read,     \* the reading
  kept      \* the page of records the sync gets

boardVars == <<board, came, plan, read, kept>>

Postings == Range(Listed)

-----------------------------------------------------------------------------
(* Plans: the loop that turns the pages, the pages it reads at most, whether *)
(* it keys what it finds by address, the search words it uses at most,       *)
(* whether it asks robots.txt, takes a request to find the board, and takes  *)
(* an empty page for an error                                                *)

OneFeed == [loop |-> "feed", pages |-> 1, keyed |-> FALSE, words |-> 0,
            robots |-> FALSE, lookup |-> FALSE, empty |-> TRUE]
Paged(loop, pages) == [OneFeed EXCEPT !.loop = loop, !.pages = pages]

Arbeitnow       == Paged("next", 5)
TheHub          == [Paged("pages", 5) EXCEPT !.keyed = TRUE]
LandingJobs     == Paged("short", 4)
JustJoin        == Paged("short", 3)
SolidJobs       == OneFeed
Platsbanken     == [Paged("short", 2) EXCEPT !.keyed = TRUE, !.words = 8]
Arbeitsagentur  == [Paged("first", 1) EXCEPT !.keyed = TRUE, !.words = 8]
SimpleJsonBoard == OneFeed
Himalayas       == Paged("short", 5)
FourDayWeek     == Paged("short", 4)
WeWorkRemotely  == OneFeed
NoFluffJobs     == [Paged("first", 1) EXCEPT !.keyed = TRUE, !.words = 8]
GenericFeed     == [OneFeed EXCEPT !.robots = TRUE]
JsonLdPage      == [OneFeed EXCEPT !.robots = TRUE, !.empty = FALSE]
Varbi           == GenericFeed
Getro           == [Paged("hits", 10) EXCEPT !.robots = TRUE, !.lookup = TRUE]
WorkInFinland   == OneFeed

Greenhouse      == OneFeed
Lever           == OneFeed
Ashby           == OneFeed
Workable        == [OneFeed EXCEPT !.keyed = TRUE]
SmartRecruiters == Paged("total", 25)
Recruitee       == OneFeed
Personio        == OneFeed
Teamtailor      == OneFeed
Breezy          == OneFeed
Pinpoint        == OneFeed
Rippling        == Paged("short", 25)
Workday         == [Paged("found", 10) EXCEPT !.keyed = TRUE, !.words = 4]

Providers == {Arbeitnow, TheHub, LandingJobs, JustJoin, SolidJobs, Platsbanken,
  Arbeitsagentur, SimpleJsonBoard, Himalayas, FourDayWeek, WeWorkRemotely, NoFluffJobs,
  GenericFeed, JsonLdPage, Varbi, Getro, WorkInFinland, Greenhouse, Lever, Ashby,
  Workable, SmartRecruiters, Recruitee, Personio, Teamtailor, Breezy, Pinpoint,
  Rippling, Workday}

MinOf(a, b) == IF a < b THEN a ELSE b

\* What of a sequence is in a set, in its order
Only(s, T) ==
  LET first[n \in 0..Len(s)] ==
        IF n = 0 THEN <<>>
        ELSE IF s[n] \in T THEN Append(first[n - 1], s[n]) ELSE first[n - 1]
  IN first[Len(s)]

\* _pages and _max_pages; Workday takes the configured number as it is
PageLimit ==
  IF ConfigPages = 0 \/ plan.pages = 1 THEN plan.pages
  ELSE IF plan.loop = "found" THEN ConfigPages ELSE MinOf(ConfigPages, 25)

\* How often the board is searched, and what a search lists of it
Rounds == IF plan.words = 0 THEN 1 ELSE MinOf(Len(Finds), plan.words)
Found(round) ==
  IF plan.words = 0 THEN board ELSE Only(board, Finds[round])

-----------------------------------------------------------------------------
NotReading == [at |-> "idle", round |-> 1, page |-> 0, out |-> <<>>, total |-> 0,
               found |-> 0, requests |-> 0, stayed |-> {}, late |-> FALSE,
               gone |-> FALSE, cut |-> FALSE]

BoardsTypeOK ==
  /\ board \in Seq(Postings) /\ Len(board) <= Len(Listed)
  /\ came \in 0..Len(Listed)
  /\ plan \in Providers
  /\ read.at \in {"idle", "robots", "reading", "done", "failed", "broken"}
  /\ read.out \in Seq(Postings) /\ read.stayed \subseteq Postings
  /\ read.round \in 1..Rounds /\ read.page < PageLimit /\ read.requests \in 0..MaxRequests
  /\ Len(kept) <= MaxJobs

BoardsInit ==
  /\ came \in 1..Len(Listed)
  /\ board = SubSeq(Listed, came + 1, Len(Listed))
  /\ plan \in Providers
  /\ read = NotReading
  /\ kept = <<>>

Reading == read.at \in {"robots", "reading"}

\* The board's side
PostingAppears ==
  /\ Reading /\ ~read.late /\ came > 0
  /\ board' = <<Listed[came]>> \o board
  /\ came' = came - 1
  /\ read' = [read EXCEPT !.late = TRUE]
  /\ UNCHANGED <<plan, kept>>

PostingGoes(x) ==
  /\ Reading /\ ~read.gone /\ x \in Range(board)
  /\ board' = Only(board, Postings \ {x})
  /\ read' = [read EXCEPT !.gone = TRUE, !.stayed = @ \ {x}]
  /\ UNCHANGED <<came, plan, kept>>

-----------------------------------------------------------------------------
\* EntryAdapter.fetch, with the search words of the case where the entry has none; an
\* entry may name the board that is looked for otherwise
BeginRead(named) ==
  /\ read.at = "idle"
  /\ read' = [read EXCEPT
       !.at = IF plan.robots /\ ~(plan.lookup /\ named) THEN "robots" ELSE "reading",
       !.stayed = Range(board)]
  /\ UNCHANGED <<board, came, plan, kept>>

\* What came of asking for robots.txt, and what it means: nothing there allows all,
\* a server that does not answer for it forbids all
RobotsAnswers == {"allowed", "forbidden", "absent", "unreachable"}
AllowedByRobots(answer) == answer \in {"allowed", "absent"}

AskRobots(answer) ==
  /\ read.at = "robots"
  /\ read' = [read EXCEPT !.at = IF AllowedByRobots(answer) THEN "reading" ELSE "failed",
                          !.requests = IF plan.lookup THEN @ + 1 ELSE @]
  /\ UNCHANGED <<board, came, plan, kept>>

\* The rows of a page; a feed has one page, with everything
Rows(round, page) ==
  LET all == Found(round) IN
  IF plan.loop = "feed" THEN all
  ELSE SubSeq(all, page * Size + 1, MinOf((page + 1) * Size, Len(all)))

\* The rows that can be read.  SmartRecruiters leaves that to the adapter; other feeds
\* (Greenhouse, Ashby, Recruitee, ...) check the address here and the title only there,
\* which is abstracted: it matters to what MaxJobs counts and to an empty page only.
Usable(rows) ==
  IF plan.loop = "total" THEN rows ELSE Only(rows, Readable)

\* Of those with an address that is known only the first
Added(out, rows) ==
  out \o IF plan.keyed
           THEN Only(Usable(rows), Postings \ Range(out))
           ELSE Usable(rows)

\* The page of the adapter: so many at most, and of those what has a title and an address
Records(out) ==
  Only(SubSeq(out, 1, MinOf(MaxJobs, Len(out))), Readable)

\* The total a provider goes by: SmartRecruiters' and Getro's last, Workday's first
Total == IF plan.loop = "found" /\ read.found > 0 THEN read.total
         ELSE Len(Found(read.round))

\* Mutant of Stops: a page that is just full is taken for the last
MutantStops(rows, out, found, total) ==
  CASE plan.loop = "short" -> Len(rows) <= Size
    [] plan.loop = "total" -> Len(out) >= total
    [] OTHER -> found >= total
\* When there are no more pages, as each loop sees it
Stops(rows, out, found, total) ==
  LET last == (read.page + 1) * Size IN
  CASE plan.loop = "next"  -> rows = <<>> \/ Len(Found(read.round)) <= last
    [] plan.loop = "pages" -> last >= Len(Found(read.round))
    [] plan.loop = "short" -> Len(rows) < Size
    [] plan.loop = "total" -> rows = <<>> \/ Len(out) >= total
    [] plan.loop = "hits"  -> rows = <<>> \/ last >= total
    [] plan.loop = "found" -> Len(rows) < Size \/ (total > 0 /\ found >= total)
    [] OTHER -> TRUE

\* Provider.fetch: one request, and where it goes on
ReadPage ==
  LET rows  == Rows(read.round, read.page)
      grown == Added(read.out, rows)
      found == read.found + Len(rows)
      ends  == Stops(rows, grown, found, Total)
      over  == ends \/ read.page + 1 = PageLimit IN
  /\ read.at = "reading" /\ read.requests < MaxRequests
  /\ read' = [read EXCEPT
       !.at = IF ~over \/ read.round < Rounds THEN "reading"
              ELSE IF grown = <<>> /\ ~plan.empty THEN "failed" ELSE "done",
       !.out = grown, !.requests = @ + 1,
       !.round = IF over /\ @ < Rounds THEN @ + 1 ELSE @,
       !.page  = IF over THEN 0 ELSE @ + 1,
       !.found = IF over THEN 0 ELSE found,
       !.total = IF over THEN 0 ELSE Total,
       !.cut   = @ \/ (over /\ ~ends) \/ (plan.loop = "first" /\ Len(Found(read.round)) > Size)]
  /\ kept' = IF read'.at = "done" THEN Records(grown) ELSE kept
  /\ UNCHANGED <<board, came, plan>>

\* A request that is refused, does not come back in time or needs too many before it:
\* SourceError, and what was read is dropped
ReadFails ==
  /\ read.at = "reading"
  /\ read' = [read EXCEPT !.at = "failed", !.out = <<>>]
  /\ UNCHANGED <<board, came, plan, kept>>

\* An answer of another shape: an error that the sync does not expect
ReadBreaks ==
  /\ read.at = "reading" /\ read.requests < MaxRequests
  /\ read' = [read EXCEPT !.at = "broken", !.out = <<>>]
  /\ UNCHANGED <<board, came, plan, kept>>

BoardsNext ==
  \/ PostingAppears \/ \E x \in Postings : PostingGoes(x)
  \/ \E named \in BOOLEAN : BeginRead(named)
  \/ ReadPage \/ ReadFails \/ ReadBreaks
  \/ \E answer \in RobotsAnswers : AskRobots(answer)

BoardsSpec == BoardsInit /\ [][BoardsNext]_boardVars

-----------------------------------------------------------------------------
(* Properties *)

Sought == {x \in read.stayed : plan.words = 0 \/ \E i \in 1..Rounds : x \in Finds[i]}

\* A reading that ends well has every posting that was there all the time and that it
\* looks for, except when a posting went away meanwhile, its page or posting limit cut
\* it off, or (Workday, which goes by the total of the first page) one was added.
ReadingIsComplete ==
  read.at = "done" =>
    \/ Sought \cap Readable \subseteq Range(kept)
    \/ read.gone \/ read.cut \/ Len(read.out) > MaxJobs
    \/ plan.loop = "found" /\ read.late
=============================================================================
