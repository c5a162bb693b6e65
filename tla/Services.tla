------------------------------- MODULE Services -------------------------------
(***************************************************************************)
(* The services of the backend that meet only in the database and in the    *)
(* runtime: each of them at work while the others rest.  Which one it is is *)
(* chosen at the start; the modules are checked together so that one        *)
(* instance shows all of them.                                              *)
(***************************************************************************)
EXTENDS Naturals, FiniteSets, Sequences

CONSTANTS
  Apps, Runs, Answers, Gap, Nothing, Reruns, Overlapping, MaxSent,   \* Applications
  Notes, Chans, Workers, Presses, Nowhere, MaxAttempts, BreakerFailures, \* Channels
  Cases, Listings, Pages, Posting, Employer, Url, Wanted, DedupLimit, Marked,
  NoListing,                                                         \* Discovery
  Entries, SummaryEntry, SkillEntry, CvText, DeviceModels, Models, Sentences,
  MaxVersions, MaxSwitches, NoModel,                                 \* Drafts
  Uploads, Bytes, Mined, Wordings, Says, ByHand,                     \* Profile
  Configs, Servers, Tabs, NoConfig, NoKey, Unchecked, MaxVersion,    \* Providers
  Logins, Requests, Guessers, MaxTokens, IdleTime, Lifetime, LoginLimit,
  NoLogin, MaxTime,                                                  \* Sessions
  Listed, Size, Finds, Readable, ConfigPages, MaxRequests, MaxJobs,  \* Boards
  CatalogKeys, CustomKeys, Browsers, MaxCustom, NoSource,            \* Sources
  Chats, Turns, ChatModels, Named, WorkTools, MaxSteps               \* Assistant

VARIABLES
  part,  \* the service at work
  app, run, approval, ledger, thread, sent, denied,
  subject, note, channel, outbox, token, claimed, wire, press, copies, cause,
  listed, posting, match, checkpoint, sync, held,
  fact, standard, switches, writer, request, call, produced, generated, renders,
  document, files, rendering, reading, entry, rereading, deletion, imported,
  config, edit, check,
  now, session, served, attempts, guesses, login, tokens,
  board, came, plan, read, kept,
  custom, source, job, asked, overtaken,
  chat, turn, done, usual, switched

applicationsVars == <<app, run, approval, ledger, thread, sent, denied>>
channelsVars == <<subject, note, channel, outbox, token, claimed, wire, press,
                  copies, cause>>
discoveryVars == <<listed, posting, match, checkpoint, sync, held>>
draftVars == <<fact, standard, switches, writer, request, call, produced, generated,
               renders>>
profileVars == <<document, files, rendering, reading, entry, rereading, deletion,
                 imported>>
providerVars == <<config, edit, check>>
sessionVars == <<now, session, served, attempts, guesses, login, tokens>>
boardVars == <<board, came, plan, read, kept>>
sourceVars == <<custom, source, job, asked, overtaken>>
assistantVars == <<chat, turn, done, usual, switched>>

A == INSTANCE Applications
C == INSTANCE Channels
D == INSTANCE Discovery
W == INSTANCE Drafts
P == INSTANCE Profile
M == INSTANCE Providers
S == INSTANCE Sessions
B == INSTANCE Boards
O == INSTANCE Sources
T == INSTANCE Assistant

ServicesTypeOK ==
  /\ part = "applications" => A!TypeOK
  /\ part = "channels" => C!ChannelsTypeOK
  /\ part = "discovery" => D!DiscoveryTypeOK
  /\ part = "drafts" => W!DraftsTypeOK
  /\ part = "profile" => P!ProfileTypeOK
  /\ part = "providers" => M!ProvidersTypeOK
  /\ part = "sessions" => S!SessionsTypeOK
  /\ part = "boards" => B!BoardsTypeOK
  /\ part = "sources" => O!SourcesTypeOK
  /\ part = "assistant" => T!AssistantTypeOK

ServicesInit ==
  /\ part \in {"applications", "channels", "discovery", "drafts", "profile",
              "providers", "sessions", "boards", "sources", "assistant"}
  /\ A!Init
  /\ C!ChannelsInit
  /\ D!DiscoveryInit
  /\ W!DraftsInit /\ (part = "drafts" \/ standard = CHOOSE m \in Models : TRUE)
  /\ P!ProfileInit
  /\ M!ProvidersInit
  /\ S!SessionsInit
  /\ B!BoardsInit /\ (part = "boards" \/ (came = 1 /\ plan = B!OneFeed))
  /\ O!SourcesInit
  /\ T!AssistantInit /\ (part = "assistant" \/ usual = CHOOSE m \in ChatModels : TRUE)

\* The others rest
OthersRest ==
  /\ IF part = "applications" THEN TRUE ELSE UNCHANGED applicationsVars
  /\ IF part = "channels" THEN TRUE ELSE UNCHANGED channelsVars
  /\ IF part = "discovery" THEN TRUE ELSE UNCHANGED discoveryVars
  /\ IF part = "drafts" THEN TRUE ELSE UNCHANGED draftVars
  /\ IF part = "profile" THEN TRUE ELSE UNCHANGED profileVars
  /\ IF part = "providers" THEN TRUE ELSE UNCHANGED providerVars
  /\ IF part = "sessions" THEN TRUE ELSE UNCHANGED sessionVars
  /\ IF part = "boards" THEN TRUE ELSE UNCHANGED boardVars
  /\ IF part = "sources" THEN TRUE ELSE UNCHANGED sourceVars
  /\ IF part = "assistant" THEN TRUE ELSE UNCHANGED assistantVars

ServicesNext ==
  /\ UNCHANGED part
  /\ OthersRest
  /\ \/ part = "applications" /\ A!Next
     \/ part = "channels" /\ C!ChannelsNext
     \/ part = "discovery" /\ D!DiscoveryNext
     \/ part = "drafts" /\ W!DraftsNext
     \/ part = "profile" /\ P!ProfileNext
     \/ part = "providers" /\ M!ProvidersNext
     \/ part = "sessions" /\ S!SessionsNext
     \/ part = "boards" /\ B!BoardsNext
     \/ part = "sources" /\ O!SourcesNext
     \/ part = "assistant" /\ T!AssistantNext

servicesVars == <<part, applicationsVars, channelsVars, discoveryVars, draftVars,
                  profileVars, providerVars, sessionVars, boardVars, sourceVars,
                  assistantVars>>

ServicesSpec == ServicesInit /\ [][ServicesNext]_servicesVars

-----------------------------------------------------------------------------
(* What the theorems assume of the constants; each says which of these it needs *)

\* No message is not a message.
ChannelsAssumption ==
  /\ MaxAttempts \in Nat
  /\ Nowhere \notin [note : Notes, attempts : 0..MaxAttempts, arrived : BOOLEAN]

\* Somebody is told of something somewhere, and a channel may fail.
OutboxAssumption ==
  ChannelsAssumption /\ Notes # {} /\ Chans # {} /\ BreakerFailures \in Nat

\* Sources list pages, at least one; two listings of one posting are of one employer or
\* have one URL; a marker for no listing is none, and is no case either.
DiscoveryAssumption ==
  /\ NoListing \notin Listings /\ NoListing \notin Cases /\ IsFiniteSet(Listings)
  /\ \A s \in DOMAIN Pages : Pages[s] \in Seq(SUBSET Listings) /\ Pages[s] # <<>>
  /\ \A l, m \in Listings :
       Posting[l] = Posting[m] => Employer[l] = Employer[m] \/ Url[l] = Url[m]
  /\ DedupLimit \in Nat

\* Custom keys have a form the catalog's do not (_custom_key), and no row is not a row.
SourcesAssumption == CatalogKeys \cap CustomKeys = {} /\ NoSource \notin O!Rows

\* Pages have rows, there is a word to search for, and a request may be made.
BoardsAssumption ==
  /\ Listed \in Seq(B!Postings) /\ Len(Finds) \in Nat \ {0}
  /\ Size \in Nat \ {0} /\ ConfigPages \in Nat
  /\ MaxRequests \in Nat \ {0} /\ MaxJobs \in Nat

\* A session does not stay idle for longer than it lives (config.py: hours and days).
SessionsAssumption ==
  MaxTime \in Nat /\ IdleTime \in Nat /\ Lifetime \in Nat /\ IdleTime <= Lifetime

\* What runs create and what a CV says are entries like others; a document has a version.
DraftsAssumption == /\ {SummaryEntry, SkillEntry, CvText} \subseteq Entries
                    /\ MaxVersions \in Nat \ {0} /\ MaxSwitches \in Nat

\* Sign-ins are finitely many, one guess at least is allowed, a row has a version, there
\* is a server, a conversation has a step, and a message names a model there is.
ASSUME ServicesAssumption ==
  /\ A!ApplicationAssumption /\ OutboxAssumption /\ DiscoveryAssumption
  /\ SourcesAssumption /\ BoardsAssumption /\ SessionsAssumption /\ DraftsAssumption
  /\ LoginLimit \in Nat \ {0} /\ IsFiniteSet(Guessers)
  /\ MaxVersion \in Nat \ {0} /\ Servers # {}
  /\ MaxSteps \in Nat \ {0} /\ Named \subseteq ChatModels

-----------------------------------------------------------------------------
(* Properties: those of the services *)

\* Applications: whatever an employer was sent stays recorded as sent or in doubt.
NothingSentIsForgotten == A!NothingSentIsForgotten
\* Applications: the form that is sent is the one the approval request showed.
SendsWhatWasApproved == A!SendsWhatWasApproved

\* Channels: a message goes out a second time only for a cause the outbox has.
DuplicateHasCause == C!DuplicateHasCause
\* Channels: a used button has decided, by its owner's hand.
UsedButtonDecided == C!UsedButtonDecided

\* Discovery: one opportunity for one posting, whoever synchronises at once.
OnePerPosting == D!OnePerPosting
\* Discovery: what was read to its end is matched, whatever was interrupted.
ReadMeansMatched == D!ReadMeansMatched
\* Discovery: a sync leaves the status a user gave a match alone.
SyncKeepsStatus == D!SyncKeepsStatus

\* Drafts: only what the user agreed to send goes to an online model, but for the names
\* of skill entries, and for what a rerun gathers under an earlier approval.
SharedAsApproved == W!SharedAsApproved
\* Drafts: a run that is run again, after a crash or by the user, does not save its draft
\* twice, unless the user deleted it before the run was past its save.
OneDraftPerRun == W!OneDraftPerRun

\* Profile: what the user reviewed goes, or is put back, by the user's hand.
ReviewedStays == P!ReviewedStays
\* Profile: a document keeps its bytes in the store it shares with generated documents,
\* but for the deletions that do not count it.
DocumentsHaveFiles == P!DocumentsHaveFiles

\* Providers: a stored key does not go to a server it was not entered for, but for a
\* request that looked at what is not there any more.
KeyStaysWithItsServer == M!KeyStaysWithItsServer

\* Sessions: who signed out stays out, whatever request was under way.
SignedOutStaysOut == S!SignedOutStaysOut
\* Sessions: wrong passwords are limited, but for those looked at together.
GuessesBounded == S!GuessesBounded

\* Boards: a reading that ends well has every posting that was there all the time.
ReadingIsComplete == B!ReadingIsComplete

\* Sources: a source that was turned off or deleted is off, whatever was under way.
OffStaysOff == O!OffStaysOff

\* Assistant: an online model sees a conversation the user agreed to share.
ConsentBeforeOnline == T!ConsentBeforeOnline
=============================================================================
