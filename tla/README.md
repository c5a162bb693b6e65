# NexScout: TLA+ models, checks and proofs

NexScout keeps a user's job applications moving while the user is away: agents
read profiles, find openings, draft documents, fill in forms, ask for an
approval, and submit. All of it runs as *durable workflow runs*: rows in
Postgres, a task queue in the same database, and worker processes that advance a
LangGraph graph from checkpoint to checkpoint. This directory holds TLA+ modules
of that program, the TLC runs that check them and the TLAPS proofs about them.
Paths below are relative to `src/backend/src/nexscout/` unless they say otherwise.

    tlc -workers 2 -config RunRuntime_crash.cfg MCRunRuntime.tla
    tlapm RunSafetyProofs.tla

## 1. The system

```
 web / desktop --> API (FastAPI) --+                       +--> model providers
                                   |      Postgres         |
 chat (Telegram, WhatsApp ...) --+ +--> runs, tasks,  <-- worker(s) --> browser, sites
                                 +----> approvals,         |
                                        outbox, ledger     +--> chat, e-mail
```

| Component | State it keeps | Operations | What is hard | What makes it correct |
|---|---|---|---|---|
| Run control (`application/runs.py`, `domain/state_machines.py`) | `workflow_runs`: status, `control_request`; `approval_requests` | start, pause, resume, cancel, retry, rerun, skip, decide | a request meets a worker between any two of its transactions | only declared moves; requests are honoured; a decision is final and wakes its run |
| Task queue (`agent_runtime/queue.py`) | `tasks`: status, attempt, lease | enqueue, claim, extend, finish, requeue, reap | leases that run out under a live worker; attempts counted in four places | one job per run; bounded attempts; every task ends |
| Worker (`agent_runtime/worker.py`) | `_inflight`, the asyncio tasks of its jobs, drain and cancel reasons | claim loop, `_advance`, heartbeat, reaper, drain, crash | run and task are written in *two* transactions; cancellation lands at any `await`; stale copies | status shows what executes; nothing completed is repeated; active runs come to rest |
| Run context (`agent_runtime/context.py`) | approval request per run and step, `tool_executions` ledger | `require_approval`, `side_effect`, tracked steps | unlocked read before a write; a crash inside the call | no effect without approval; no repeated effect unless a failure was reported |
| Applications (`application/applications.py`, `agents/browser_apply.py`, `agents/browser_assist.py`) | `applications`: status, contents, evidence; the ledger row and the browser thread of a submission | create, edit, change status, resolve, fill, approve, submit, assist | a browser thread outlives its job; two runs on one application; edits between approval and submission | never submitted twice; what is sent is what was approved and is never forgotten |
| Autopilot (`application/autopilot.py`, `agents/autopilot_cycle.py`, `domain/policy.py`) | policies, items with stages and child runs | cycle, reconcile, gate, `stop_all` | check-then-act beside a user who stops, edits and applies by hand; children that end unexpectedly | STOP is final and reaches every run; an item says what happened |
| Channels (`application/channels.py`, `application/notifications.py`, `agent_runtime/channel_loops.py`) | outbox rows with a lock, channels, one-time buttons | notice, claim, deliver, break circuit, pair, act | 90 s lock on a batch sent one by one; button used before the decision | a duplicate has a cause; a used button decided |
| Discovery (`application/opportunities.py`) | the shared catalogue, matches, checkpoints | sync, mark | users merge the same posting at once; interrupted syncs | one opportunity per posting; read means matched |
| Boards (`integrations/sources/`) | none: a reading | fetch by page, offset or search word | the board changes between two pages | what was there all the time is read |
| Sources (`application/sources.py`) | the user's sources and their switches | add, turn on and off, test, import, delete | minutes of fetching between a read and the write that rests on it | what was turned off stays off |
| Drafts (`agents/draft_document.py`, `profile_summary.py`, `skill_discovery.py`, `application/generated_documents.py`) | entries, versions, renderings, the approval to share | gather, consent, draft, repair, save, render | model and entries change while the approval waits; the worker dies between the save and its checkpoint; the user runs it again | what an online model may be told; a run saves one draft |
| Profile (`application/documents.py`, `profile.py`, `profile_bundle.py`, `agents/document_ingestion.py`) | documents, their bytes, entries under review | upload, read, read again, delete, review, import | two requests on one content, in a store that generated documents share; picked entries change meanwhile | what the user reviewed stays; a document keeps its bytes |
| Providers (`application/providers.py`) | model servers, their keys, the default | create, update, default, verify, delete | two tabs on one row, pages that show an older one | a key stays with its server |
| Sessions (`application/auth.py`, `tokens.py`, `api/deps.py`) | sessions, attempts, tokens | sign in and out, serve, issue tokens | a request in flight commits after the sign-out; attempts counted before a slow check | who signed out stays out; guesses are limited |
| Assistant (`agents/assistant.py`, `application/assistant.py`) | conversations, runs per message, ledger | send, clear, consent, converse, work | several messages at once, one refused, one cut off | an online model sees only what was agreed to |
| Live events (`agent_runtime/events.py`) and the rest | | | | see "Not modelled" |

Components interact only through Postgres rows: a request writes a run and
queues a task in one transaction; a worker claims the task, writes the run, runs
the graph (checkpoints go to LangGraph's tables, step by step), writes the run
again and ends the task; an approval is a row that the graph writes and the user
decides; the autopilot's reconciler reads the status of its child runs; the
outbox is filled by all of them and emptied by a loop of the worker. `PROJECT.json`
lists every component with what is left out of it, and the hazards, each at its
line with the properties that would catch it.

## 2. Modules

| Module | What it is |
|---|---|
| `RunMachine` | the table of moves of `domain/state_machines.py` (`RUN_MACHINE`) |
| `RunLifecycle` | abstract specification: every run's status only makes declared moves |
| `RunRuntime` | run control, task queue, workers, gate and graph, interleaved |
| `MCRunRuntime` | the instances TLC checks: one run, two workers |
| `RunRuntimeProofs` | type correctness and `RunRuntime` implements `RunLifecycle` |
| `RunSafetyProofs` | decisions and consent; one job per run and bounded attempts as long as leases are kept; what a status says |
| `SideEffects` | the ledger of one idempotency key |
| `MCSideEffects` | the instance TLC checks: three executions |
| `SideEffectsProofs` | the ledger's invariants for any number of executions |
| `ApplicationMachine` | the table of moves of an application (`APPLICATION_MACHINE`) |
| `Applications` | applications, their browser runs, and the user; `MCApplications` for TLC |
| `Autopilot` | EXTENDS `Applications`: policy, cycle, items, gate, STOP; `MCAutopilot` for TLC |
| `ApplicationsProofs` | a form is sent once and not forgotten; what is sent was approved |
| `AutopilotProofs` | EXTENDS `ApplicationsProofs`: STOP is final and reaches the runs; what an item says is so |
| `Channels`, `Discovery`, `Boards`, `Sources`, `Drafts`, `Profile`, `Providers`, `Sessions`, `Assistant` | one service each |
| `Services`, `MCServices` | `Applications` and those nine, each at work while the others rest |
| `ModelProofs` | `Providers` and `Assistant`: types; the key stays; consent comes first |
| `PartsProofs` | the parts of `Services` keep their own specifications; a board is read to its end; sources and the profile |
| `ServicesProofs` | EXTENDS `PartsProofs`: the promises of the other services, and the types of all ten |

### RunRuntime and the code

*One action is one transaction, or one step of a job that no transaction
separates.* The state is the database (`run`, `task`, `approval`, `saved`: the
run's checkpoints) and the memory of each process (`pc`, `job`, `registered` =
`_inflight`, `up`, `reaped`).

- **Requests**: `StartRun`, `Pause`, `Resume`, `Cancel`, `Retry`, `Rerun`,
  `Skip`, `Decide` are the branches of `start_run`, `control` and `decide`, each
  with its guards; a request whose `_enqueue` conflicts is rolled back as a
  whole, so the conflict is a guard. `DecideFromChat` is `handle_action`, which
  catches that conflict inside the transaction and commits the decision.
- **A job's way through `_advance`**: `load` (the first read, unlocked) ->
  `start` (set running) -> `setup` (which checkpoint the graph enters) ->
  `boundary`/`node`/`acted` (the stream: a step at a time, drains between) ->
  `judge` (read the newest checkpoint) -> `set` (the run's status) -> `end` (the
  task). The handlers write status and task the same way (`hset`, `hend`); the
  last-resort handler of `_execute` in the opposite order (`fend`, `fset`).
- **Cancellation of the asyncio task** (`CancelJob`) depends on the region the
  job is in: before the `try`, inside it, or in a handler.
- **Loops**: `Heartbeat` extends a lease, notices a lost one, and passes on what
  the user asked; `Reap` and `ReapSet` are the reaper's two transactions;
  `Shutdown`, `GraceEnds`, `Stopped` the drain; `Crash` loses the memory and
  leaves the leases.
- **Fencing** is what the code has: `WHERE id = .. AND lease_owner = worker AND
  status = 'running'` (`Owns`). Two jobs of one worker on the same task pass it
  both, and `_inflight` is keyed by task id (`SameEntry`); `Slots` > 1 makes that
  case reachable.

What it abstracts: `available_at` (a delay may be over at any time); the
contents of checkpoints, except which step comes next and what it knows of the
approval; the graph, a line of steps with one gate and one effect, as in
`agents/system_check.py`; step and token budgets (a permanent failure stands for
them); one run per instance, because two runs meet only in `Concurrency` and the
limit per user; the commit of `finish` and the pop from `_inflight`, which no one
tells apart except through `Concurrency`; the reaper and the heartbeat handle one
row at a time. A transaction interrupted by a cancellation counts as rolled back.
Unknown workflow kinds, runs deleted while queued, and a second gate that would
receive the resume payload of the first are left out.

### SideEffects and the code

`Look` is the unlocked SELECT of `side_effect`; `Reuse`, `Doubt` and `Open` are
what its transaction decides on what was read; `Inserted` says what the unique
key enforces at the flush; `Perform`, `Succeed`, `Raise` are the call and the
transactions after it; `Abandon` is a crash or a `CancelledError`, which the
`except Exception` of the code does not see. The row is deleted and inserted
again after a recorded failure, so it has an identity: an UPDATE of a row that is
gone does nothing to its successor. A late reader may overwrite `succeeded` with
`uncertain`; the model has that case, and what holds nevertheless is
`EffectIsRemembered`. `RunRuntime` treats an effect as one step;
`Applications` has the ledger's row around a submission again, with what the browser
thread does beside it.

### Applications, Autopilot and the code

A browser run is a step (`fill`, `approve`, `submit`, `assist`) that the runtime
runs, runs again from its start, cancels or gives up (`Interrupted`, `RetryRun`,
`RerunRun`, `CancelRun`): that is all `Applications` takes from `RunRuntime`.
`SubmitBegin` is the application's transaction before the browser; `SubmitCall` commits
the ledger's row in one of its own, after which the form is planned from what was read
before or, of contact details and documents, from what there is by then (`Plannable`,
in the fill step too); `Click` and `Reports` are the thread, which goes on when its job
is cancelled; `CallReturns`, `CallRaises` and `SubmitEnd` are the ledger and the
transaction after it. A form's contents are a
value of `Answers`, and the digest of a plan is that value. `Reruns` names
the steps a user may run again. The field `refilled` of a run is history, which no
guard reads: it marks that the form was filled in again by the run itself under its
old request (`agent_runtime/context.py:211`), or by another run before the request was
made, which then shows the other's form (`browser_apply.py:320`) while the submission
compares with its own. In the assisted window the person submits: `AssistConfirmed` when
the site shows that it did, `AssistEnded` when the window is closed without a
confirmation, in which case nothing is recorded even if the person had submitted.

`Autopilot` follows an item through `_advance`: `AdvanceBegin` locks the row and has
read the policy before; then one action for each of its returns. `ApplyFor` leaves an
item to the user (no form, a site whose verdict is manual, filling in turned off), puts
it off, marks it failed when `start_browser` refuses, or starts the run. A run of research,
drafting or rendering is the item's work, which ends well or badly. `GateReads` and
`KeepsGate` are the gate in the approve step, read and recorded in two transactions.

### The services and the code

One action is one transaction or what happens outside between two of them.

- `Channels`: `Notify` is the sweep, `ClaimDue`, `BeginSend`, `Arrive`, `EndSend` a
  delivery, of which nothing looks at the lock again; `LockLapses` is time;
  `Press`, `TakeToken`, `DecideByButton` a button. How a press gets to its loop differs:
  Telegram keeps it until the offset moves (`Polled`), Discord's gateway counts it
  before it is handled and may miss it (`Dispatched`, `Missed`), WhatsApp's waits in a
  row that is marked first (`Inboxed`). `RecordInbound` drops what was recorded before;
  so after `LoopCut`, a crash between the steps, only an unrecorded Telegram update is
  handled again.
  A button expires (`TakeToken` may always refuse). Every worker process has a loop per
  channel, so several presses are under way at once (`Presses`).
- `Discovery`: a sync commits after every listing and holds the advisory locks of its
  employer and of its URL while it looks for duplicates among both; it resumes at its
  checkpoint. Listings that are not valid, or that the case's filter does not keep, are
  passed over (`Wanted`, which stays the same). A source may be left after any page; the
  code does that after `MAX_PAGES`.
- `Boards`: a provider is a plan, which says how it turns its pages and when it
  stops; there is one per class of `ats.py` and `boards.py`. Postings appear and go
  between two requests.
- `Sources`: what goes out to a site (test, import, addition) read before and
  writes after (`Health`).
- `Drafts`: the nodes of the three writing workflows; an answer is the set of its
  sentences as the verifier sees them. `Gather` reads what may be shared and, when skills
  are looked for, the names of all skill entries of the case (`KnownSkills`), which
  `Complete` always sends. `WriterCut` is a worker that dies, also between `SaveDocument`
  or `SaveSummary` and the node's checkpoint (`SaveDone`); `RerunWriter` the user who runs
  a failed or finished run again from its first step. Rendering reads a version and writes
  later; a deletion unlinks the files (`UnlinkFiles`) before its transaction commits
  (`DeleteDocument`) or does not.
- `Profile`: uploads, the ingestion run, reading again and deleting, each in the
  steps its reads and its file operations divide it into. `ImportCase` makes a second
  case of a bundle: its document and entries arrive with their review, no run reads
  them, and its bytes may be those of a document of the first case (`Mates` are the
  entries of one case). Generated documents keep their files in the same store
  (`rendering`, `Render`, `UnlinkRendered`), so one that was downloaded and uploaded again
  has the bytes of both.
- `Providers`: a page shows a row and its version (`ShowForm`); a request reads the row,
  checks the version and what it read, and commits the columns that differ. The version
  is counted on from the copy, so two commits may give a row the same one.
- `Sessions`: a request resolves its session, and writes what it computed when it
  commits; sign-ins count, check and record. Which requests write their row is
  over-approximated (`Writes`).
- `Assistant`: consent, converse and save, with the tools that start work in the
  ledger, and the conversation cleared or the standard model changed meanwhile.

`Services` chooses one of them at the start. They meet in the database rows of one user,
in the runtime and in the object store, and what a service reads or loses there by
another is an action of the module it happens to: an entry that becomes private and a
model that becomes the standard one in `Drafts`, the files of generated documents in
`Profile`. `Drafts` has their versions and what these list, `Profile` the bytes. So
interleaving the modules would multiply the states without a new behaviour of those the
properties speak of.

## 3. What is checked

| Run | Question | Bounds and states |
|---|---|---|
| `safe` | Do users see what executes, has a pending run work queued, is nothing repeated but by a rerun? | two workers, three steps with a gate and an effect, three changes of mind, failing steps; 69 thousand states |
| `crash` | Does mutual exclusion survive two crashes, faults or shutdowns between any two transactions, does a decision, and are attempts bounded though shutdowns give them back and the reaper requeues? | every kind of request, two attempts, two mishaps; 650 thousand states |
| `lease` | A live worker loses its lease and goes on beside its successor, even in the same process, where a worker claims its own expired task again: which promises remain? | two jobs per worker, two attempts, one lost lease, one pause; a gate and an effect; 880 thousand states |
| `live` | Does an active run come to rest, and does a task end although a worker crashes? | fair workers, one crash, one change of mind; 72 thousand states |
| `ledger` | Is the call exclusive, are repeats reported, is an effect remembered? | three executions, four calls; 38 thousand states |
| `autopilot` | Does STOP end an item for good and reach its runs, does an item say what happened, is a form sent once, beside a user who edits and applies by hand? | one position, one browser run at a time that crashes, is cancelled or times out, three policies, a cap of one; 490 thousand states |
| `services` | What each service promises under its own concurrency (section 2) | below; 1.1 million states over the ten services |

Five runs are expected to find a violation. Each checks a sentence of the
project's own documentation against what the code does:

| Run | Sentence | What happens |
|---|---|---|
| `pause_lost` | `docs/AGENT_RUNTIME.md:33` "A queued run, or one waiting for approval, pauses immediately." | the worker has claimed the task; its `_set_run(RUNNING)` undoes the pause (`worker.py:469`) |
| `decision_lost` | `agent_runtime/context.py:206` "Pause the graph until the user decides." | decided between the commit of the request and `waiting_approval`: nothing is queued (`runs.py:420`), and the run waits for ever |
| `cancel_stuck` | `docs/AGENT_RUNTIME.md:35` "Cancel semantics: terminal. ..." | cancelled after the last step: the run stays in `cancelling` with no task, and cannot be cancelled again (`worker.py:559`) |
| `two_workers` | `docs/ARCHITECTURE_DECISIONS/0002-...md:9` "never execute the same task concurrently on two workers" | until its next heartbeat a late worker executes beside the one that claimed the reaped task |
| `overlap` | `docs/USER_GUIDE.md:152` "After you approve, it submits once..." | nothing keeps two runs of one application apart (`applications.py:506`): one takes the other's interrupted submission for its own, and the form goes out again |

**Why these bounds.** Every hazard found while reading the code takes one run,
at most two jobs (two workers, or two slots of one), one or two mishaps and one
or two requests; the graph has a step before the gate, the gate and the effect,
so a rerun, a skip, a retry and a drain each have a step to go back to, to leave
out, to repeat and to stop at. `lease`, with twice the jobs and attempts, has the gate and
the effect alone and one kind of request. `Workers` is symmetric and no fairness is used
where symmetry is. Deadlock is not checked: a run may end, and users need not
ask for anything more.

`services`: the smallest instance in which each hazard meets. One application and
its run with three contents, of which one has a gap; one message on one channel
with two delivering workers and one press at a time; two cases that merge three listings
of two postings, two of them by one employer and two at one URL, of which one case keeps
two, with a look at one candidate only; four entries of which one is a CV's text, three
models of which one is on the device, an answer of at most one claim; two uploads of the
same bytes, of which one may be imported, in a store where a generated document may have
them too; two tabs, two servers and one provider; two requests, two sign-ins and a limit
of two, over a time in which a session is extended before it runs out; a board of six
postings and pages of two; one catalog source and two of the user's; two messages of one
conversation, one of which may name a model. Two actors each, since every hazard found
is between two; a second application, channel or provider shares no row with the first.

The modules themselves have bounds, each named at its definition: one draft run at a time
(two runs of one draft, and two workers on one run, are not there, so `OneDraftPerRun`
says nothing of a worker that lost its lease); a rerun of a draft from its first step, of
a letter only before it is saved; skills that were added are there for later searches only,
and a resume, for which no model is asked, is written of the entries runs did not create; entries change where a run is about to read them or
waits; the text of a CV stays; one reading again or deletion of a document at a time, one
import; a provider's row is changed `MaxVersion` times. The theorems hold for any number of
presses, listings, tabs and versions. Two versions in the run are too few for the second
exception of `KeyStaysWithItsServer`, so that one is the theorem's alone. In a few places
the modules allow more than the code: the row locks of `set_default` and of bulk edits are
left out, more requests may write a session's row, a source may be left after any page, a
button may expire at once.

**Exceptions.** Properties that hold only with an exception name it. Each is a behaviour
of the code that somebody may want to close:

- `DuplicateHasCause`: the lock ran out, the service's answer was lost, the notification
  was deleted. `UsedButtonDecided`: the loop was cut off.
- `OnePerPosting`: more others of the employer, or with the URL, than dedup looks at.
- `SharedAsApproved`: the standard model was changed between two lookups. The names of
  skill entries are sent along when skills are looked for, pending, rejected and private
  ones included (`skill_discovery.py:107-114, 158, 182`), although the request says
  "Private entries are never sent" (143-145) and does not list them. And an approval
  outlives a rerun of the run that gathers more than it listed: the request is found by
  run and node (`context.py`, `draft_document.py:281-302`).
- `OneDraftPerRun`: the user deleted what was saved before the run, or its rerun, was past
  its save; the draft comes back.
- `ConsentBeforeOnline`: the standard model was changed between two lookups, or the
  conversation cleared.
- `ReviewedStays`: an entry that a request picked while it was pending goes with it, even
  if it was reviewed meanwhile; and the user may put it back to pending
  (`profile.py:262-264`).
- `DocumentsHaveFiles`: an upload of the same bytes came after a deletion counted who uses
  them; and the deletion of a generated document counts nobody, and unlinks before it
  commits (`generated_documents.py:312-314`). After one that fails, versions list files
  that are gone, and `render_version` trusts the list (`lost` in `Drafts`). Deleting a case
  leaves its files behind, and deleting an account those of generated documents, though
  `delete_account` says "and stored files" (`account.py:112-136`).
- `KeyStaysWithItsServer`: a request whose copy of the row is outdated, or whose user saw
  another server under the same version.
- `GuessesBounded`: sign-ins looked at together. `ReadingIsComplete`: a posting went away
  meanwhile, or a limit cut the reading off.
- `OffStaysOff`: a catalog source tested before the user said anything is turned on, which
  differs from `docs/KNOWN_LIMITATIONS.md:55`.
- `SendsWhatWasApproved`: the form was filled in again, which differs from the sentence in
  `agents/browser_apply.py:9` that exactly the approved plan is submitted (two runs of one
  application, or a rerun of the fill step; the run `services` reaches neither, the
  theorem covers both).
- `SkippedMeansNotSent`: the user said that nothing was sent.

**Fairness.** Workers poll, heartbeat and reap on timers, and every call a step
makes has a timeout, so each job's next step, each heartbeat, the claim of a
queued task, the expiry of a lease nobody extends, and the reaper are weakly
fair. Users, failures and crashes never are. The liveness run allows one
change of mind: a second pause request can meet the leftover `control_request`
of the first after a retry (`worker.py:458`, under the hazards).

Each property has a mutant: a small change of a modelled definition, of the kind
a bug would be, which makes TLC find that property violated under the same
configuration. The mutants stand in the modules next to what they change.

## 4. What is proved

Every safety and action property that a passing run checks is a theorem as well. The
proofs hold for every set of runs, workers, applications, messages, users' rows and so
on, every number of slots, every graph length and position of the gate, and every bound.
Assumed of the constants is what an `ASSUME` of the module that declares them says
(`RuntimeAssumption`, `ApplicationAssumption`, `AutopilotAssumption`, `LedgerAssumption`,
`ServicesAssumption`): numbers are numbers, a bound that counts versions, steps or guesses
is at least one, a marker for "nothing" is nothing else, there is something to tell
somebody and a channel to tell it on, listings of one posting are of one employer or at
one URL, what drafts create are entries, a page of a board has a row, a session may not stay idle for longer than it
lives (`config.py:44`: 12 hours against 14 days), a message names a model there is. TLC
evaluates them on the instances.
A theorem about a part of `Services` names the conjuncts it needs. Four hypotheses say
more, below: `Gated` (where the graph's gate stands), and `LeasesAreKept`, `NothingLost`
and `~Overlapping`, without which TLC finds counterexamples.

**The runtime**

- **`TypeCorrect`**. Types alone are not inductive: a refund subtracts an
  attempt, so `TInv` adds that a running task has used one (`ClaimsCounted`);
  checkpoints are indexed by steps, so tasks and jobs that change steps name one
  (`TasksNameNodes`), and a job inside a step is not past the last
  (`JobsPlaced`).
- **`ImplementsLifecycle`**. Every step maps to a declared move or to a stutter
  of `RunLifecycle`, from the types alone: neither leases nor fencing are needed,
  because `_set_run` checks the machine under the row's lock.
- **`DecisionsStand`** and **`EffectsApproved`** (for a gate that comes before the
  effect and may not be skipped). The invariant `Consent` says that whatever a
  checkpoint or a job holds as "yes" behind the gate, the approval row says
  `approved`; it rests on decisions being final. No assumption on leases, crashes
  or the number of jobs: consent survives two workers on one run.
- **`JobsExclude`** and **`LeasesStand`**, if no live worker misses its lease
  (`LeasesAreKept`). The invariant `Leases`: whoever has not ended its task owns
  it, is registered and therefore extends it (`HoldersOwn`); no two do for one
  run (`HoldersAlone`); ids grow (`JobsOlder`), so a job in the last-resort
  handler cannot be taken for the owner of a later task (`RescuedEnded`). That
  the assumption is needed is what the run `two_workers` shows.
- **`AttemptsLimited`**, under the same assumption. `Counted` adds to `Leases` that a
  queued task has an attempt left and that a job which holds its task knows the
  attempt it is at: whoever gives a task back hands back an attempt it has used.
- **`OnlyRerunReturns`**, under the same assumption. `Ahead`: a job inside a step is
  not behind the newest checkpoint, unless it reruns. A job that lost its lease would
  be, which is why the assumption is there.
- **`ExecutingIsShown`** and **`PendingIsQueued`**, if nothing is lost (`NothingLost`:
  no crash, shutdown, database error or late heartbeat; steps may still fail and users
  do what they like). `Fitting` follows a status through the transactions of a job: one
  inside the graph shows as moving, one that makes its run pending will give the task
  back, and only a run that is being cancelled loses the job of its task. Status and
  task are written in two transactions, so each of the four mishaps alone makes both
  properties false; TLC finds the traces when one of them is allowed.
- **`CallsExclude`**, **`RepeatsReported`**, **`EffectRemembered`** for the ledger.
  The invariant `Ledger` ties the row's identity to who is in the call: a caller
  wrote the present row (`CallerWroteRow`); a row from which a call may start, or
  that somebody read as such and is still there, has no caller and no unreported
  effect (`OpenRowIsQuiet`, `ReaderIsQuiet`).

**Applications and the autopilot**

- **`FormSentOnce`** and **`SentStaysRecorded`**, if no two runs of one application are at
  work together (`~Overlapping`; the run `overlap` shows that it is needed).
  `Delivery` relates three things that the code writes apart: the application's
  status, the run's step and the browser thread. A thread somebody waits for belongs to
  a run that is sending (`ThreadsAwaited`); one that may press the button yet is the
  only one of its application, has not pressed, and the application is recorded as being
  submitted or in doubt (`PressRecorded`); what was sent is recorded
  (`SentRecorded`); while a form is filled in nothing was sent and nobody will send
  (`FillingUnsent`). So a stray thread, whose run was cancelled or timed out, keeps the
  application in a status from which no browser run starts. What the user denied
  (`denied`) is the user's word and is left out.
- **`ApprovedIsSent`** needs no such assumption. `Shown` carries the form from the fill
  step to the request, the decision, the second filling and the button.
- The autopilot's proofs reuse both: its steps are those of `Applications` but for STOP,
  the standing approval and the start of a run, so **`AutopilotSendsOnce`** and
  **`AutopilotTypes`** follow from three more lemmas each.
- **`StopStands`**. `Held`: what the reconciler has read of an item is the item, and it is
  active. It rests on the lock of the item's row, and is why what is written at the end
  of a transaction never meets an item that has ended.
- **`StopReaches`**: a run that is told to end is not resumed, and STOP tells all of
  them. **`SkippedWasNotSent`** joins `Held` and `Delivery`; **`SubmittedWasRecorded`**
  adds `Dated`, that a date once recorded stays.

**The services.** Three are proved of their module and carried over: `ApplicationsPart`,
`ProvidersPart` and `AssistantPart` show that `Services` implements the specification
of the part. The others are proved of `Services` directly.

- **`ServicesTyped`**. The types of all ten. Few are inductive alone. A session's columns
  need that what a request is to write ends no later than its session (`LifetimesFit`);
  versions of a document, that a rendering is of a version there is and that only files
  which are listed are lost (`FilesFit`); an outbox row, what
  `OutboxFits` says of the message a worker carries; the catalogue, the listings that
  `CatalogueFits` has; deletions, the shape of what they picked. The other parts' types
  come from the modules above.

- **`KeysStay`**. `Keys` adds to the types that a row that is gone has no key, that an
  update under way was asked for the key its new address needs on the copy it read,
  and that a creation is alone with its row. With these, only a commit on an outdated
  copy can part a key from its server.
- **`ConsentComesFirst`**. `Word` follows the user's word through the nodes: a run that
  may talk has it, or something moved; nothing has gone out before.
- **`GuessesLimited`**. `Limited` bounds what was tried and what is being tried
  together, by counting the sign-ins under way.
- **`SignedOutStands`**. `SessionsTyped` types the rows and the copies requests hold. A
  session that had run out idle is valid again only by the commit of a request that has
  an older copy of it (`Reopened`).
- **`DuplicatesHaveCause`**. `OutboxFits` speaks of deliveries to which nothing happened
  (`Clean`): claimed by one worker, sent at most once, pending only when it did not
  arrive; who carries it has claimed it and knows whether it arrived.
- **`UsedButtonHasDecided`**. `ButtonsFit`: buttons are made for approvals, who decides by
  one is the owner, and a used one has decided, is at it, or was cut off.
- **`PostingsMerged`**, **`ReadIsMatched`**, **`StatusKept`**. `CatalogueFits` says what a
  sync knows at its place: the pages before the checkpoint are matched, of the page at
  hand what is not left (`ReadFits`); who looked a listing up holds its employer's and its
  URL's lock, and what it found still holds when it writes (`LockFits`).
- **`AgreedIsShared`**, **`DraftSavedOnce`**. `Drafting`: once a run is past its consent,
  the model is the one that was asked about, unless it was changed since, and what it has
  gathered is what its request lists, unless the request was there before a rerun; what it
  knows are skill entries, and only when it looks for skills. `SavedOnce` relates the row
  to the run: one that was saved is there to be found until the run is past its save, or
  the user deleted it before.
- **`ReviewsStand`**, **`BytesStay`**. `ProfileFits`: what a request picked was pending
  when it did; a file that is to go is not one of the documents that were counted.
- **`OffStands`**. `SourcesFit` says what the user's last word leaves of a source's row,
  and that what is being added was asked for or overtaken.

- **`ReadingReachesTheEnd`**. `ReadingFits` says where a reading is: what it has is no
  more than its pages hold and counts (`PagesCounted`), and every posting that was there
  all the time and is sought is in what was read, or lies beyond the offset
  (`NothingPassed`), however many postings appeared before it. For each way of turning
  pages it then has to be shown that the rule by which it stops leaves nothing beyond.

What a reading keeps is filtered from sequences, so this proof needs induction. The
library's induction theorems take an operator and cannot be instantiated here;
`PartsProofs` goes round that with sets: a set of numbers has a least one (`Least`,
from `WFMin`), so a set that has 0 and with a number the next has all (`Counting`). The
filter is therefore a recursive function (`Only` in `Boards`) instead of `SelectSeq`, and
`Counting`, applied to the set of numbers at which a statement is true, gives that the
function exists and what it returns (`SelectionExists`, `OnlySelects`).

Two proofs corrected the model. The extension of a session while it is used (`Resolve`)
did not read the end of the session's row (`SignedOutStands`), in a case that the bounds
of the run never reached; and in `RequestEnds` two arms of a CASE were open at once for a
row that is gone, of which TLC takes the first and the logic either (`ServicesTyped`).

Only model-checked:

- `ActiveComesToRest` and `TasksEnd`: liveness, as fairness and ENABLED are out of reach.
- That the mishaps and overlaps a theorem excludes are needed: counterexamples are TLC's.

## 5. Not modelled, and why

- What postings, documents, forms and answers say: parsing, matching, scoring,
  cleaning and wording are values here. They are pure, with weights and texts that
  unit tests and recorded fixtures reach directly.
- Row-level security, hashing and encryption: enforced by the database and libraries.
- Contacts, referrals, answers, mind map, dashboard, research pages: single edits or
  views of one user's rows.
- The command line, desktop shell and web client, and updates: start-up, packaging
  and presentation. The desktop's hazards (two installs on one stack, a stop during a
  start) are between Docker and the operating system.
- Live events: append-only rows in the transaction that writes what they tell.
- Housekeeping of the worker (purging threads of deleted runs, trimming events).
- The limit of tasks per user, priorities, quiet hours, budgets of tokens: when
  something happens, not whether it may.
- The order of row locks: a transaction is one action here, so the deadlock that
  `decide` (approval, then run) and `cancel` (run, then approvals) can meet, and
  that Postgres resolves by rolling one back, has no counterpart.
- Several services at once (see `Services`), and `RunRuntime` under the browser runs:
  `Applications` takes what the runtime may do to a step instead.

## 6. Plan

Done: the runtime with its ledger, applications and the autopilot, the ten services,
and the proofs of what the runs check of their safety, types included. Next, in this
order:

1. `Applications` on `RunRuntime`: its step actions as a refinement of the job's.
2. The limit per user as a second run in `RunRuntime`.
3. The deadlock of `decide` and `cancel`, with row locks as state.
