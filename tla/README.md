# nexus-gtm: a verification project

TLA+ models of the program in `src/`, the TLC configurations that check them on
small instances, and theorems about them that TLAPS checks for every instance.
Paths below are relative to `src/`.

## 1. The system

nexus-gtm is a multi-tenant service for outbound sales work: it watches accounts
and signals, drafts messages with language-model agents, and sends them under
human review.  The back end is `nexus/` (FastAPI, SQLAlchemy on PostgreSQL or
SQLite, an optional Redis), the client is `frontend/`.

Three facts shape every component:

- **One request or job is one transaction.** `get_tenant_session`
  (`nexus/api/deps.py`) and `tenant_session` (`nexus/workers/tasks.py`) open a
  session, run the handler, commit when it returns and roll back when it raises.
  Services only flush. Rows are read without locks at READ COMMITTED; the session
  keeps its copy of a row; a flush writes the columns that changed and takes the
  row's lock until the end of the transaction. `FOR UPDATE` is used in a few
  places only (the cadence tick, the refresh and discovery claims).
- **Effects outside are not transactional.** A push to the engagement platform,
  an SMTP delivery, a call of a provider or a model survives a rollback.
- **Anything may be concurrent.** Several API processes and workers serve one
  tenant; users double-click; the scheduler ticks while humans act.

### Inventory

| Component | State | Operations | Interacts with | What is hard | What makes it correct |
|---|---|---|---|---|---|
| orchestration engine (`orchestration/engine.py`, `tools.py`) | run, steps, approvals, blackboard | create, execute, decide, redraft, cancel | router, worker, chat, cadences, campaigns | overlapping decisions, a death between a send and its commit, retries | nothing goes out that a human did not ask for; a run always rests where it can be moved on |
| run event log and stream (`engine._emit`, `api/routers/orchestration.py`, the client) | events numbered per run, cursors | emit, poll, reconnect | engine, client | numbers chosen without a lock, reads in two queries, lost connections | no gaps, no duplicates, nothing lost |
| planner (`orchestration/planner.py`) | none | plan, validate | engine | what a model proposes | a plan is a DAG in topological order, sends are gated |
| intake and chat (`orchestration/intake.py`, `chat_service.py`) | sessions, messages, the profile | create, continue, post a message, save the profile | engine | messages that overlap while the model is awaited, answers to a question that has changed | the transcript is whole, the profile is what was said |
| cadences (`cadences/service.py`) | enrollments, one touch per step | tick, pause, resume, stop, approve, reject | campaigns, engine, calling, outcomes | the tick racing humans, a touch under review, stop against send | a touch at most once, in order, none after a reply or an end |
| campaigns (`campaigns/service.py`, `sourcing.py`) | campaign, its targets | create, draft, approve and send, cancel | engine, cadences, worker | a second approval, a late job, a cancel while sending | one send per target, the report is true |
| workers (`workers/`) | queue, leader lock, stamps | enqueue, dequeue, tick, drivers | every service | at-most-once queue, jobs enqueued every tick | a driver run twice does no harm, work that is due is done |
| idempotency (`core/idempotency.py`, `middleware.py`) | claims and responses with a time to live | claim, complete, release | every POST | a claim whose owner died, expiry | one result per key |
| data sources and discovery (`integrations/`, `discovery/`) | budgets, breakers, cache, key index, tracked companies | search, discover | providers, worker | checked before an await and updated after it, shared by all requests of a process | an open breaker stays open, a query goes out once, discovery goes on finding |
| account pipeline (`pipeline.py`, `ingestion/`, `inbox/`, `plays/`, `alerts/`, `calling/`) | signals, inbox tasks, calls, play records | refresh, ingest, complete, reopen, enqueue a call | worker, CRM, users | check-then-insert, a source that repeats itself, a transaction that fails after a push | one open task, nothing raised twice or never |
| CRM sync (`ingestion/crm.py`, `crm_sync.py`) | three stamps of an account | sweep, fast path, push, activities | worker, CRM | a time taken before a load and awaits after it | what says it is synced is |
| e-mail addresses (`enrichment/`, `verification/`) | address, confidence, verdict; cache and circuit | enrich, compose, send, re-verify | providers, campaigns, engine | jobs that overlap on one contact, verifiers that do not answer | the verdict is on the address that is written to |
| registration and reset (`auth/`) | one row per address with the code mailed last | start, resend, verify, forgot, reset | mail | overlapping requests, wrong codes, expiry | the newest code is the one that works |
| members (`api/routers/workspace.py`, `auth.py`) | memberships, roles in tokens | invite, change, remove, sign in | | roles in older tokens, counted before written | an owner stays |
| mailboxes (`api/routers/workspace.py`, `integrations/email_sender.py`) | one JSON column | add, change, delete, prefer, test | SMTP | read, awaited over, written whole | one default, verified means tested |
| network (`network/`) | connections, tokens, cursors, edges, persons | connect, pool, import, sync | worker, providers | a token rotated in a transaction that may roll back | the token is kept, nobody is missed |
| account book (`models/account.py`, `api/routers/accounts.py`, `enrichment/account.py`, `custom_fields/`, `campaigns/sourcing.py`) | one row per spelling of a domain, archived in two columns, a JSON column; its people | create, archive, import, upsert, enrich, re-screen, add a look-alike, search for people | CRM, discovery, campaigns, chat | rows loaded before an await and written back, look-ups before inserts | what reps chose and entered stays, both columns agree, nobody is found twice |
| daily digest (`workers/tasks.py`) | the digests sent | look, count, send | worker | jobs with every tick, a clock read before | one per interval, nothing counted twice |
| research, relevance, analytics, agents | rows of one transaction, or none | | | | |

`PROJECT.json` lists every component with its status, and the hazards line by line.

## 2. The plan

In order of importance to the program's promise that nothing is sent unreviewed,
then of what is hard to test. Every item is done.

1. `OrchestrationEngine` with its abstract specification `OutboundGate`.
2. `EventLog`.
3. `CadenceEnrollment`, then `CampaignSend`: the two services that send on their
   own. Under per-touch review a cadence implements the same `OutboundGate`.
4. `Idempotency`: the store and the middleware.
5. `Workers`: queue, scheduler, drivers.
6. `AccountPipeline` and `CRMSync`: what the workers' jobs do to an account.
7. `DataSources` and `ContactEmail`: what goes through the integration registry.
8. `ChatIntake`: the conversation in front of the engine.
9. `Registration`, `Members`, `Mailboxes`, `NetworkSync`: the records of a tenant and its users.
10. `AccountBook` and `Digest`: what everybody writes to an account, and what a tenant is told.

## 3. The modules

Every service module has the same frame, which is the code's transaction
discipline. A session is a request or a job in its transaction. `Submit...` reads
the rows without a lock into the session's copy and checks what the handler
checks; the first write takes the row's lock (a step that waits while another
session holds it); what was written is merged into the committed rows by `Commit`,
column by column, so that a column another session wrote is kept; an exception, a
death or the database's refusal is `Abort`, which drops the copy and the locks and
leaves what was pushed outside. `MC<Module>` instantiates a module for TLC. Where one
run, or one module of proofs, is about several components, it names their variables apart
(`Crm == INSTANCE CRMSync WITH pc <- at, ...`) and states their assumptions and properties
under the component's names.

### OrchestrationEngine and OutboundGate

One run, any number of sessions. The variables are the committed rows `db`, the
row locks `lock`, the outside world (`pushed`, `content`), what humans asked for
(`granted`) and, per session, its place in the handler and its copy of the rows.

| Code | Model |
|---|---|
| the handler's first read | `Submit...`: snapshot of `db` into `mem` |
| rows read by a second query | `ReadRest` |
| first flush (an `_emit` always comes with it) | `Apply...`: takes `lock` |
| `_drive`, `_next_runnable`, `_park` | `DriveNothingLeft`, `DrivePark`, `DriveStart` |
| `_run_step`, one attempt | `AttemptSucceeds`, `AttemptRetries`, `AttemptFails` |
| `_finalize` | `Finalize` |
| commit on success | `Commit`: the dirty columns are merged into `db` |
| an exception, a dead process, a refused transaction | `Abort`: `pushed` stays |

Why one lock is enough: every operation of the engine emits an event before it has
any effect outside, and the unique constraint on (run, seq) makes an insert wait
for the transaction that holds the same number (`EventLog` shows that all
inserting transactions want the same one). So from its first flush on, a session
excludes the others' flushes; reads go on.

Abstractions: a draft is a version number; a refusal (ungrounded, undeliverable,
no draft) and a failure of an agent are the outcome "error"; the runaway backstop
of `_drive` has no action, since each turn of its loop moves one step on
(`RequestsEnd` would show a loop that does not); an unknown tool is refused by the
planner, so `_run_step`'s branch for it has none either; a plan's steps have at
most one approval each, so an approval is filed under its step.

`OutboundGate` is the abstract specification: a human asks for a step, and only
then may messages of that step leave, any number of them.

### EventLog

Transactions that emit into one run's log and clients that follow it. `ReadMax`
and `Insert` are the two halves of `_emit`; `InsertFails` is `uq_event_run_seq`;
`ReadStatus` and `ReadEvents` are the two queries of a poll, in their order.
A client reconnects only when its user acts, so `Connect` has no fairness.
The ceiling of 600 polls is the action `Drop`.

### CadenceEnrollment

One enrollment: its row `enr`, one row per step in `touch`, and the days that pass.

| Code | Model |
|---|---|
| `advance_due`: `FOR UPDATE SKIP LOCKED` | `TickClaim`, which never waits |
| `_run_touch`: stopping conditions, review, call or message, the push | `Check...`, `Compose...`, `Send...` |
| what becomes of the touch and of the enrollment | `Decide`, then `Mark` (flush of the touch) and `MoveOn` (flush of the enrollment) |
| `approve_touch`, `reject_touch`, `pause`, `resume`, `stop` | `Submit...`, `ReadRest`, and the same `Mark`/`MoveOn`/`Control` |
| two transactions that wait for each other's rows | `DeadlockVictim` |
| the clock, the prospect | `DayPasses`, `Reply` |

The two kinds of rows are locked one after the other (the touch first by an
approval, the enrollment first by the tick), so a deadlock can happen; the
database aborts one of the two. A control that finds nothing to do writes nothing
and has no action. What a draft says is not modelled. A transaction takes less
than a day: days pass when every session is idle. A reply that comes while a
message is being composed is not looked for again, so one message may leave after
it: `late` counts it, and without review `ReplyStops` allows no second one (an approval
does not look for a reply).

Of two decisions that read one awaiting touch the second is not refused: when it
commits it writes the step after that touch, wherever the enrollment has got to since,
and so may take it back. `ForwardOnly` names the cadences where that cannot happen:
without review, with two steps at most, or with a delay before each step and no resume;
`TouchesInOrder` and `AwaitingIsCurrent` are about those.

### CampaignSend

A campaign from the moment others can see it (creation and draft are one
transaction of the API, hence `Init`) to its report. `Submit...` checks the status;
`TakeRow` is the flush of the new status, which waits for the campaign's row, and
the read of the targets that follows it, so the targets are read under that lock;
`SendPushes`, `SendDone` and their siblings are `_send_one` on the session's copy
`view`; `Enroll...` is the variant with a cadence; `Commit` writes statuses and
report. `Touch(t)` is the cadence's tick for an enrolled target, external to this
module (`CadenceEnrollment` is its detail). The send policy (`_classify`,
grounded, verdict, sourced, confidence) is a predicate on a draft's few attributes.
A "draft" job may be delivered again for a campaign that was drafted already and
takes a campaign back to the gate.

### Idempotency

The requests that carry one key. `entry` is what the store holds, with the time it
has left; each await on the store is a step (`Claim`, `Lookup`, `Complete`, and
`Release`, which in Redis is `ReleaseLooks` and then `ReleaseDeletes`). `Die` is a
worker that dies, a request that is cancelled (`except Exception` does not see it)
or a failed call of Redis: the handler's transaction may be committed by then, and
the claim stays until its time is over. `Restart` loses the in-process store.
`forgotten` records that an entry was lost, after which a key is a new key.

### Workers

One process is a scheduler and a loop. `SchedulerWakes` tries the advisory lock,
which is held for the burst only (`SchedulerEnqueues`), so N processes whose beats
come one after the other each enqueue every driver: the drivers must bear it.
`Dequeue` is BLPOP: from then on the job exists in `job[w]` alone, and `Drop` (a
death, or an exception that `dispatch` swallows) loses it. `RefreshScan`,
`RefreshStamp`, `RefreshCommit` are `handle_refresh_due_accounts`: the row locks of
the scan end with its session, the jobs are enqueued before the stamps commit.
`DiscoverClaim` waits for the tenant's row (`FOR UPDATE`); the slot is taken at the
end (`DiscoverRan`), so that a search which fails leaves it free. Times are ages in
ticks; those past `Oldest` are kept in order and not told apart otherwise.

### CRMSync

One account against a CRM. `Sweep` and its siblings load the account and take the
time; the steps after it are the awaited calls: find the company, write it, list the
signals, push each. `Commit` stores the time that was taken at the start. A stamp is
modelled by what it is compared with: `due` (updated after it), `fresh` (signals
after it), `later[w]` (after the time that w took). The play's push is the same
without its stamp and without storing the id. `Upsert` takes any id that is free.

A search that the CRM refuses finds no company (`SearchRefused`): the code takes every
answer but 200 for "not there" and goes on to create one. `blind` records the companies
that were created after such an answer; a search that fails altogether raises and ends
the job (`PushFails`).

### AccountPipeline

`process_account` as one transaction: `Fetch` (what the sources report and the account
has not stored yet), the insert with its unique key, which is the tenant's while the
look-up before it is the account's (`elsewhere`: the signals that another account of the
tenant has stored; the clash rolls the whole job back), screening and scoring, `Decide` and the
write of the inbox task, plays with their pushes and alerts, the commit. A request
ingests signals alone (`POST /ingest`), completes, reopens or dismisses a task, or
enqueues a call. Nothing is locked: `overlapped` records that two transactions held
the answers of one look-up.

### AccountBook and Digest

`AccountBook` is the accounts of one company under each spelling of its domain, and
their people. A session loads the row (`Submit`), waits for the web (`Fetch`) or for
people (`LookUpPeople`, `SearchPeople`), flushes (`Flush`: the row's lock, or that of
the unique key) and commits the columns it has changed; `custom_fields` is one column.

| Code | Model |
|---|---|
| `set_archived` | `Archived`, `Unarchived`: column and legacy flag |
| `create_account`, `add_from_lookalike`, `import_csv`, `sync_accounts` | `Create`, `AddLookalike`, `Import`, `CrmAccounts` |
| the enricher, on request, in the sweep, in a rep's run of the pipeline | `StartWeb`, `Fetch`, `Apply` |
| `rescreen_discovered_account` | `OutOfBand`, `Screen` |
| a campaign's contact, a chat's, a rep's | `EnsureContact`, `DiscoverContacts`, `SourceContacts` |

`Person` are names, `Persona` the titles that the stub provider gives for people. A
size is unknown, in the band or out of it. `overtaken` records accounts where one
transaction wrote, screened or searched on what another had changed since it looked.

`Digest` is `handle_send_daily_digests` for one tenant: `Begin` reads the clock, `Gate`
looks for the last digest, `Count` counts the window, `Add` commits the alert. That
tasks are open is a choice, since it decides only whether a quiet workspace is told.

`MCPipeline` composes `AccountPipeline` with these two: they share no row, a behaviour
is one of one of them (`part`), and the run explores the union of their states.

### DataSources

The registry of a process: everything between two awaits is one step, so `Call`
checks breaker and budget, and `Answer` charges them after the answer. The engine's
search is spelled out with its pool of keys (`Send`, `RateLimited`, `Retry`,
`Rotated`), its pauses and its giving up. `Hits` cuts its ranking to what was asked for
and only then drops the hits that are no company (`Junk`). Interactive discovery
(`Discover`) uses the shared registry and shows what it finds beside the tracked
companies that pass its filter (`Survivors`); the daily run (`AutoStart`), one at a time
under the tenant's row lock, uses a fresh one and excludes tracked companies up to a cap
(`Excluded`) from what it asks for. A request inserts all that is new (`Gather`), the
daily run what passes the size band and the fit (`Screen`): companies in `Unfit` may be
rejected there, each time anew, since a rejection is recorded nowhere and depends on
whether the crawl before it found a headcount.
`cache[q]` is the set of the lists found for a query: none, or one, which may be empty.

### ChatIntake

A turn is `Number` (reads the last seq), `Insert` (waits at the unique index),
`Think` (the model is awaited), `Commit`. `ExtractSlots`, `MergeIcp`, `Advance` and
`MissingRequired` are the controller: a text is what the extraction finds in it, an
answer is read as an answer to the question the session holds. `stale` records
sessions in which a turn went on from a row that another turn had replaced.

### Registration, Members, Mailboxes, NetworkSync, ContactEmail

Five components that share no row. `MCTenant` composes them for TLC: a behaviour is
one of one of them (`part`), the others stand still, and the run explores the union
of their states. Each can be read alone.

- `Registration`: a request that issues a code reads the row, flushes its
  replacement (which locks it), mails the code, commits. `ReplaceConflict`,
  `Vanished` and `Rollback` are how that fails; `orphaned` records that a code was
  mailed and its row rolled back.
- `Members`: `Load`, `Check` (counts the owners), `Write`; a request is authorised by
  roles in tokens, which age.
- `Mailboxes`: a request holds the whole column (`held`), perhaps over a test message,
  and writes it as a whole. `LoadAccounts` shows the older single mailbox as a list of
  one; `SaveAccounts` keeps one default.
- `NetworkSync`: a member has one account of a provider that is synced (`Connect` finds
  the one there is) and any number of one that is only imported into (`Create`). `Start`,
  `Refresh` (the provider may rotate the token: the old one is void from then on),
  `Fetch`, `Resolve` (which persons and edges exist), `Commit`; an `Import` enters at
  `Resolve`, with any contacts and with the cursor that the client sends. Accounts of one
  member and provider share their edges (`Sharing`): the row is unique in member, person
  and provider, whichever account was stored last sets its pooling, and `SetPooling`
  reaches those that the account has made.
- `ContactEmail`: jobs on one contact. The verifier goes through the registry's cache,
  budget and circuit (`Cached`, `Refused`, `Ask`, `Answer`, `Miss`); the finder walks
  the candidate addresses (`Find`), results are merged by confidence (`Ranked`), and
  the columns that changed are saved.

## 4. The runs

| Run | Bounds | Shows |
|---|---|---|
| `engine` | 2 sessions, 5 steps (a branch beside the chain, a step after the send), 2 attempts, 1 abort; 4 requests that race, or 6 that come one at a time (`serial`) | the refinement of `OutboundGate`, resting places (`RunCanGoOn`, `RestsBetweenSteps`), requests end; serially, also finality and that exactly what is downstream is skipped |
| `eventlog` | 2 writers, 1 reader, 4 events, 2 drops | no gaps, the stream is the log, an open stream delivers |
| `cadence_auto` | 2 sessions, 3 steps (one a call), ticks, 3 controls, 1 abort | the claim, each step once and in order, a reply stops, an enrollment ends, for good |
| `cadence_review` | 2 sessions, 2 steps, 3 decisions or controls | the refinement of `OutboundGate`, the touch under review, transactions end although they deadlock |
| `campaign_send` | 2 sessions, 2 targets with every kind of draft, 3 requests or jobs, 1 abort, with and without a cadence | sent and enrolled once, the report, requests end |
| `idempotency` | 3 requests, 2 stores, 2 ticks to live, 2 deaths | one result per key, the key comes free |
| `workers` | 2 processes, 2 accounts in batches of 1, an interval of 2 ticks, 1 loss | a stamp has its job, one search at a time, the schedule goes on |
| `crm_sync` | 2 jobs, 1 signal, 3 possible companies, 1 failure or refused search | synced is true, one company, a due account is synced |
| `pipeline` | 2 transactions, 2 signals, one of which another account may store, 2 tasks, 1 failure; 2 sessions, 2 spellings, 2 names, 3 requests; 2 digest jobs, an interval of 2 in 4 instants | one unit of work, raised once and not never; the book of accounts holds together; no digest repeats another |
| `sources` | 2 sessions, 2 sources, 2 keys, 4 hits (one junk, one that may be rejected), 3 asked for, 1 excluded, 4 failures | asked as needed, breakers hold, discovery reaches all |
| `chat_intake` | 2 sessions (one continued from the other), 2 requests, 3 messages, 1 error | the transcript, the profile |
| `tenant` | per part: 2 requests each; see `tenant.cfg` | the newest code, the owner, the mailboxes, the graph, the token, the address |

A property of a run is often the conjunction of a few that are defined, and
commented, just before it in the component's module.

Why the bounds are enough. Two sessions are all that the row locks distinguish: a
third is another waiter at the same lock. Four requests of the engine are a create
and three that overlap two by two: an approval, a second decision or a redraft or a
cancellation, and one more after them; six in a row reach the sequences create,
redraft, approve, crash, approve again, cancel or execute. Three steps of a cadence
are a first, one in the middle and a last, with delays of 0, 2 and 1 days; two
suffice where the question is about the touch under review and the one after it.
Two targets show that one does not disturb the other. Three requests with a key are
an owner, one that waits and one that comes after the release. Two accounts with a
batch of one make the drivers leave somebody out, which is where an unfair scan
starves. Four hits, one of them junk and one that the gates may reject, with three asked
for and one that may be excluded, are the smallest world in which both kinds of hits take
up room, discovery could dry up and must not: `Room` holds with nothing to spare. Two keys distinguish
"another search rotated" from "all keys tried". Three messages in two sessions are a
question, its answer and one that overlaps. Two passwords and two mailboxes
distinguish "tested" from "tested with this password" and "this mailbox". In
`ContactEmail` two candidates and a third address are a best one, one below it and one
from elsewhere; a budget of 2 calls runs out in the second job. The run starts from
worlds in which the address from elsewhere is valid or invalid, as only candidates are
ranked with their verdicts; the proof takes every world. For the relationship
graph the run looks at an account whose provider rotates tokens, at one whose provider
does not, and at two that share their edges, one after the other (`Focused`): steps of a
synced account that interleave with those of shared ones are in the proof alone.
`CHECK_DEADLOCK FALSE`: the requests of a behaviour are bounded, so it ends.

Symmetry (`chat_intake`, `tenant`) permutes the requests at work, which nothing
tells apart; both runs check invariants only.

Fairness. A request that has started is carried on by its event loop: `Proceed(s)`
is weakly fair in the engine, where whoever waits for the lock can always be served
once the holder ends, and strongly fair in `CadenceEnrollment` and `CampaignSend`,
where several may take the row one after the other: the database queues the
waiters of a row. The scheduler enqueues ticks again and again (`TickClaim`,
`AutoStart`, `Sweep`), time passes (`DayPasses`, `Tick`), loops pop jobs, an open
stream is polled and the wire delivers (`Poll`, `Receive`), a source goes on reporting
a signal until it is stored. Nothing obliges a human to act, a prospect to reply or a
process to die: none of these is fair.

Where a property has a condition, the condition names what the code does not
promise (section 5):

- no abort (`SentAsGranted`, `RejectedNeverSent`, `OncePerStep`, `LeavesOnce`): a
  message leaves before its row is committed, so a death between the two forgets it,
  and the next tick or approval sends it again.
- "once all transactions are over" (`RestsForGood` of cadences and campaigns): a
  status is read without a lock, so a request that read it before the end may still
  overwrite it.
- no "resume" (`OncePerStep`): a pause that overlaps a stopping tick is written
  last, and a resume then sends the step again.
- `serial` (`Serially`): requests that overlap act on what they read.
- `RunCanGoOn` is about plans with at most one gate, which every later step waits for
  (`OneGate` in `OrchestrationEngine_proofs`): all recipes of `planner.py` are such. With
  a second gate a late approval of the first may fail after another one has parked the
  run at the second, and leaves a draft that the second does not show; with a step
  beside the gate a branching run that failed may keep a pending gate.
- `ForwardOnly` (`TouchesInOrder`, `AwaitingIsCurrent`): see section 3.
- `~forgotten` (`OneResult`): the store's promise ends with the entry.
- `Room` (`DiscoveryReachesAll`): the hits that come back on every run and cannot be
  added are fewer than what a run asks for.
- `overrun`, `excused`, `raced`, `blind` (`CRMSync`), `elsewhere` (`AccountPipeline`), `overlapped` (`AccountPipeline`,
  `DataSources`, `ContactEmail`, `Digest`), `overtaken` (`AccountBook`), `rotated` (`DataSources`), `missed` (`ContactEmail`),
  `stale` (`ChatIntake`), `crossed` (`Members`), `single` (`Mailboxes`), `switched`,
  `doubled`, `lost`, `given` (`NetworkSync`), `orphaned` (`Registration`): each is set by
  the one overlap or failure named at its declaration, and by nothing else. Most name an
  overlap that the code does not prevent: the hazard itself is then in section 5 and has
  a note in `PROJECT.json`, and the property says that nothing but this overlap does harm.

## 5. Where the code disagrees

Seen while modelling, at the lines the hazards in `PROJECT.json` name. The models do
what the code does; the properties are stated so that these cases are excluded and
everything else is not. Most come from a row that is checked when it is read and
acted on later.

Engine:

- Two approvals that overlap both send the parked step, and the second overwrites the
  first; likewise a redraft and an approval (`SentOnce` in the module does not hold).
- Two submissions with one idempotency key both find no run; the second fails on the
  unique constraint instead of returning the first's run (`DuplicateSubmitReturns`).
- In a recipe with a branch beside the gate, an execute request that overlaps a redraft
  may write the blackboard it read, and the reviewer is shown a draft that is not the
  one that would be sent. No recipe of today has such a branch.
- A death between a push and its commit sends again, here and in cadences and campaigns.

Cadences and campaigns:

- Two decisions that read one touch both go through, and the second may take an
  enrollment of three steps back to a step that is behind it (`ForwardOnly`).
- Deciding a touch after a stop makes the enrollment active again
  (`TerminalIsFinal` of `CadenceEnrollment`).
- Cancelling a campaign leaves the enrollments it made active (`NothingAfterCancel`).
- An SMTP refusal after a push to the platform succeeded is recorded as "skipped"; a
  draft job that comes late takes a campaign in "sending" back to the gate;
  `run_campaign`'s "send" job is never enqueued.

Workers:

- The scheduler's lock is held for a burst, not for the interval: with N workers each
  driver is enqueued up to N times per tick.
- The daily digest is checked and then inserted, without a lock: two jobs that overlap send two.
- Account jobs are enqueued before the stamps that claim them commit; a rollback
  enqueues them again.

CRM sync:

- An edit during a push is never pushed: the push commits its stamp together with an
  `updated_at` of the same value, over the edit's (`overrun`); a contact that changes
  does not touch its account.
- Signals not committed when a sync lists them are older than its stamp and are never pushed.
- The outcomes of pushed activities are ignored; a play's push stores no company id;
  two overlapping first syncs may create two companies.
- "Outbound is idempotent on natural keys so re-syncs never duplicate" (`ingestion/crm.py:190`)
  is so as long as the search answers 200: any other answer counts as "not found", and a second company is created
  (`NeverDuplicates`).

Account pipeline:

- `POST /ingest` stores signals that never reach the inbox or a play.
- Reopening a task looks for no other open one; touching a task that was completed
  meanwhile hides the signal in a completed task.
- The screen archives an account at its discovery only: its next refresh gives the rep a
  task (`ScreenedGetsNoTask`).
- One clash on a signal's key rolls the whole job back; it is tried again on the next
  refresh. Known signals are looked up per account and the key is unique per tenant: of two
  accounts of one company the second fails on the first one's news with every refresh, and
  what else its sources report does not get in (`OthersGetIn`).

Accounts and digest:

- Transactions that overlap on one account write back the `custom_fields` they loaded: the
  legacy flag may then contradict `archived_at`, and an import or an enrichment is lost
  (`overtaken`).
- A rep who takes a screened account back from the archive sees it archived again by its next
  refresh, as long as it has no contact (`RestoredStays`).
- The unique key is on the domain as it is spelt: `create_account` and the daily discovery do
  not find the same company under another spelling, `add_from_lookalike` does.
- A digest counts one interval back from its own clock: what happened before that and after
  the last digest, when a digest is late, is in none (`NothingMissed`).

Sources, discovery, addresses:

- A failed look-up is cached as an empty one for the life of the process, and budgets are
  never reset; two overlapping look-ups of a query both go to the network.
- Two searches that are rate-limited at once both move the shared key, possibly back.
- With more tracked companies than the exclusion cap, a daily run may find only known
  ones; the agent's discovery excludes none.
- The exclusion is there so that the daily discovery does not dry up (`discovery/auto.py:150`),
  but what the gates reject is neither tracked nor excluded, and junk is dropped after the
  cut: enough of these fill what every run asks for, below the cap too (`NeverDriesUp`).
- An answer that comes after the verifier's circuit opened does not close it; a confidence
  of 0 becomes 0.4; a cached "unknown" overwrites a fresher verdict; re-verification and
  enrichment that overlap pair a verdict with another address.

Chat:

- A turn that overlaps another writes the profile it loaded; "go" while the industries
  are asked for becomes an industry; saving a profile and seeding a session from it
  are not inverse to each other.

Tenant:

- Two requests may each remove the other owner (`crossed`).
- `PUT /workspace/email` drops the list of mailboxes and keeps "verified" when the
  password changes; two requests on the list lose one's change.
- A wrong guess that overlaps a resend writes the older row's attempts; a start that is
  overlapped by a verification leaves a pending row.
- A rotated token is lost when the sync rolls back; pooling switched during a sync leaves
  edges with the old setting; two syncs add one person twice; Google's connector never
  asks for the token that would make its sync incremental.
- An edge that two accounts of a provider share has the pooling of the one stored last;
  switching pooling off for it again reaches only the account that made the edge, so that a
  contact may stay pooled though no account is (`PooledByAnAccount`). An import stores
  whatever cursor the client sends, past contacts that are in nobody's graph.

## 6. The proofs

Each theorem holds for every value of the constants under the assumptions named in
the component's module (finite or infinite sets of sessions, every valid plan,
every cadence, every bound). What a run checks as one property is proved under the same
name. The argument is the same throughout: a property of the committed rows says
nothing of what the open transactions are about to commit, so the inductive invariant
adds what each session at each label knows of the rows it holds in its copy, and until
when; each invariant was checked by TLC on the instance of the run before it was proved.

`OrchestrationEngine_proofs`

- `TypeCorrect`.
- `GateSafe`: `Spec => []GateNeverBypassed`. The property is not inductive: that
  nothing was pushed says nothing of a session about to push. `GateInv` adds that a
  pending approval exists only for a gated step, in the database and in every
  copy, and that a session at the attempt of a gated step is one whose human asked.
- `EngineImplementsGate`: `Spec => ImplementsGate`, every step maps to `Ask`, to
  `Push` or to a stutter, from the same invariant.
- `RestsSafe`: `Spec => []RestsBetweenSteps`. The strengthening follows the
  "running" step of a session's copy: there is none but the current step of a
  session at "run", so none when it commits.
- `RunCanGoOnSafe`: `OneGate` implies `Spec => []RunCanGoOn`, however many requests race.
  A commit merges what one session changed into rows that others changed since it
  read them, so no statement about a session's copy alone is enough. `Settled` says
  which rows may rest in the database (the gate is open, with its draft shown and
  everything pending behind it; or it is decided, or was never reached, and the run is
  over), and `RunInv` that the database is settled and that what each session at
  "commit" would make of it (`Outcome`) is. Before, a session is in the run's first
  transaction (`Creating`), finds nothing to do (`Passing`) or drives behind the gate
  (`Deciding`); one that has only read holds a `Snapshot` whose pending steps may since
  have been done, and no step goes back to pending (`Later`). `DraftsInv`, that every
  draft number in use was given out, makes a redraft a change of both columns it writes.
  That an empty list of runnable steps leaves nothing pending needs the least pending
  step: `LeastStep`, the least-number principle on the steps of a plan, from the
  well-foundedness of the subsets of a finite set.
- `SeriallySafe`: `OneGate` implies `MCSpec => Serially`. `OneAtWork` says that of requests
  that come one at a time the one at work commits just what it has in hand, which
  none does of requests that race (`FlushFaithful`: a flush keeps this so). `SkipInv` follows
  that copy through the handler: it skips what is downstream of a failure and nothing else,
  and has looked only at steps that had all they depend on (`CascadeExact`, `StepExact`).
  `GrantInv` follows the draft: what is about to be sent was granted, at a gate that is
  approved in the copy of whoever sends it. Finality is `RunInv`'s: a commit
  finds a run that is open, and in such a run nothing is decided yet (`Undecided`).
- Assumed besides: `PlanAssumption` (the planner's validation), that the composer
  is not a gated step, and, for the last, that the one session is a session.

`CadenceEnrollment_proofs`

- `TypeCorrect`.
- `ClaimSafe`: `Spec => []ClaimHolds`, that the committed enrollment is the one a
  working tick claimed. `ClaimInv` adds that a tick holds the enrollment's row
  until it commits and that a dirty column implies the row's lock, so that nobody
  else's commit can change it.
- `ReviewSafe` and `ReviewImplementsGate`: nothing leaves that no human approved.
  `ReviewInv` says that under review a session that sends, or that is about to after
  it has read the touch, works for a human who approved that touch.
- `InStepUnlessTakenBack`: until a commit takes the enrollment back to an earlier step,
  its touches are in step with it (all before it decided, none after it begun), for
  every cadence. `PathInv` says what a session at each label has flushed, `OrderInv`
  that who is about to move the enrollment on has decided the touch, or read that it is.
- `NoWayBack`: under `ForwardOnly` no commit does. `SlowInv`, for cadences with delays,
  says that while a decision is under way the enrollment is at the touch it decides, or
  one step on at a touch that is not due today.
- `ReviewedIsCurrent` (`AwaitingIsCurrent`) and the order in `StepsOnceInOrder`
  (`EachStepOnceInOrder`) follow from these two. The proof found that both are false of
  three steps without a delay under review, which the run's two steps do not reach.
- That a step is sent once (the other half of `StepsOnceInOrder`): `OnceInv`, that
  nothing ahead of an active enrollment was sent, and the touch it stands at by the
  tick alone that is about to move on.
- `RepliesStop`: `Spec => []ReplyStops`, from `ReplyInv`: when a message has left late
  nobody is composing or sending another, for composing starts with a look for a reply.
- `EndIsForGood`: without review, `Spec => RestsForGood`, the safety half of `EndsForGood`:
  once nobody is at work on an enrollment that is over, no tick claims it and no pause,
  resume or stop is let in. A decision is: it never looks at the enrollment (section 5).

`CampaignSend_proofs`

- `TypeCorrect`.
- `EnrolledOnceSafe`: `LockInv` (a session past `TakeRow` holds the campaign's row, so
  there is one) and `EnrollInv` (an enrolled target is not "drafted" any more in the
  database nor in the holder's copy, and whom the holder enrolls has no enrollment).
- `LeavesOnceSafe`: `SentInv`, that a target whose message left is not "drafted" in
  the holder's copy or, when nobody holds the row, in the database; `SentUntilDeath`
  says that this is so as long as no transaction was rolled back.
- `OncePerTargetSafe`: both, as the run checks them.
- `SaysTheTruthSafe`: `Spec => []SaysTheTruth`, the report counts what is committed with
  it and "completed" leaves no target behind. `TruthInv`: without a cadence a target is
  drafted until it is resolved, in every copy, and an approval that is about to commit
  has resolved all.
- `OverForGood`: `Spec => RestsForGood`, the safety half of `EndsForGood`: once those who
  read an ended campaign before its end are done, no request is let in any more.

`Requests_proofs` is about the requests of the API: those that carry a key
(`Idempotency`) and the turns of the chat (`ChatIntake`).

- `WorkOnceSafe` and `AnswersAgreeSafe` from `KeyInv`: while nothing was forgotten, a
  request that got the claim is alone and the store holds its claim; once a request
  has committed work that is answered, the entry is never absent again and nobody
  else has the claim; a response that was handed out is the stored one.
  `OneResultSafe`: both, as the run checks them.
- `ChatLogWhole` (`LogIsWhole`). A message takes the number after the last one it has
  read, and its reply the one after that whatever was committed since, so the transcript
  alone is not inductive. `NumberInv` says that logs have even length, that a number once
  read is at most the next one, and that whoever has inserted a message has the next
  number and is the only one at work in its session: the others that insert wait for it.
- `ChatProfileTrue` (`ProfileIsWhatWasSaid`) needs, besides, to know what the turn at work
  read. `RowInv`: a turn works with the row that is committed unless the log has
  grown since it read it, which is when `Commit` records the session as `stale`, and who
  creates a session is alone with it. `TalkInv`: what the controller decided keeps what
  the row held and adds what was said (`Decided`, from `MergeGrows` and the lemmas on
  `Advance`), the last question of the log is the one that the session waits for, so that
  the next answer is read as an answer to what the user saw, and a launched run has a
  number of the log.
- Assumed besides: `NoneAssumption`, that "no session" is no session.

`EventLog_proofs`

- `NoGapsSafe`: `Spec => []LogHasNoGaps`. `GapInv` says that the events of an open
  transaction follow the committed ones without a gap, and that at most one transaction
  has such events: the others that insert wait at the unique constraint for the number
  after the last committed one.
- `StreamSafe`: `Spec => []StreamIsLog`. `StreamInv` joins the three places an event is
  in on its way to a client: what it was handed, what is on the wire and what the server
  has yet to send are the log up to the server's cursor (`Follows`, `CursorAtEnd`), and a
  stream told of the end owes the client no later event (`Owes`), because the status
  was read before the events and the log does not grow past it. That the events
  a poll sends are numbered on from the cursor needs the sorting of an interval
  (`AscendingOfInterval`): it is proved of `Ascending`, which is defined by what a sorted
  sequence is.

`Workers_proofs`

- `TypeCorrect`.
- `StampSafe`: `Spec => []StampHasJob`, from `JobInv`: whoever has stamped an account in
  its open session has enqueued its job already.
- `SearchAloneSafe`: `Spec => []SearchAlone`, from `SlotInv`: whoever searches holds the
  tenant's row and its slot is still free.
- `Busy` says what a worker has in its hands at each label; all three rest on it.
- `CrmTypeCorrect`, and `CrmHasOneCompany` (`OneCompany`) from `CompanyInv`: whoever has a
  company in hand has one that the CRM holds, and until two first pushes overlap, who is
  about to create one creates the first, whatever calls failed and were retried before,
  or creates it after a refused search (`blind`, of which the property says nothing).
- `CrmToldTrue` (`SyncedIsTrue`). `StepInv`: unless an edit overtook a job, nobody holds an
  outdated copy, and a job that leaves the stored id alone leaves that of a company which was
  pushed to. `SignalInv`: a signal that is not newer than the time a job took is on that
  job's list, was invisible to it, or was accounted for when the job loaded the stamp.
- `SourcesAskedAsNeeded` (`AskedAsNeeded`). `OnceInv`: until two look-ups of one query
  overlap, who looks a query up is alone with it, it is not cached, and the engine was
  asked it by that request alone. `KeyInv`: until another search changes the key, the keys a
  search has tried are those that led to the one in use, one for each attempt that was not a
  pause; that such a walk round the pool meets every key is `RoundTrip`.
- `BreakersHold` (`BreakerHolds`), an action property of the waterfall: that a
  late answer leaves an open breaker open is a case of `Return` and `Raise`.
- Assumed besides: finitely many accounts (`AccountAssumption`, their ages are told apart
  only so far), that `Nobody` is no process, account or driver, and that `None` is no company.

`Tenant_proofs` is about the five components that `MCTenant` composes. Each has its own
inductive invariant and a theorem of its own (`OwnerStaysSafe`, `NewestCodeSafe`, ...);
`OnItsOwn` says that a step of the whole is a step of each component or leaves it as it
is, so that the theorems of the last section hold of the whole, as the run checks it.

- `TenantKeepsOwner` (`OwnerStays`). `OwnerInv` says of each request what it still knows
  as long as nobody wrote after it loaded: the member has the role it read, and if it was
  let through to take an owner away there is another one. Two edits that overlap can
  leave a tenant without an owner (section 5): the ghost `crossed` records a write that
  overtook another request's check, and the property speaks of the states before.
- `TenantKeepsCode` (`NewestCodeStands`). `CodeInv`: one request at most holds the row of
  a table, and one that has mailed a code is about to commit it.
- `TenantMailboxesAgree` (`MailboxesAgree`). A request writes back the whole list it
  loaded, however long ago, so `MailInv` makes what is wanted of the stored settings hold
  of every held copy too (distinct ids that were given out, one default, verified means
  tried), and says that what a request is about is in its copy.
- `TenantGraphHolds` (`GraphHolds`), for any number of accounts, shared or not.
  `NetworkInv`: every token in use was issued, a rotated one is the job's that rotated it,
  whom a job is about to add nobody has and nobody else is about to add, up to a cursor
  that no client gave there is no gap (`NoGap`), an edge of one account alone has that account's pooling and a
  job has read the same, unless it was switched meanwhile (`PoolingRead`).
- `TenantAddressesHold` (`AddressesHold`). `ContactInv`: what the verifier's cache holds
  is right of its address, and a job that is alone has in hand a verdict on the address
  of the row; `JobInv` says what the finder has walked past.

`Pipeline_proofs` does the same for the three parts of `MCPipeline` (`PartOnItsOwn`).

- `AccountIsUnitOfWork` (`OneUnitOfWork`) and `CompletedStaysQuiet` (`NoRealert`, the
  safety half of `RaisedOnceForAll`) from `PipelineInv`: until two transactions overlap,
  what a transaction decided still fits the inbox (`DecisionStands`), who found no open
  call is the only one to have looked, and a signal has its plays' records.
- `DigestsDoNotRepeat` (`DigestsAgree`) from `DigestInv`: a report counts its own window,
  and past the gate nothing was sent within it and nobody else is past it.
- `BookStaysInOrder` (`BookHolds`) from `BookInv`: what a session is about to write
  agrees in the archive's two columns, inserts under a key that it holds alone, and
  concerns people it has not seen.

Finding the invariants corrected the properties in three places. `NoRealert` was stated of the
task a signal was raised for; but a later signal shares an open task, and a transaction
may touch one that was completed since it looked, which starts the cool-down anew. It is
now stated of `CoolingDown`, as the code computes it. And `TouchesInOrder` and
`AwaitingIsCurrent` had no condition, which cadences of three steps need (section 4).
`InStep` of `CRMSync` spoke only of an account that no job has loaded: the proof showed that
it holds whatever is under way, which is what it now says.

Model-checked only, and why:

- every liveness property (`RequestsEnd`, `SessionsEnd`, `ActiveResolves`,
  `OpenStreamDelivers`, `KeyComesFree`, `ScheduleGoesOn`, `DueIsSynced`,
  `DiscoveryReachesAll`, `ReportedGetsIn`), which TLAPS cannot prove;
- in `DataSources`, the type of what a search holds (`got`, `query`, `tracked`): the lists
  go through `SelectSeq`, which is recursive, so what it returns is a matter of induction
  over data. No proof here rests on it: they use
  `SourcesTyped`, which leaves these out.

Every safety invariant that a run checks is the statement of a theorem.

## 7. Not modelled, and why

See the components' notes in `PROJECT.json`. What is left out is prompts, parsing,
scoring, similarity and rendering, which hold no state that a step order could break;
plain reads and writes of one row (definitions of custom fields, lists, settings, profiles' other
columns); outcomes' learnt weights, which are numeric; telephony; the search for people
and introductions in the network; the rate limiter, a window in one process that is read
and written in one step; tenant filtering of queries, which every module presupposes by
modelling one tenant; migrations, deployment and the client's pages other than the one
that follows a run.
