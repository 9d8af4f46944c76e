# A verification project for ArcWatch

ArcWatch is a Django application (`monitor/`) that collects GPU and inference
metrics from agents, raises alerts, snapshots costs, and pulls LLM usage from
providers.  This directory holds TLA+ models of its parts, TLC configurations
that check them on small instances, and TLAPS proofs of their most important
properties.

Deployment facts the models use (`docker-compose.prod.yml`,
`arcwatch/settings.py`): gunicorn runs 3 worker processes with a timeout of 120
seconds; Celery runs 2 worker processes and acknowledges a task when it starts;
beat queues the alert and the cost task every 60 seconds and the two LLM tasks
every hour; PostgreSQL is at READ COMMITTED and, outside `transaction.atomic()`,
in autocommit mode.  So two statements of one request or task are two steps, and
anything may happen between them.

## Inventory

| Part | State | Operations | Talks to |
| --- | --- | --- | --- |
| Alert engine (`services/alert_engine.py`, `models/alert.py`) | rules, events, `notification_sent` | evaluate rules (Celery), create / toggle / delete a rule (settings), add / edit / delete rules and events (admin) | metrics tables (reads), Slack |
| GPU ingest (`rest_api.ingest_gpu`, `services/metric_ingestion.py`, `models/gpu.py`) | clusters, nodes, GPUs with a snapshot, hypertable `gpu_metrics` | ingest, create / delete clusters, delete nodes | agents, settings views |
| Inference ingest (`rest_api.ingest_inference`, `services/inference_ingestion.py`) | endpoints with a snapshot, hypertable `inference_metrics` | ingest, deactivate / delete endpoints | agents, settings views |
| Agent (`agent/`, Go) | previous counters, interval ticker | collect, export with retries, scrape and export inference metrics once | server |
| Cost engine (`services/cost_engine.py`) | `cost_snapshots`, pricing rows | snapshot (Celery), summaries and rates (reads) | GPU and inference tables |
| LLM sync (`services/llm_sync_engine.py`) | providers, usage rows, `last_synced_at` | hourly and manual sync, create / toggle / delete a provider | provider APIs |
| Membership (`models/organization.py`, settings views) | users, profiles with roles, invites | invite, resend, revoke, accept, change a role, remove a member | mail |
| API keys and tenant context (`api_auth.py`, `middleware.py`, `models/base.py`) | keys, a context variable with the organization of the request | create, revoke, edit (admin), authenticate, scope a query | every view |
| Read API (`rest_api.py`, `api_pagination.py`) | none | cursor pagination over live tables | clients |
| Onboarding and demo data (`onboarding_views.py`, `demo_seeder.py`) | organizations, seeded rows | create the organization, seed, backfill | settings |
| Dashboards and charts (`views/*_views.py`) | none | read-only pages | every table |

What is hard in each part, and which property answers for it, is the list `hazards`
of `PROJECT.json`, at its line of code.  The properties that make the parts
correct:

- Alerts: one open event per rule, but for those people add or re-open; no event
  without its rule; a notification flag that tells the truth; a deleted or
  resolved row that stays so until a person posts a form for it; a breach that
  lasts is raised.
- GPU ingest: the snapshot on a row is its newest sample whatever the order of
  arrival and commit; references hold through deletes; an upsert finds nothing to
  conflict with; ingests wait for deletes only, and every request is answered and
  every delete ends although the two deadlock.
- Agent and inference ingest: what the agent logs as exported is stored; a
  sample is stored three times at most; an endpoint shows a sample the history
  has; a server that does not answer does not stop the agent.
- Costs: no organization pays a GPU for more minutes than have passed; one price
  list per run; a failed organization disturbs no other; the tables of the page
  account for its total, but for rows that have left the period meanwhile; the fleet rate is hourly.
- LLM sync: upserts are idempotent; `last_synced_at` means that the rows are
  there; a provider that was switched off stays off; a healthy key converges
  whatever fails around it; reported costs are kept.
- Membership: a removed member stays out; an accepted invite has brought
  somebody in; a link is used once per request that raced for it (once, says the
  code's own comment).
- API keys and tenants: a key that is revoked, deleted or expired gets nothing any
  more, whatever requests were under way; no request runs in the organization of
  another one.
- Pagination: rows that exist throughout a listing are returned exactly once.
- Demo data: whoever loses a race goes on with the winner's row; one seeding
  writes a minute once; the history is complete when the seeding ends.

## Plan

| # | Module | State |
| --- | --- | --- |
| 1 | `AlertEngine`, with `AlertPromise`, the abstract specification it implements | done |
| 2 | `GpuIngest`, with `Inventory` | done |
| 3 | `Membership`, with `Admission` | done |
| 4 | `LlmSync` | done |
| 5 | `CostEngine`, with `Ledger` | done |
| 6 | `Telemetry`: the agent and the inference ingest together, with `Delivery` | done |
| 7 | `ReadApi`: API keys, the context variable of `TenantMiddleware` and cursor pagination together, because they meet in the requests of one worker | done |
| 8 | `DemoSeeder`: seeding twice, and in two processes at once | done |

`Telemetry` composes the two sides of the wire: the agent's loop, the network and
the handlers.  `GpuIngest` is the inside of the one step `IngestGpu` takes there.
The other modules meet in the database only, through rows the owner of a table
writes and the others read; each module that reads such a row has the writer as
an action of its environment (`Breach` and `Recover` of `AlertEngine` stand for
the ingests, `Report` and `RemoveGpu` of `CostEngine` for `GpuIngest`).

Every safety property of the passing runs has its theorem, the five refinements
included.  What is left to state are the abstract specifications of `LlmSync`,
`ReadApi` and `DemoSeeder`; liveness stays with the model checker.

## Modules

Every module states in its header what it abstracts.  Definitions named `Bad...`
are faulty variants of the definition that follows them; no action uses them, and
each property is violated when one of them takes the place of its definition.

**`AlertEngine`** models `evaluate_alert_rules` one statement at a time: load the
enabled rules (`StartTask`), look at the metric (`CheckRule`), ask for an open
event (`Dedup`), insert one (`CreateEvent`, or `FailToCreate` when the rule's row
is gone, which ends the run), post to Slack (`NotifySlack`), save the flag
(`SaveNotificationSent`).  `pc`, `todo`, `cur`, `event` and `ok` are the locals of
a worker, `rule`, `status`, `ruleOf` and `sent` the two tables, `accepted` is what
Slack took.  The settings views and the admin site interleave, in two steps where
the code has two: `ReadToggle` and `SaveToggle` are the view that switches a rule,
`PostRuleForm` and `SaveRuleForm` the lookup and the save of `AlertRuleAdmin`, and
a form of `AlertEventAdmin` is opened (`OpenEventForm`), posted at any later time
(`PostEventForm`) and saved (`SaveEventForm`).  That save writes back every column
but `triggered_at` as the form showed it: a stale one takes `notification_sent`
away, leaves `resolved_at` empty and so re-opens an event, and inserts a row that
was deleted between the lookup and the save.  `status` tells an event the task
raised ("open") from one a person put on ("manual").  `AlertPromise` is what
somebody who configures a rule is promised, whatever the number of workers: the
task raises an alarm once and marks it as told after that, and as many of those it
raised ring for a rule as there are workers, at most; only a person puts an alarm
on again, or adds one.

**`GpuIngest`** models `ingest_gpu` and `ingest_gpu_metrics`.  The cluster is
resolved and committed first (`ResolveCluster`); `LockNode` is the node's
`update_or_create`, which owns the row from then on and after which `now` is
read; `SaveGpu` takes the GPUs one by one and `Commit` makes everything visible
and checks the deferred foreign keys.  The ways to fail are actions too:
`NodeConflict`, `GpuConflict`, `CommitFails`, `Abort`.  A delete of a cluster or a
node has the steps Django gives it: it reads what hangs on the row
(`CollectCluster`, `CollectNode`), deletes the GPUs with one statement
(`DeleteGpus`, which takes the rows one by one with `TakeGpu`), the nodes with the
next (`DeleteNodeRows`, `TakeNode`), then the cluster, and `CommitDelete` makes it
visible, or `DeleteFails` when a row has appeared that still refers to one of
these, or `AbortDelete`.  `OwnsNode` and `OwnsGpu` say who has a row; an ingest owns
the node before its GPUs, a delete the GPUs before the node, so the two can wait
for each other, which `BreakDeadlock` ends.  `Inventory` is what an agent may rely on: one step,
`Store`, that takes a whole report as of an instant of its own and has no locks,
handlers or failures; a node never changes its cluster there, two GPUs of a node
never share an index, and what is deleted takes what hangs on it along.

**`Membership`** models the member, invite, accept and onboarding views as
handlers that look something up in one step and write in later ones.  `place` says
where a profile is, `joined` and `removed` are histories for the properties.
`Admission` is the register behind it: users join once, through an invite that was
made, and leave for good; an invite is accepted once it has brought somebody in.
It says also what the code does not promise: whoever opened a link in time may
still join when the invite was accepted by another or withdrawn.

**`LlmSync`** models both hourly tasks and the manual sync: `BeginSync` reads the
provider again, `AskUsage` and `AskCost` are one HTTP request each, `StoreRow`
one `update_or_create`, `SaveSynced` the save of `last_synced_at`.  `Raise` is what
an exception does: the task goes on with its loop, the view ends.  `since` is
history: what the API reported when the oldest sync of an overlapping chain
began.

**`CostEngine`** models `compute_cost_snapshot`: `StartTask` reads time and prices,
`ReadGpus` begins the transaction of an organization, `Commit` or `Rollback` ends
it.  `OpenPage`, `ReadTotals`, `ReadByModel`, `ReadByNode` are the statements of
`get_cost_summary`, each about the rows of the last `Period` minutes as of its own
`NOW()` (`IsRecent`, `CostRows`), so that rows leave the period between two of
them; `FleetCostRate` is `get_fleet_cost_rate`.  `steady` is history:
the GPUs a run has no excuse not to bill.  `Ledger` is the book the runs keep: one
step posts a run's rows for one organization, one per GPU, and no row is ever
altered or taken back; there are no more runs than minutes, each with one time and
one price list, and later runs have no earlier time.

**`Telemetry`** models the loop of the Go agent (`Collect`, `PostGpu`,
`GetGpuReply`, `GpuTimeout`, `PostInference`, `ScrapeFails`, `EndRound`,
`Restart`), a network that loses requests and answers and delivers requests late,
and the inference handlers (`TakeInference` reads the time, `UpsertEndpoint` locks
the row, `InsertAndCommit` or `Fail` or `Crash` ends the transaction).  `Delivery`
is the contract between the two ends, without network, attempts or handlers: a GPU
sample is stored at most three times, acknowledged while it is the newest and
after it was stored; an inference sample is stored once, in the step that shows it.

**`ReadApi`** models what gunicorn workers do with the requests of the read API and
of the settings pages.  `Admit` and `Leave` are the two ends of `TenantMiddleware`:
a request with a session sets `context` and clears it, one of the read API or of a
page of the allowlist does neither and runs with what is there.  A request of the
read API looks its key up (`FindKey`), saves `last_used_at` and looks at the scope
(`TouchKey`), and reads a page (`SelectPage`: `Limit`, `IsPage`, `Deliver`).  A key
is made (`CreateKey`), read and revoked in two steps (`ReadKey`, `SaveRevoked`),
edited in the admin from a form of any age (`AdminSavesKey`), deleted, and expires.
A client follows `next_cursor`, and asks again when an answer does not come
(`Retry`).  Rows appear and vanish between any two steps.  `granted`, `usable`,
`steady` and `got` are histories for the properties.

**`DemoSeeder`** models `seed_demo_fleet`.  `Get`, `Insert`, `InsertFails` and
`GetAgain` are the statements of `get_or_create`, for one thing after the other; a
thing that the database does not keep unique (a price, an alert rule) may get a
second row from a seeding that runs at the same time, and every seeding after that
stops with MultipleObjectsReturned.  `StartHistory` fixes the hours to write,
`WriteBatch` is one `executemany`, `NextTable` goes on when the buffer was flushed,
`CheckEvents` and `CreateEvent` make the sample events.  `Kill` leaves any part of a
batch, because each of its rows is a transaction.  A history is a bag of cells
(table, subject, minute).

Every definition's lines are in the `map` of `PROJECT.json`.

## Runs

| Run | Instance | What it shows |
| --- | --- | --- |
| `alert_serial` | 1 worker, 2 events, 1 person, 1 crash.  Scene `forms`: 1 rule (with Slack), forms of every kind and age.  Scene `rules`: 2 rules, no admin form | All safety of the engine, `KeepsPromise` (it implements `AlertPromise`) and `BreachIsRaised` |
| `alert_race` | 2 workers, 1 rule, 2 events | **Violates** `AtMostOneUnlessManual` |
| `gpu_ingest` | 2 handlers, 1 cluster, 1 host, 2 GPUs, a report that shrinks and an empty one.  Scene `reports`: 3 requests.  Scene `deletes`: 2 requests, deletes of node and cluster | Snapshots, references, no wait for another ingest (`WritersWaitForDeletesOnly`), `KeepsInventory`; every report is answered and every delete ends, through the deadlocks between the two |
| `gpu_replaced` | 1 handler, 2 requests, one GPU in the place of another | **Violates** `GpuUpserts` |
| `membership` | 2 handlers, 3 users, 1 invite, 1 crash, 1 workspace each | Removals, joins, `KeepsAdmission` |
| `membership_link` | The same without a crash | **Violates** `OneTimeLink` |
| `llm_sync` | 1 worker.  Scene `overlap`: an Anthropic key with 2 days of usage and 1 Claude Code row, a manual sync.  Scene `killed`: the same without usage of Claude Code, where one of the two dies and nobody switches the key off.  Scene `isolation`: that key with usage on 1 day and an OpenAI key, no manual sync, 1 crash | Overlapping and killed syncs of one key; a healthy key converges whatever the other does |
| `llm_cost` | 1 Anthropic key, 1 worker | **Violates** `CostIsReported` |
| `cost` | 2 organizations, 1 GPU, 1 price, 2 workers, 1 page about 1 minute, 2 minutes, 1 crash | Billing, isolation of organizations, the page, `KeepsLedger` |
| `cost_rate` | 1 organization, 1 GPU, 2 prices, 2 minutes, at most one row a minute | **Violates** `RateIsHourly` |
| `telemetry` | 2 handlers, 2 samples of 3 attempts each | Duplicates, the agent goes on, `KeepsDelivery` (what is exported was stored, what is shown is stored) |
| `console` | `ReadApi`: 2 handlers, 1 client, 1 key, 1 user, 3 rows of two organizations, limits 0, 5 and none.  `DemoSeeder`: 2 seedings at once, 3 things (a node that is an endpoint too, its GPU, a rule), 4 rows, 3 minutes in batches of 2, 2 histories | Listings, tenants, revoked keys; races of seedings, twins, the history |

Why the bounds are enough for what the runs are asked:

- A run with scenes (`AlertScenes`, `GpuScenes`, `LlmScenes`) goes through several
  instances, so that it has the sum of their states and not those of their union.
  A scene leaves out steps of the environment (a report, a form, a crash, usage of a
  row), never one of a worker, a request or a delete that has begun, so the fairness
  assumed is that of the module.  In `LlmScenes` the first of the two days of a key
  has usage before the second: they differ in nothing else.
- `console` checks two modules that share no state.  `part` says which of the two
  moves, so that the run has the sum of their states and not the product; a bug of
  one cannot hide behind the other, which keeps still in an initial state.
- Two handlers or workers are the least that can race, and the hazards listed are
  all of one process that acts on what another one changes.  Where
  one is used (`alert_serial`, the scene `isolation`), the question is about one worker
  against its environment.
- `EventIds`, `Tokens`, `MaxReports`, `MaxBeats`, `MaxSamples` bound how often
  something is made, not how it interleaves.  Two events let an alarm be raised
  again after it was cleared, and a re-opened one stand beside a new one.  Three
  reports are one before, one after and one in between; two are enough for
  a deadlock with a delete.  Two minutes let a run overlap with its successor.  Two
  samples let a late request of the first arrive between two of the second.  Four rows of demo data are a
  node, its GPU, a rule, and one of them again after a delete or beside its twin;
  two histories are two that overlap, or one after a kill.
- Three rows, of which the middle one is another organization's, and pages of one
  and two rows make a listing with a page in the middle, a full last page and a
  cursor whose row is gone.  Three minutes in batches of two leave a batch that is
  not full.  The clock stands still in `console` (`MaxClock = 0`), so that two
  histories have all their minutes in common, which is where they can collide.
- One delete of a cluster or a node runs at a time.  It meets two ingests in every
  interleaving of their statements; what two deletes at once would add is the wait
  of one for the other.
- A page about one minute (`Period = 1`) in a run of two minutes is the shortest in
  which rows leave the period between two queries of the page.  24 hours differ in
  the number of rows only, and `PageIsWhole` holds for any period.
- The alert engine with several workers has a run of its own only for the race it
  loses (`alert_race`); `NoOrphans`, `SentIsTrue`, `KeepsPromise` and the rest are
  theorems for any number of workers.
- One crash reaches every state "it died here and somebody went on".
- Rows of `LlmSync` are days inside the window of 32 days that every sync asks for.
- `MaxAmount = 1` is a row that is not there and one that is; what tells an old
  amount from a new one is exactly that.  The theorem `UpsertsAreIdempotent`
  has no such bound.
- `membership` disables the deadlock check: administrators can demote each other
  until nobody is left who can act, and no view prevents that.  With the invite
  spent and every username taken, the model stops, and so does the organization.

## Fairness

- `AlertEngine`: weak fairness of each worker's next statement, the start of the
  next task included.  Beat queues a task every 60 seconds and Celery's prefork
  workers run on.  Nothing is assumed of operators, the fleet or crashes.
- `GpuIngest`: strong fairness of each handler's steps and of the delete's, weak
  fairness of `BreakDeadlock`.  PostgreSQL queues the transactions that wait for a
  row, so one that finds it taken again and again is served in its turn, and its
  deadlock detector aborts one transaction of a circle that waits for itself
  (`Circle`, over `Waits`).  Aborts for other reasons may happen and are not
  assumed to.
- `LlmSync`: weak fairness of a worker's steps, strong fairness of the start of
  each of the two tasks.  Both are queued every hour and the queue is first in,
  first out, so neither starves the other.  Nothing is assumed of manual syncs,
  of the recovery of an API or of crashes: `Converges` assumes in its own premise
  that the key stays active and its API well.
- `Telemetry`: weak fairness of the agent's own steps.  The server and the
  network may stay silent for ever; the client's timeout of ten seconds is what
  `NeverStalls` rests on.
- `Membership`, `CostEngine`, `ReadApi` and `DemoSeeder` have safety properties only.
  A client of the read API may never get an answer, and a seeding never end:
  nothing in the code retries either.

## Theorems

TLAPS checks these for every value of the constants that satisfies the
module's assumption (`AlertAssumption`, `IngestAssumption`, ...); TLC evaluates
the assumptions in the runs.  Each module `X_proofs` extends the module `X`.  Each
proof has the same shape: a lemma `NextCases` lists the actions, `TypeCorrect` is
proved first, then an invariant that is inductive.

| Theorem | Invariant it rests on, and why the property alone is not inductive |
| --- | --- |
| `AlertEngine_proofs!TypeCorrect` | also that a worker in the loop body has a rule, and one that notifies has an event |
| `NoOrphans` | inductive with the types: the INSERT checks the foreign key, that of a stale form too, and the DELETE cascades |
| `OpenEventsBounded` | `CreatorsInv`: open events of a rule that the task raised and workers about to insert one are together no more than the workers; events that people put on only keep workers from inserting |
| `OneOpenEvent` (assumes one worker) | from `OpenEventsBounded`: of two open events one was added or re-opened by a person; false for two workers, as `alert_race` shows |
| `SentIsTrue` | `SentInv`: what a worker or an admin form carries about a notification was true when it was read |
| `NothingRevived` | action property, from the types: a toggle finds the row it read or none, the worker writes one column; only a posted form re-opens an event or brings a row back |
| `PromiseKept` | the engine implements `AlertPromise`; `CreatorsInv`, and `MarkedInv`: no event is marked before it is inserted, the one a worker is about to mark is its own and not marked yet, and no form says that it is.  A form may put an alarm on again, and the promise says so: that step is a person's |
| `GpuIngest_proofs!TypeCorrect` | a writer has saved a prefix of its report |
| `LatestSnapshot` (assumes `OneHome`) | `SnapshotInv`: one writer per host, and its instant is newer than every committed sample of its GPUs, because it was read under the node's lock |
| `ReferencesAlwaysHold` | `ReferencesInv`: keys that handlers and nodes hold are of rows that were made |
| `WritersWaitForDeletes` (assumes `OneHome`) | `OneWriterPerHost` and `RowsAreReported`: two writers have different hosts, and neither the GPU a writer needs next nor one in the way of its index is in the reports of the other host |
| `DeadlocksNeedADelete` (assumes `OneHome`) | from `WritersWaitForDeletes`: ingests alone never wait in a circle |
| `UpsertsHold` (assumes `StableIndexes`) | `RowsAreReported`: the index on a row is one at which some report of its host has the GPU |
| `InventoryKept` | the handlers implement `Inventory`; `KeysInv`: primary keys of clusters are distinct and never used again; `WritingInv`: what a writer found when it took the node is still so, the indexes it has passed are of no other GPU, its instant is nobody else's and in no sample; `DeletionInv`: what a delete has taken is on its nodes and in no ingest's hands, so that its commit removes everything that hangs on them or fails; `ReferencesInv` |
| `Membership_proofs!TypeCorrect` | a request that has found its target or invite has one |
| `AcceptedIsTrue` | `AcceptedInv`: who is about to mark has already brought somebody in |
| `RemovedForGood` | `RemovedInv`: who is about to join is a fresh account that nobody else works on, so no removal can come before its join |
| `JoinsBounded` | `JoinedInv`: who has joined through a link is counted together with who may still do so |
| `AdmissionKept` | the views implement `Admission`; `KnownInv`: who is in the organization was brought in by an invite, and who is about to join never was; with `AcceptedInv`, `RemovedInv` and `JoinedInv`: who is about to join is nobody else's target, and every link in use was sent |
| `LlmSync_proofs!TypeCorrect` | a syncer has a provider exactly while it fetches and stores |
| `UpsertsAreIdempotent` | `Fetched`: what is fetched and not stored was reported by the provider the syncer works on |
| `SyncedIsStored` | `Fresh`: what a syncer has fetched, and what others of its key hold, is at least as recent as `since`; what it stored is in the table or was replaced by something as recent |
| `OffStaysOff` | action property: no sync writes the active flag |
| `CostEngine_proofs!TypeCorrect` | `_match_pricing` always finds a rate (a greatest one exists among the naturals below `MaxRate`), runs begun plus runs queued are the minutes |
| `NobodyOverbilled`, `OnePriceList` | `Booked`: a run has its number for itself, brings each organization up once and charges by the list it holds; the bound is then an injection of rows into runs |
| `CommittedRowsStay` | action property: no step deletes rows |
| `LedgerKept` | the runs implement `Ledger`; `Booked`, and `TimesInv`: the time of a run, held or in its rows, is no later than the clock, and the runs' numbers and times are in the same order |
| `NobodyMissed` | `SteadyInv`: a run has no row of an organization before its turn, and after it one of each GPU that was there all the time |
| `PageIsWhole` (for any `Period`) | `ShownInv`: what the page has summed is still in the table, for the same GPUs, and was recent when it was summed; a later query misses it only because it has left the period |
| `Telemetry_proofs!TypeCorrect` | the lock belongs to the handler in its transaction, and nothing comes from a sample nobody has taken |
| `SnapshotIsStored` | inductive with the types; no run lists `SnapshotHasSample`, since `KeepsDelivery` implies it |
| `ExportedWasStored` | `OkIsTrue`: an "ok" the agent waits for is about the sample it waits for |
| `DuplicatesAreBounded` | `SentInv`: rows stored and requests on their way come to no more than the attempts made; `OnceInv`: an inference sample is posted once |
| `DeliveryKept` | agent, network and handlers implement `Delivery`; `OkIsTrue`, `SentInv` and `OnceInv`: a request on its way has its copy still to come, and an inference request its row |
| `ReadApi_proofs!TypeCorrect` | a client waits for a handler that works for it, or that has died |
| `PagesAddUp` | `ListingsInv`: what a client has is what lies before its cursor, and the rows that were there throughout and lie before it have been returned once |
| `TenantOfEveryView` | `ContextIsTenant`: an idle worker has no organization in its context |
| `RevokedStaysRevoked` | `KeysInv`: a key is granted exactly while its row is active and not expired, and a request that has found its key found it usable |
| `DemoSeeder_proofs!SeedTypeCorrect` | `FoundInv`: a seeding has a row for each thing it is past |
| `HistoryOfRows` | `LeftInv`: the cells that wait to be written are of rows that were made |
| `WrittenOnce` | `OnceInv`: the copies of a cell and the seedings that may still write it are together no more than the histories begun; `WrittenInv`: what a seeding is past is in the history |
| `TwinsAreFew` | `TwinInv`: the rows of a thing and the seedings about to insert one are together no more than the seeders |

### Only model-checked

Liveness (`BreachIsRaised`, `EveryReportAnswered`, `EveryDeleteEnds`, `Converges`,
`NeverStalls`)
needs fairness and ENABLED, which the prover does not handle.  Nothing is proved by induction over data, and the
modules have no RECURSIVE operator; the one fold (`FleetCostRate`) is only
evaluated.

## Findings

Five runs end with a violation, each of what the repository itself says:

1. `alert_race`: two workers pass the dedup query before either inserts, and the
   task gives a rule two open events (`services/alert_engine.py:41`).
2. `gpu_replaced`: GPUs are upserted by uuid, but `(node, gpu_index)` is unique too.
   After a report with one GPU at an index, a report of the node with another GPU at
   that index (a replaced card) raises at the upsert and is rolled back
   (`services/metric_ingestion.py:57`).
3. `membership_link`: the token is "the one-time accept link"
   (`models/organization.py:206`), but `accept_invite` looks at `is_accepted` without
   a lock and sets `accepted_at` last, so a second request that opened the link
   before that brings a second user in (`views/settings_views.py:398`).
4. `llm_cost`: a cost report that fails counts as a cost of 0, and the sync
   overwrites the reported costs of its whole window (`services/llm_sync_engine.py:100`).
5. `cost_rate`: a GPU with its row of one minute and its row of the next, both in the
   window of two minutes, counts twice: the rate sums both rows and scales the sum as
   that of one minute (`services/cost_engine.py:281`).

What the models show beside these, without a run of its own:

- An admin form of an event that was opened before the event was resolved, or
  before Slack was told, writes both back when it is saved for any other edit: the
  event is open again, beside the new one the task may have raised meanwhile, and
  its `notification_sent` is gone.  So even one worker can live with two open events
  of a rule; `OnlyFormsRevive` and `AlertPromise` allow it to people and deny it to
  the task.
- An ingest locks the node and then its GPUs, a delete of the node or its cluster the
  GPUs and then the node: they deadlock, and PostgreSQL ends one with an error.
  A delete fails likewise when a report adds a GPU or a node after its statement.
  `EveryReportAnswered` counts the error as an answer; the agent retries, the
  person has to.
- The queries of the cost page have windows of their own: between two of them the
  oldest rows can leave, and the tables then account for less than the total.

- `duration_seconds` of a rule is never read: a breach is raised on the first
  sample.
- The Go agent names its cluster in a field `cluster` (`agent/internal/types/metrics.go:21`),
  the server reads `cluster_name` (`rest_api.py:110`), so its nodes are all in the
  cluster "default".
- A host that is reported under a second cluster name has all its reports refused
  (`NodeConflict`).  Two hosts that report one GPU can leave the older sample in the
  snapshot; `LatestSnapshot` assumes `OneHome`.
- A crash between the INSERT of an event and the notification leaves an open event
  nobody is told of, and the deduplication then keeps silent.
- A crash between the profile's save and `accepted_at` leaves a link that can be used
  again; a reminder
  does not renew the expiry; an address whose invite was accepted cannot be
  invited again after its member was removed; two onboarding requests at once make
  two organizations; administrators can demote each other until none is left.
- Days that OpenAI refuses are left out and `last_synced_at` moves on; two keys of
  one kind in an organization overwrite each other's rows; days that leave the
  window of the sync are not asked for again.
- A GPU that moves between organizations while a cost run is between the two is
  billed to both or to neither, and its rows of the last 24 hours follow it.  The
  cost of GPUs that are gone disappears from the totals.
- A late inference request puts the snapshot and `last_seen` of its endpoint back,
  because the time is read before the row is locked.  A report re-activates an
  endpoint that was retired.  A GPU sample whose answer was lost is stored again by
  the retry.
- `seed_demo_fleet` calls itself idempotent, hypertable rows included
  (`services/demo_seeder.py:4`, `:128`, `views/onboarding_views.py:67`).  Its other
  rows are, its history is not: the hypertables have no unique key, so
  `ON CONFLICT DO NOTHING` never finds a conflict and each seeding writes all hours
  again.  `WrittenOncePerSeeding` says what does hold.
- Two seedings at once leave two prices or rules of one name, after which
  `get_or_create` raises for ever.
- The history of the demo endpoints is keyed by `hash()` of their id, which differs
  from process to process (`services/demo_seeder.py:405`), the ingest keys by MD5
  (`services/inference_ingestion.py`), and the chart looks for `hash()`
  (`views/chart_views.py:230`): it shows neither.
- A cursor that decodes to something that is no key of the table ends in 500, not
  400.  A form of the admin that was opened before a key was revoked or deleted
  makes it valid again when it is saved, which `RevokedKeyGetsNothing` allows.

## Not modelled

- What the metrics are and how they are parsed, formatted and drawn; severity and
  wording of alerts; mail.  A sample is a number, an amount stands for all counters
  of a row.
- The admin forms of `UserProfile`, `GPU` (other than its status), `GPUNode`,
  `GPUCluster` and `InferenceEndpoint`.  Like the forms of events they save every
  column they show, from a page of any age.
- Two deletes of clusters or nodes at once.
- `nvidia-smi`: the agent runs it without a timeout (`agent/internal/collector/gpu.go:45`),
  so `NeverStalls`, which assumes that collecting ends, says nothing of a driver
  that hangs.
- The 32 days a sync of LLM usage asks for (`services/llm_sync_engine.py:330`) as a
  window that moves: a day that could not be read until it left the window stays
  missing, which `Converges` does not deny.  A row's cost is one bit, reported or not.
- Waste and utilization of the cost page: further sums over the same rows.
- Teams, the `is_active` flags of clusters and nodes, which no modelled code reads.
- The Python GPU monitor: a client of the same endpoint with one attempt instead
  of three.
- Dashboards, charts and the formatting of the read API: queries and templates
  without state.
- A request of the read API that brings a session as well and so sets a context.
- Retention: the shortest policy of the hypertables is 90 days, longer than any
  window a model looks at.
- The user and organization the command `seed_demo_data` makes before it seeds.
- SQLite: the models have the locks and deferred foreign keys of PostgreSQL, which
  the deployment uses.
