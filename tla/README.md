# Verification of the reventless-core framework

TLA+ models, TLC runs and TLAPS proofs for the Reventless framework
(`src/reventless/`, ReScript): event sourcing and CQRS components that run on AWS
(SQS, SNS, DynamoDB), on Postgres and on a local, single-process platform. Paths below are
relative to `src/reventless/`. The models are read off the ReScript sources; the line ranges of
`PROJECT.json` cite the compiled modules (`.res.mjs`), which are what runs. Files and lines in this
README, and under findings and hazards, are those of the `.res` sources where the comments are.

Contents

1. The system: parts, state, interactions, what is hard about it
2. Plan: what is modelled in which order, and what is left
3. The modules and how they correspond to the code
4. The runs: questions, bounds, results
5. Where code and documentation disagree
6. Fairness
7. What is proved, from what, and how
8. What is not modelled, and why

Run a model with `tlc -config X.cfg M`, e.g. `tlc -config MCAggregate_batches.cfg MCAggregate`;
check proofs with `tlapm Aggregate_proofs.tla`.

## 1. The system

### 1.1 Layers

`spec/` holds types and codecs; `core/` the components as functions over adapter interfaces
(`*_Callback.res` the handlers, `*_Operations.res` the operations on stores); `aws/`,
`postgres/` and `local/` the adapters. An application composes components into plugins.

    producer -> CommandTopic -> Aggregate / StateChangeSlice -> EventLog / DcbEventLog
                                                                      |
                          EventTopic (SNS, LocalBus) <----------------+------> change feeds
                                 |                                              (Postgres)
                          EventCollector
                                 |
      ReadModel / StateViewSlice / EventMapper / AutomationSlice / TranslationSlice / ...

Commands are delivered at least once, decided on the state folded from the event log, and the
decision is stored by a *conditional append*: the storage refuses it if an event relevant to the
decision was stored since it was read (optimistic concurrency control). Events reach projections
through a bus that is not transactional with the log, so every platform also has a way to find
events that were stored and not delivered (redelivery, change feeds, catch-up).

### 1.2 Components

| Component (code) | State it keeps | Operations | What is hard | What makes it correct |
|---|---|---|---|---|
| Aggregate (`core/.../Aggregate/Aggregate_Callback.res`) | stream of one id; replay cache of each container; keep-one snapshot | handle a batch: group by id, read cache/snapshot/stream, decide, append, retry, report, delete | stale caches shared by concurrent invocations; redelivered stable commands; lost answers; out-of-order snapshot writes | events are decided on exactly the events before them; stable commands take effect once; accepted is durable |
| StateChangeSlice (`core/.../StateChangeSlice/StateChangeSlice_Callback.res`) | global DCB log; decision-state cache of each container | handle one command: query, delta read, decide, seal, append under the query, retry, publish | the query, not a stream, is the consistency boundary; eventually consistent reads; undecodable events move the head and not the state | as above with "events its query selects" |
| DCB queries (`spec/.../DcbTag.res`) | none | build a query from a command, narrow its types, match an event | what an empty type list means differs per storage | narrowing changes no result |
| Postgres DCB log (`postgres/src/PgSchema.res`, `DcbEventLogStorage_Postgres_Ops.res`) | `dcb_event`, `dcb_scope`, transactions | `readStream`, `dcb_append` with advisory or row locks | write skew, deadlock, transaction ids taken before commit | nothing slips in between check and commit; the order readers see is the order of decisions |
| Postgres change feeds (`PgChangeFeed.res`, `EventLogChangeFeed.res`) | checkpoint of each subscriber | drain in pages behind `pg_snapshot_xmin`, handle, save the cursor | commits out of id order, overlapping relays, dying relays | no event is skipped, each one is handled eventually |
| DynamoDB DCB log (`aws/.../DcbEventLogStorage_DynamoDb_Runtime.res`) | items, a fence per tag (or composite partition) and event type | read clause by clause and merge; one transaction that puts events, sets and tests fences | positions from the writers' clocks; reads that lag each on its own; fences bumped without a test | what a decision missed is refused, unless it lies behind the decision's head |
| DynamoDB, SQLite, Postgres and in-memory aggregate logs | tables | conditional append, read | per-storage consistency | an append is atomic and refused when the condition fails |
| EventLog operations (`EventLog_Operations.res`, `DcbEventLog_Operations.res`) | none | append with storage retries, publish, hooks | append stored with the answer lost; publish fails after the append | what failed is reported as failed, what was accepted is stored |
| SQS command delivery (`aws/.../CommandTopicChannel_SQS*.res`) | messages, receive counts | deliver, delete, dead-letter | at-least-once delivery; receipt handles zipped with decoded commands | a message is deleted only after an outcome |
| Local projection checkpoints (`local/.../ProjectionCheckpoint.res`, `ProjectionPending.res`) | pending positions; `projection_checkpoint` rows | track, resolve, advance every checkpoint, catch up at start-up | checkpoints moved by axis, publishes out of order, catch-up beside a live session | a checkpoint covers only what its read model has |
| LocalBus (`local/.../LocalBus.res`) | subscriptions and queues | publish with a countdown of the subscribers | a subscriber that dies leaves its count | every publish ends |
| Inline dispatch (`core/.../CommandTopic/CommandTopic_Helpers.res`) | two module-level references | dispatch a command, hear its outcome | the references belong to the module, calls overlap | a caller is told what its handler did |
| ReadModel, StateViewSlice (`core/src/Projection.res` and callbacks), QueryDb | rows of views | project events to row actions, merge those of a batch, load and save | redelivery, cuts of batches, sources that share a row, storage errors that are dropped | a view is what its events make of it once, in order |
| AutomationSlice (`core/.../AutomationSlice_Callback.res`, `aws/.../AutomationSliceEntryPoint_Ops.res`) | TODO list of each process or container; its table | collect and resolve items, pass over the list, retry, abandon, announce | the list is cached per container and saved whole; timeouts race answers; containers are recycled | an item is sent within its budget, ends, and is not given up in silence |
| Outbound-/InboundTranslationSlice | todo rows, external calls | call external systems | retries, partial success | each item ends |
| EventMapper, Extension, ExtensionPoint, SideEffectHandler, Task, Counter, Heartbeat, Scheduler, Cloner | little or none | one adapter call per event | redelivery | idempotent per event |
| Plugin connection and lifecycle | deployed versions and status | connect, upgrade, retire | upgrades in flight | `PluginDecision` refuses illegal transitions |
| Api, GraphQL, MCP, Auth, Identity, Upload, Pii, Geocoder, Monitoring | requests, keys | translate requests, seal fields | I/O failures | out of scope here except as failures |
| Local runtime services | rings of the feeds, subscriptions, idle exit | developer server | back-pressure | planned |
| Codecs, test kits, seeding, build tools, examples | none | – | – | not part of the running system |

`PROJECT.json` lists them with their files and status, and under `hazards` every hard spot with
its line and the properties that watch it.

### 1.3 How the modelled parts interact

* A command queue delivers to **Aggregate** or **StateChangeSlice** invocations; these call the
  event log's append, then its publish, then report and delete. The module of each handler holds
  the queue, the log, the publish and the failure of each call, because the properties relate
  them.
* **StateChangeSlice** takes the log as atomic. **DcbPostgres** opens that step up: statements,
  transactions, locks and the fence of reads. Both state the same property
  (`DecidedOnItsPast`); the lower one finds where the atomic view is not what Postgres gives.
* **PgLog** is the table and transaction part that DcbPostgres and **PgChangeFeed** share
  through EXTENDS.
* **ProjectionCheckpoint** composes the local log's tracking of appends, the publish of the
  operations, LocalBus, the collector's drain fibers and the start-up catch-up.
* **ConditionalAppend** is what both handlers rely on, as one atomic step. **DcbPostgres** is
  shown to implement it (run `pg_append_advisory`, property `KeepsContract`; theorem
  `ImplementsContract`). **DcbDynamo** does not: its property says exactly what gets by.
* **AutomationSlice** and **ViewProjection** take the delivery of events as given, at least once:
  the former in any order, the latter in the order of each source. What a local session does
  with an event whose handler threw is ProjectionCheckpoint's.
* **InlineDispatch** is the path of an outcome back to a synchronous caller.

## 2. Plan

Order: what decides whether stored data is right comes first, then what decides whether it is
delivered, then what is built on delivery.

| # | Module | Composes | Abstract specification / main properties | State |
|---|---|---|---|---|
| 1 | `Aggregate` | queue + cache + snapshot + log | serial stream, stable commands once, durability, every command settled | done, proved |
| 2 | `DcbQuery` | – | narrowing is dead-clause removal | done, proved |
| 3 | `StateChangeSlice` | queue + cache + DCB log | serial log per query, replica lag heals | done, proved |
| 4 | `PgLog`, `PgChangeFeed` | feed over transactions | fenced prefix grows, nothing skipped | done, proved |
| 5 | `DcbPostgres` | `PgLog` + locks | nothing slips in, order of log = order of decisions, no circular wait | done, proved |
| 6 | `ProjectionCheckpoint` | log + bus + catch-up | honest checkpoints, publishes end | done, proved |
| 7 | `InlineDispatch` | – | true answers | done, proved |
| 8 | `ConditionalAppend` | – | contract of a DCB log; `DcbPostgres` under advisory locks refines it | done, by TLC and by proof |
| 9 | `DcbDynamo` | `DcbQuery` + fences + clocks + per-clause reads | what an append may miss; refusals heal | done, proved |
| 10 | `AutomationSlice` | list + table + containers + target | budget, no silent abandonment, every item ends | done, proved |
| 11 | `ViewProjection` | batches + merging + row store | merging loses nothing, views converge | done, proved for rows of one source and rows filled in by several |
| 12 | `DcbMemoryLog` | tag index of the in-memory log over `DcbQuery` | index lookup selects what matching selects | left |
| 13 | `SqsChannel` | receipts, FIFO groups, partial batch failures | only handled messages are deleted | left |
| 14 | `OutboundTranslation`, scheduled automation slices | todo rows, ticks of a platform schedule | each item ends, a tick is taken once | left |
| 15 | `LocalBus`, `LocalFeed`, `PgProjectionCatchup` | command channels, bounded queues, rings | no lost wake-up, gaps are reported | left |
| 16 | `PluginDecision` | decide function of the lifecycle | no illegal transition | left |

"Proved" is said of safety: liveness is checked by TLC throughout (section 7). The theorems about
`InlineDispatch` are kept in `StateChangeSlice_proofs`, whose handler is one of those it runs.

## 3. The modules and the code

Conventions. One action per asynchronous step: from one await of the code to the next, all it
assigns is one action, since JavaScript runs that without interleaving. A *container* is a
process (Lambda container or local server) and owns its caches; several *handlers* (invocations)
may share one. Payloads are model values. `decide` is a CONSTANT operator, so that nothing
depends on a business rule. The names of variables, states and actions are those of the code
where TLA+ allows. Definitions named `Mutant_…` are plausible errors of the definition below
them; each property is checked to fail under one of them, so that no property holds by the
shape of the model.

### `Aggregate` (`Aggregate_Callback.res`, `EventLog_Operations.res`, `CommandTopicChannel_SQS*`)

State folded by `evolve` is represented by the history it was folded from: every `evolve`
factors through it.

| Model | Code |
|---|---|
| `log` | the stream of one aggregate id; position = sequence number |
| `cache[container]` | `replayCache`, an LRU whose eviction is `Evict` |
| `snapshot`, `snapWrites` | keep-one snapshot and its fire-and-forget writes: `SnapshotLands`, `SnapshotWriteLost` |
| `queue`, `received`, `dead` | SQS: messages not deleted, receive counts, dead letter queue |
| `pc`, `batch`, `base`, `seqNr`, `causes`, `outcomes`, `toAppend`, `retries` | the locals of one invocation of `handleCommands` |
| `Deliver` | a batch arrives, possibly with a command twice, up to `MaxReceive` times each |
| reading actions | `replayProcessAppend`: cache, else snapshot and delta, with the causation scan when the batch holds a stable command |
| `ProcessCommand` and kin | `processCommand`: repeated, rejected or decided on the state after the batch's own events |
| append actions | the conditional append: stored, conflict (retry up to `MaxConflictRetries`, cache dropped), stored with the answer lost, not stored |
| publish, report and delete actions | `EventLog_Operations.append`, `reportFinalOutcomes`, per-reference answers, deletion of messages |
| `Restart` | the container goes away with its cache and invocations |

### `DcbQuery` (`DcbTag.res`)

Pure operators: an event matches a clause by types and tags, a query by any clause;
`NarrowEventTypes` is `narrowEventTypesForTags`. What a storage makes of an empty type list is the
constant `EmptyTypesMatchAny`, TRUE for SQLite, Postgres and DynamoDB, FALSE for the in-memory log.

### `StateChangeSlice` (`StateChangeSlice_Callback.res`, `DcbEventLog_Operations.res`)

As `Aggregate`, with one command per invocation, a log shared by all slices, and per command the
set of events its query selects. `model` is the state as the set of positions folded in; `head`
is `headPosition`. A read may be eventually consistent (any prefix) or strong
(`ReadConsistency`: the code's modes, with escalation on a retry). An event the slice's schema
does not decode moves the head and not the model. The cache is keyed by slice and query and not
used for stable commands. Failures: read, seal of a personal field, append (stored or not),
publish, delete.

### `PgLog`, `PgChangeFeed`, `DcbPostgres` (`postgres/src`)

`PgLog`: transactions take an id at their first write, insert rows with positions from the
IDENTITY sequence, and commit or roll back in any order. `Visible` is what a READ COMMITTED
statement sees; `Fenced` what reads with `transaction_id < pg_snapshot_xmin` return.
`PgChangeFeed`: drains (scheduled relays, which may overlap) read the checkpoint, a page after
it, hand it over and upsert the cursor. `DcbPostgres`: a writer reads, decides, takes the lock
of each tag key (advisory locks by hash; or `INSERT … ON CONFLICT` and `FOR UPDATE` on
`dcb_scope`), checks the condition unfenced, inserts and commits; a conflict rolls back and
retries. `Hash` may collide. `OtherBegins`/`OtherEnds` is any other transaction of the database.

### `ConditionalAppend`

An abstract log: `Read` adds any events of those a writer's condition asks for, `Append` stores
its events in one step if nothing asked for is unread, `Fail` gives up. Places in the log are
whatever the implementation takes for positions. `DcbPostgres` maps its table, its writers' reads
and their outcome to it.

### `DcbDynamo` (`aws/src/adapter/DcbEventLog/…`)

| Model | Code |
|---|---|
| `base`, `ticks`, `Skew` | `generatePosition`: clock readings of the writer's container, off by at most `Skew`; the events of a batch follow on |
| `order` | which append each was in fact, which no reader sees |
| `fence[f, type]` | the item of `fenceKey` (one per tag) or of `makeCompositeFenceTag` (one per composite partition), attribute `pos#<type>` |
| `ReadClause`, `ReadBreaksOff` | `readStream`: each clause at a moment of its own; partition reads lag unless strong, index reads always may; `startProducer` ends a stream that failed as if it were complete |
| `TakePosition`, `CommitAppend`, `Conflict` | `appendConditional`, `appendUnconditional`: `Guarded`, `Tests` and `Sets` are the items of the one transaction |
| `AppendUnsupported`, `AppendFails` | more items than `Limit`; transient and permanent errors |

One fact of the code is a constant here, as in `DcbQuery`: an empty type list matches any type.
`Behind` a head means a smaller position, whatever was stored first.

### `AutomationSlice` (`core/…/AutomationSlice_Callback.res`, `aws/…/AutomationSliceEntryPoint_Ops.res`)

| Model | Code |
|---|---|
| `todoItems[d]` | the dictionary of a process (`Detached`, local) or of each Lambda container (`Restores`) |
| `table` | the table of the TODO list's view, which `syncToQueryDb` and `makeSyncTodoItems` write whole |
| `Begin`, `Load` | an event or the sweep starts a pass; `makeLoadTodoItems` reads the table once and only rows that are Pending or Failed |
| `Route`, `Save` | `phase1`: `apply` collects and resolves; the list is saved |
| `Settle`, `Work`, `Publish`, `Announce`, `Finish` | `phase2`: overdue Processing rows count a failed attempt; each actionable item is opened and processed; one publish for all commands, which fails as one; abandoned items are announced; the list is saved |
| `Crash`, `Recycle` | a container or process dies, in a pass too; Lambda ends a container between passes (`Lose` is what both come to) |
| `Answer`, `Deliver` | the target emits the event that resolves an item; the stream brings it, to any container, until it is acknowledged |
| `outcomesOf` | what `openRow` and `process` come to for an item |

Time is not modelled: a row is overdue whenever `Settle` says so. Schedules (`makeScheduleStore`,
ticks) are left out.

### `ViewProjection` (`core/src/Projection.res`, `ReadModel_Callback.res`, `StateViewSlice_Callback.res`)

A view is the list of the actions its projection makes of each source's events, so that every
projection is one of the initial states. `Applied` is `applyAction` on one row; an update is two
steps, `LoadRow` and `SaveRow`. `Merge` is `mergeActions`, and `Optimize` one step of the fold
`optimizeSourced`, which `Optimized` is; `RowAfter` is the row after each action of a sequence.
Both folds are functions of the number of actions done. A source's events may be any sequence of
actions.
A view that merges (in process) works on its rows at once and throws when the last action of one
failed; one that does not (read models, and state views on AWS) applies its actions in turn and
drops their results. An update sets fields: a projection that counts is not idempotent, which
redelivery breaks by itself. `raced` and `failed` name the rows that two sources or the storage
have spoilt. Rows of several states (`UpdateMultiState`), the actions `applyAction` refuses as
unsupported, and reports of changes are left out.

### `ProjectionCheckpoint` (`local/…`)

`rows`/`seeded` are the log; `unsent`, `publishing`, `queue`, `subscribed`, `lost` are the
publish countdown of LocalBus and the collector's drains; `pending` is `ProjectionPending`;
`checkpoint` the table; `phase`, `due`, `slot`, `at` the catch-up fiber. An axis is one log
(aggregate or DCB), a slot one projection's position on one axis.
Simplifications: one topic for each log, to which every projection subscribes; a handler's
effect and the `done_` after it are one step; `handled` says that the handler returned, not what
its store did; the order in which a projection gets its events is not tracked; rows written to
the aggregate log by `appendStream` are bulk imports, tracked nowhere, as in the code.
`disturbed` names what has put checkpoints in doubt, one name for each divergence of section 5:
`HonestUndisturbed` says there is no fifth way.

### `InlineDispatch` (`CommandTopic_Helpers.res`, `CommandGenerator_Callback.res`)

The two references (outcome, generated id) are set and cleared together and are one variable,
`channel`. A call carries one command (`CommandGenerator_Callback.res:254`). An access refusal
travels as a rejection does. A Lambda container has `MaxRunning = 1`, the local server more.
The definitions that other modules also have carry the module's name (`InlineNext`, `InlineSpec`).

## 4. The runs

All passing runs explore the whole state space of their bounds. `CHECK_DEADLOCK FALSE`
everywhere: these systems stop when every command is settled and every bound is used up.
`IndInv` (`InlineIndInv`) is the inductive invariant of a module's proof, or what of it is worth
reading: the proof may add typing facts. TLC sees it before the prover does.

| Run | Asks | Answer |
|---|---|---|
| `aggregate_batches` | Do two invocations of one container, with its cache, a snapshot, batches, redelivery and a failure, keep the stream a serial execution and stable commands single? | yes |
| `aggregate_faults` | With two containers: is accepted durable and published, is nothing deleted without an outcome, does everything end? | yes |
| `slice` | The same questions for a DCB slice over lagging reads with two failures; and does a retry that reads strongly heal a lag? | yes |
| `pg_feed` | Do overlapping, dying drains over transactions that commit in any order skip an event, or leave one unhandled for ever? | no |
| `pg_append_advisory` | Under advisory locks, does an event slip in between a check and its commit; is the order readers see the order of decisions; is the whole one atomic conditional append? | no; yes; yes |
| `pg_append_rows` | Under row locks, do writers wait for one another in a circle; does every append end? | no; yes |
| `dynamo_fences` | What may a DynamoDB append miss of what its fences keep; is a strong retry refused without cause? | what lies behind its head, or by a fence set back; no |
| `checkpoint` | Does a checkpoint cover an event its read model lacks, other than by the four named ways; are missed events replayed; does a publish end unless a handler threw? | no; yes; yes |
| `inline_local` | Is a caller ever told another call's outcome? | no; the one false answer is an acceptance without events |
| `automation` | Two containers and a failure: is an item sent too often, given up in silence, reopened, or left for ever? | no, save that a row may be stranded |
| `automation_stranded` | Does every item end? | no |
| `views` | Do batches, cut, merged, broken off and delivered again, leave the rows their events make once? | yes, save rows the storage failed on or two sources raced for |

The `slice` run leaves out what the proofs of `StateChangeSlice_proofs` hold for in general
(more slices and commands); it is there for liveness and the mutants.

### Bounds, and why they are enough

| Bound | Code | Runs | Why |
|---|---|---|---|
| conflict retries (`MaxConflictRetries`, `MaxRetries`) | 3 | 1 | a retry differs from the first attempt (cache dropped, strong read), a second retry not from the first; exhaustion is reached |
| deliveries (`MaxReceive`) | 5 | 2 | a second delivery meets all that a later one does; dead-lettering is reached |
| invocations | any | 2 | each property is violated, if at all, by one invocation and what happens meanwhile; more are more of the latter, which a second delivers step by step |
| containers | any | 1 or 2 | one: a shared cache; two: a stale one |
| batch (`MaxBatch`) | 10 by default | 2 | repeat within a batch, rejected beside accepted, no-op beside events |
| failures (`MaxFaults`, `MaxThrows`) | any | 1, 2 in `slice` | every single failure in every place; two so that both deliveries of a command may fail; the proofs hold for any number |
| snapshot interval | any | 2 (0: none) | batches that land on a multiple and step over it |
| transactions and rows (`MaxXid`, `MaxRows`) | any | 3 and 3 | a late commit before, between and after those read |
| page (`PageSize`) | 500 | 1 or 2 | pages that are full, partial and empty, and split a transaction |
| drains | any | 2 | overlap is pairwise: the checkpoint is one row |
| writers | any | 3 or 4 | two keys locked by two writers, one that waits, one unconditional |
| rows of a local log, events of an append | any | 1 and 2, 2 | publishes out of order, a batch, an event on either side of the session's start |
| restarts (`MaxCrashes`) | any | 1 | a session before and one after; what a session finds is only what is stored |
| clock skew (`Skew`), `Width` | any; a counter per millisecond | 1 and 3 | a clock before, at and after another's; a batch's positions do not overlap the next reading's |
| items of a transaction (`Limit`) | 100 | 5 | one import is too large |
| work items | any | 1 (2 by hand) | rows meet in one publish only, which `MCAutomationSlice_batch.cfg` has two of |
| tries (`MaxTries`) | 3 by default | 2 | a first failure leaves Failed, the second Abandoned |
| events of a view, batch (`MaxBatch`) | any | 3 and 3 | every chain of three actions, merged two and one, one and two, or all; rows are independent |
| calls (`MaxRunning`) | any | 3 | one that sets the references, one that takes them over, one that clears them |

### Beyond the runs

Further configurations are kept for use by hand. `MCAutomationSlice_batch.cfg` (two items of one
container, two failures; holds, 15 million states, a few minutes) is the one that passes;
the others are the reproductions of section 5.

## 5. Where code and documentation disagree

Shown by a run of `PROJECT.json`:

* `automation_stranded` (`EveryItemEnds`): `AutomationSlice_Callback.res:472-474` says that a command
  "published but never answered" counts as a failed attempt after the timeout "so this pass sends
  it again while the budget lasts". The pass looks at its container's list, and a new container
  restores Pending and Failed rows only (`AutomationSliceEntryPoint_Ops.res:246`): a row left
  Processing by a recycled container is looked at by nobody.

Reproduced by configurations to run with the module named like the part before the underscore;
each ends in a counterexample. The passing runs exclude them by name where they matter
(`stranded`, `raced`, `failed`, `SetBack`, `disturbed`, `Tagged`, `OnlyLossMisleads`).

* `MCDcbQuery_empty_types.cfg`: `spec/.../DcbTag.res:954` calls narrowing "pure dead-clause removal …
  results are unchanged". It may leave an empty type list, which SQLite, Postgres and DynamoDB
  read as no type constraint.
* `MCDcbPostgres_rows_order.cfg`: `PgSchema.res:94` says "read → decide → conditional-append is exact".
  Under row locks the transaction id is taken at the first lock: a writer that waits for a later
  lock is ordered before the event it waited for.
* `MCDcbPostgres_untagged.cfg` (`NoneSlipsIn`): a clause with types and no tags takes no lock
  (`PgSchema.res:193`; 215-217: "READ COMMITTED is race-free here").
* `MCDcbPostgres_fence_lag.cfg` (`LagSelfHeals`): a committed event above the fence conflicts
  with every retry and is shown to none (`DcbEventLogStorage_Postgres_Ops.res:390`;
  `StateChangeSlice_Callback.res:407`: "a replica-lag conflict self-heals").
* `MCDcbDynamo_import.cfg` (`ImportsAreSeen`): with a composite partition an unconditional append
  bumps the fences of the tags and not the composite one
  (`DcbEventLogStorage_DynamoDb_Runtime.res:951`; 945-946: "concurrent conditional writers cannot
  miss this commit").
* `MCAggregate_stale_rejection.cfg` (`RejectionSeesAccepted`): a rejection or no-op decided on a
  stale cache entry reaches no append condition and is final
  (`Aggregate_Callback.res:539`; its header, 10-12: the cache is "a pure read optimization").
* `MCStateChangeSlice_stale_read.cfg` (`RejectionSeesStored`): the same for a lagging read
  (`StateChangeSlice_Callback.res:676`; 401-405: "correctness is identical in every mode").
* `MCAggregate_noop_count.cfg` (`NoOpReportsZero`): a no-op in a batch is reported with the
  batch's event count (`Aggregate_Callback.res:484`;
  `packages/doc/docs-app/components/aggregate.md:241`).
* `MCProjectionCheckpoint_overtaken.cfg`: the watermark is the "highest position provably fully
  projected" (`ProjectionCheckpoint.res:95`), and a publish that completes before the catch-up has
  come to a projection lifts its checkpoint over events it missed.
* `MCProjectionCheckpoint_hang.cfg`: `done_` "is run explicitly after each handler call to unblock
  publishEvent" (`LocalEventCollectorChannel.res:68`), and is not when the handler rejects: the
  publish waits for ever.
* `MCInlineDispatch_local_answers.cfg` (`AnswersAreTrue`): of two calls that overlap, one's
  rejection is heard by nobody and answered as accepted (`CommandTopic_Helpers.res:317-325`).
* `MCAutomationSlice_deaf.cfg` (`AnswerIsHeard`): the answer is delivered to a container that does
  not hold the row, and the one that does gives the item up.
* `MCAutomationSlice_inprocess.cfg` (`CompletedStays`): two passes of one process overlap, and the
  one whose publish failed puts its captured copy over a row completed meanwhile.
* `MCViewProjection_sources.cfg` (`SourcesMerge`): two sources load a row at once and one saves it
  over the other's change (`packages/doc/docs-app/multi-source-readmodel.md:85`: one record for
  both).
* `MCViewProjection_swallowed.cfg` (`FailuresAreNotAcked`): of a row's actions only the last one's
  error counts (`Projection.res:735`: "FIXME: handle errors!").

## 6. Fairness

| Specification | Assumed | Justified by |
|---|---|---|
| `Aggregate`, `StateChangeSlice` | weak fairness of each invocation's `Work` | an invocation runs until it returns or its container goes away (`Restart`, which is not fair); every awaited call answers or fails |
| | strong fairness of each command's delivery | the queue makes a message visible again after its visibility timeout (180 s), whatever else it delivers; strong because a message in flight is not deliverable |
| | weak fairness of `DeadLetter` | SQS moves a message past `maxReceiveCount` |
| `PgChangeFeed` | weak fairness of each drain's work, of commits of running transactions | the relay is scheduled again and again; a Lambda's connection, and its transaction, end at its timeout |
| `DcbPostgres` | weak fairness of each writer's next step, of the end of other transactions | a lock is granted when it is free, which Postgres does; whether it gets free is `NoCircularWait`, which needs no fairness |
| `AutomationSlice` (`FairSpec`) | weak fairness of a pass's steps, and of the sweep starting in some container | an invocation runs to its end or its container goes; one EventBridge rule invokes one Lambda every five minutes (`makeSweepSchedule`, `AutomationSliceRuntime_Builder_Single.res:202-261`), and each tick reaches whatever container the platform picks |
| | strong fairness of each container's `Recycle` | Lambda ends its execution environments after some hours, also those it invokes without a break; strong because a container is swept now and then |
| `AutomationSlice` (`KindSpec`, for `automation_stranded` only) | besides, strong fairness of each event's delivery, of the sweep of every container and of counting every overdue row | more than the code guarantees, so that the counterexample does not hang on it |
| `ProjectionCheckpoint` | weak fairness of handlers, publishes, hooks and the catch-up | the event loop runs every settled promise and runnable fiber; a handler that never answers is not modelled |

Failures, crashes, evictions, conflicts and throws are never fair: nothing holds because of
them. The one fair restart is `Recycle`: a container that is not swept, or has loaded its list
before a row was stored, keeps that row waiting for as long as it lives. `InlineDispatch`, `DcbQuery`, `DcbDynamo` and
`ViewProjection` have safety properties only.

## 7. What is proved

For every value of the constants that satisfies the named assumptions, with `tlapm`:

| Module | Theorems |
|---|---|
| `Aggregate_proofs` | `TypeCorrect`, `StreamIsSerial`, `MemosAreOldStates`, `StableCommandsOnce`, `WorkIsSound`, `AcceptedStays`, `DeletedWasAnswered` |
| `StateChangeSlice_proofs` | `TypeCorrect`, `LogIsSerial`, `CachesAreOldStates`, `StableCommandsOnce`, `AcceptedStored`, `WorkIsSound`, `LagHeals`; of `InlineDispatch`: `InlineInvHolds`, `OnlyLossMisleadsHolds` |
| `PgChangeFeed_proofs` | `TypeCorrect`, `FeedIsSettled`, `NoEventSkipped`, `ReadersCursorsStable`; of `PgLog`: `FencedRowsStay` |
| `DcbPostgres_proofs` | `TypeCorrect`, `AppendInvariant`, `NothingSlipsIn`, `LogOrderIsDecisionOrder`, `LocksAreOrdered`, `ImplementsContract` |
| `DcbDynamo_proofs` | `FencesAreKept`, `NothingFencedIsMissed`, `RetriesHeal`; of `DcbQuery`: `NarrowingLosesNothing`, `NarrowingIsDeadClauseRemoval` |
| `ProjectionCheckpoint_proofs` | `TypeCorrect`, `SessionAccounts`, `CheckpointsAreHonest` |
| `AutomationSlice_proofs` | `ListIsSound`, `BudgetIsKept`, `NoneGivenUpInSilence`, `CompletedIsFinal` |
| `ViewProjection_proofs` | `MergeKeepsEffect`, `OptimizedKeepsEffect`, `MergingAgreesHolds`, `OwnRowsDoNotRace`, `OwnRowsConverge`, `ViewsOfOwnRowsConverge`, `SharedRowsConverge`, `WellWrittenViewsConverge` |

The lemmas on `PgLog` that two modules need (`DatabaseStep`, `SettledStays`, `PageEndsSettled`) are
proved in both.

Assumptions on the constants, each named in the module that declares the constant:
`HandlersHaveHomes`, `StableAreCommands`, `BoundsAreNaturals`, `RejectedIsNoEvents`
(`Aggregate`); `SlicesHandleCommands`, `RejectedIsNoEvents`, `BoundsAreNaturals`
(`StateChangeSlice`); `TagKeysPerType`, `EmptyTypesIsBoolean` (`DcbQuery`); `PageSizePositive`
(`PgLog`); `BoundsAreNaturals` (`PgChangeFeed`); `WritersAppend`, `HashIsNumber`,
`StrategyKnown`, `BoundsAreNaturals` (`DcbPostgres`); `WritersAppend`, `FiledByOneKey`,
`BoundsAreNaturals` (`DcbDynamo`); `BoundsAreNaturals`, `AxesAreTheLogs`, `RankIsAnOrder`
(`ProjectionCheckpoint`); `AutomationAssumption` (`AutomationSlice`); `ProjectionAssumption`
(`ViewProjection`); `MaxRunningPositive`, `MaxEventsIsNatural`, `NobodyCalls`
(`InlineDispatch`). TLC evaluates them in the runs. None restricts `decide`, the queries, the hash
or the number of anything. Some theorems have a hypothesis of their own, and section 5 has the
configuration that shows what happens without it:

* `NothingSlipsIn`, `LogOrderIsDecisionOrder` and `ImplementsContract`: every clause of a condition
  has a tag (`Tagged`); the second also that locks are advisory;
* `NarrowingIsDeadClauseRemoval`: the storage matches nothing by an empty type list;
* those of `AutomationSlice_proofs`: a container makes one pass at a time (`OnePassEach`), which is
  how a Lambda works. In one process passes overlap, and there `CompletedStays` is false;
* `WellWrittenViewsConverge`: each row is written by one source (`OwnRow`), or, in a view that does
  not merge, filled in by several (`FilledIn`): each updates fields of its own, with or without a
  default, and a default is one blank row, the same for all, with the update already made. Both
  are what the guide to read models of several sources describes
  (`packages/doc/docs-app/multi-source-readmodel.md`), and every view of the run is of this kind.
  Two sources that set or delete the same row leave it to the last writer, and nothing is claimed
  of it. That events are `IsOrderly` and that a row has not `failed` is part of `ViewsConverge`
  itself; so is `raced`, which `OwnRowsConverge` shows to be no exception for rows of one source.

Arguments:

* **Aggregate.** `DecidedOnItsPast` alone is not inductive: an append is right because of what
  its invocation holds. `WorkInv` says that: it decides from a prefix of the stream and knows
  its length, its own events are justified by that prefix, and if its batch holds a stable
  command it knows every stable command that caused events in the prefix. An append whose
  condition holds has the whole stream as its prefix. Caches and the snapshot are prefixes
  (`MemosArePrefixes`), whatever order writes of them land in, and the stream only grows, so a
  stale memo is still a prefix. `SafeInv` is the conjunction; `HandlerStays` carries what an
  invocation holds over every other step. For `AcceptedStays` an invocation's outcomes are
  *credits* (`Credits`): what it will report of a command is no more than the events of that
  command between the end of the stream it read and the end of what it decided, so the append
  turns a credit into entries of the stream (`OwnIn`), which stay where they are (`Kept`).
  `DeletedWasAnswered` rests on what an invocation holds to be settled having been answered
  (`DeleteInv`), because the report comes before the deletion.
* **StateChangeSlice.** The same shape with the set of positions a query selects in place of a
  prefix: `model` is what the command's query selects and decodes up to `head`; the append
  condition finds nothing selected behind `head`; so the model is that of the whole log
  (`ModelIsCurrent`). An undecodable event moves the head and is not in the model on either
  side. A stable command is not seeded from the cache, so its read starts before its own events.
* **Queries.** Narrowing keeps every type that can carry one of the clause's tags
  (`CarriersAreKept`), and an event is encoded with tags its type carries.
* **Postgres.** A cursor that is settled (below every transaction that may still commit) stays
  so, rows below it stay, and the cursor of a page read behind the fence is settled
  (`SettledStays`, `PageEndsSettled`). For feeds `FeedInv` adds that what lies up to each cursor is
  handled or in hand. For appends `AppendInv` says who holds which lock, that an uncommitted row belongs to a
  writer about to commit, and that what the check found stays so until the commit: a rival's
  events share a tag with the condition, so it needs the same key (`MatchesShareKey`, `NoRival`).
  `LogOrderIsDecisionOrder` needs advisory locks, which are taken before the transaction id.
  `LocksAreOrdered` holds under either strategy, though with row locks a writer goes over its keys
  twice, inserting them into `dcb_scope` and then locking them, and a key it inserted is locked by
  that: it may hold a high key while it asks for a low one. What it may hold so is a key nobody
  else can see yet (`KeysInOrder`), for which only writers that insert wait. So of two writers
  that wait, the one waited for locks while the other inserts, or both do the same and it asks
  for a higher key (`WaitsAhead`); that is a strict order, and a finite set has a member it puts
  nothing above (`Greatest`, `NoCircle`).
* **DynamoDB.** `MissesOnlyBehind` speaks of the appends a writer's condition asks for, the fences
  of the fewer items its transaction tested. What joins them is `FenceIsShared`: an event a clause
  asks for and the log keeps a fence for sets one of the fences the clause tests. `Fenced` says
  of any two stored appends that share a fence that the later was past the earlier one's batch, or
  past that of an append between them that put the fence back, which is `SetBack`; it holds when
  an append is stored because the fence shows the last append that set it (`FencesAreLastSet`).
  `Healed` says that a strong retry has, of the partitions it has read, all that was stored when
  it began, so a fence above its head was set later or by something it cannot read
  (`RefusalsHeal`, an action property: it follows from the invariant in the state before the
  refusal).
* **Projection checkpoints.** `Honest` is not inductive: a checkpoint is lifted to the watermark,
  so everything below the lowest pending position must be with the read model. `SessionAccounts`
  keeps the account: an event of the session is pending, or with the read model, or behind one
  the projection lost, which stays pending and keeps the watermark down (`AllAccounted`); what a
  batch in publication still has to bring is unsent, owed by a queue, taken or behind a loss
  (`AllCarried`); a projection whose drain died misses only what is behind its loss (`Deaf`); and
  the catch-up has closed the gap from before the session up to where it stands (`CaughtUp`). The
  four disturbances name the steps that may break one of these.
* **Automation slices.** The budget needs the list and the passes together: `TriesCount` bounds the
  publishes of an item in a container's life by the tries of its row, one more while it waits for
  an answer; the row may have been replaced under a pass by none but that pass, so what the pass
  publishes is marked as sent with a try to spare, and what it has left is as it took it
  (`PassHoldsRows`). Where a container dies before a row reaches the table, nothing was shown; a
  row given up in the list only is about to be announced by its pass, which saves after that
  (`GivenUpIsKnown`).
* **Refinement.** `ImplementsContract` maps a commit to `Append`, a page read to `Read`, and every
  other step to a stutter; a commit is an `Append` because nothing relevant is unread when the
  check passed and nothing slipped in since (`NothingSlipsIn`'s invariant).
* **Inline dispatch.** Any call may set or clear the references of another, so nothing about who
  holds them is invariant. What is: a report reaches a call of its own command only
  (`HeardIsTrue`), and an answer is made of what had been reported and of the call's own result
  (`AnswerIsCollected`). An answer that differs from the verdict is then one for which the report
  was lost, and what stands in for it is an acceptance without events.
* **Views.** The folds are functions of a number, so that inductions over them are inductions over
  sets of numbers (`BoundedInduction`, from the library's well-founded orders).
  `MergeKeepsEffect` goes over the pairs of kinds `mergeActions` merges; it is the step by which
  `OptimizedKeepsEffect` has the whole fold keep the effect of a batch, whatever row it finds.
  That views converge is about redelivery: a batch broken off begins again with the row as it was
  left, so the row is ahead of what is being applied, and an old update may even set a field back.
  `Near` says what holds of a row that was once at event `g` and is again at `i`: fields nothing
  from `i` to `g` writes are as they were at `g`, the others will be written again, and a row
  that is going to be set or deleted before `g` may be anything. It is kept by single actions
  (`NearApplied`), by creations that find the row (`NearRefused`) and by a restart
  (`NearRestart`). A merged action `Represents` an interval of events, and what is left of a
  merged batch `Covers` the rest of it, cut somewhere; a creation can only come last there, so one
  that is refused is the error that is seen. `RowStands` puts that together for each row;
  `Holds` says that a source's batch is about rows it writes and that what it loaded of a row of
  its own is what is there, so that such a row never races (`OwnRowsDoNotRace`). At the end `i`
  and `g` are the same and the row is what its events make of it. For rows that are filled in,
  `FieldsNear` says the same of the fields a source owns, with the blank row's value before its
  first event; other sources write none of them and, if they make the row, leave them blank
  (`FieldsOfOthers`). A save over what was not loaded is what puts the row in `raced`.

Only model-checked is liveness (`EveryCommandSettled`, `EveryEventHandled`, `AppendsEnd`,
`MissedEventsReplayed`, `PublishEndsUnlessLost`, `EveryItemEndsUnlessStranded`): TLAPS has no
fairness reasoning here. Every safety property of the passing runs is stated by a theorem, under
the hypotheses above where there are any. What the reproductions of section 5 show is shown by
their counterexamples alone.

No module uses a RECURSIVE operator.

## 8. What is not modelled, and why

* **Pure I/O and translation**: Api, GraphQL, MCP, Auth, uploads, query engines, codecs and
  bindings turn one form into another and keep no protocol state.
* **Translation slices, schedules of automation slices, plugin lifecycle, local services**: left for
  later (section 2).
* **Deployment-time composition, seeding, test kits, examples**: not part of the running system.
* Within modelled parts: the derivation of tags from schemas, sealing of personal fields (only
  its failure), paging of the admin reads, observers of outcomes, logging and metrics. Time is
  not modelled: a timeout is a failure or redelivery that may happen at any moment.
