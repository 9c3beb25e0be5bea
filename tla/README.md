# CNP v1 gateway: TLA+ models and proofs

This directory models the parts of the CNP v1 starter kit whose correctness
depends on the order in which things happen: requests, polls and MQTT messages
that interleave in a gateway, background tasks that read and later write, sliding
windows, anomalies that are detected, queued and healed, restarts, and a migration
that can be killed anywhere.  TLC checks small instances; TLAPS proves the main
invariants for every value of the constants.

## 1. The system

The repository holds several generations of one IoT gateway side by side.  The
canonical one is `gateway/app` (v0.2.0) with `firmware/` as its node; `gateway.py`
with `cnp_node_skeleton.ino` came before it; the operations layer at the root and
`cnp_ops_005_patch_set` are two designs of what comes after.

| Component | State | Operations | Interacts through |
|---|---|---|---|
| Command dispatch (`api/routes.py`, `core/storage.py`, `core/mqtt_client.py`) | `commands` table, requests in progress, the bridge's client | send, publish, poll, result | SQLite rows, `cmd/in`, `cmd/out`, `GET /node/commands` |
| Node registry (`core/registry.py`, `main.py`) | `nodes.status`, `last_seen_utc`, the watcher's task | hello, heartbeat, state, scan | SQLite rows |
| HTTP rate limiting (`core/rate_limit.py`) | four dictionaries of deques | `is_allowed`, `retry_after`, `check_node_rate` | called by the middleware and the hello handlers |
| MQTT bridge ingestion (`core/mqtt_client.py`) | connection, message queue, `_rate_states` | `_run`, `_check_rate_limit`, `_record_invalid`, `_ingest` | broker, the handlers of the other parts |
| Event, error and ack storage (`core/storage.py`) | three tables, unique `message_id` | `INSERT OR IGNORE` | both transports |
| Node configuration (`api/routes.py`) | `node_config` | hello's default, PATCH | SQLite rows |
| Queries (`api/routes.py`) | none | summary, alerts, lists | read only |
| Authentication, admin (`core/auth.py`, `api/admin.py`) | `node_secret_hash` | provision, rotate | SQLite rows |
| V1 compatibility (`api/compat.py`) | none of its own | translation of V1 messages | the same tables |
| Firmware node (`firmware/src`) | event queue of 16, identity, configuration | connect, publish, flush, handle command | MQTT |
| V1 node skeleton (`cnp_node_skeleton.ino`) | registration flag, counters, interval | register, heartbeat, event, poll, execute | HTTP |
| V1 gateway (`gateway.py`, `node_registry.sql`) | its own tables with foreign keys | V1 endpoints, watchdog | HTTP |
| Operations layer (`detector.py`, `healer.py`, `api.py`, `db.py`, `__init__.py`) | windows, bounded queue, anomalies, actions, cooldowns | detect, enqueue, heal, acknowledge, resolve, cancel | asyncio queue, SQLite |
| Scores and summaries (`scoring.py`, `summaries.py`, `002_ops_tables.sql`) | heartbeats, daily summaries, scores | score, aggregate every hour, trim | SQLite |
| Migration (`migrate.py`, `003_v1_to_v2_schema.sql`) | the database file, its log, a snapshot | live run, dry run, rollback | files |
| CNP-OPS-005 gateway (`cnp_ops_005_patch_set`) | nodes, heartbeats, fleet events, anomalies, actions | bridge, watcher, analyse, simulate, heal, operate | SQLite, MQTT |
| Root sprint copies (`routes.py`, `mqtt_client.py`, ...), phase snapshots | as the canonical files, which absorbed them | | |

What makes the system hard:

* **Interleaving.**  Every handler is a coroutine that awaits at each database
  statement and each publish; two polls of a node, a result and a poll, a
  heartbeat and the watcher run between each other's statements.
* **Read, then write by key.**  The poll, the watchers, the operations API, the
  healer, hello's configuration and `_persist_if_new` all read a row, await, and
  write without looking again.
* **Delivery.**  QoS 0 loses, QoS 1 repeats, HTTP answers get lost after their
  effect, processes restart between two statements.
* **Time.**  Rolling windows at their boundaries, stamps written by a node's own
  clock, a sleep that is added to a time-out, cooldowns that are read before and
  written after three awaits.
* **Partial failure.**  One of several statements raises: in a scan, in a loop over
  anomalies, in the middle of a migration script.

What makes each part correct:

* dispatch: an update by id never misses its row; a recorded status is one the
  node produced; nothing that ran is offered again; queued commands are picked;
  for a node that polls one request at a time, the command's life is queued -
  handed out - run once - recorded for good;
* registry: a silent node is offline in time; the watcher overwrites nothing it
  has not seen, except a message that raced it;
* limiters: no window over its maximum; `Retry-After` suffices;
* ingestion: no client over its rate; after a breach quarantine for its full time;
* session: no configuration is reset by a race; a hello tells its node what is stored;
  counts are off by no more than what changed meanwhile;
* first gateway: commands run at most once; only silence overrules what a node reported;
* operations: one action for each anomaly, none forgotten, cooldowns hold, and only
  a race overwrites what an operator or the healer wrote;
* scores: bad news does not improve them, up to the number of anomalies a score reads;
  summaries shrink only by trimming;
* migration: all of the script or only the definitions before its first backfill;
  dry runs write nothing, rollbacks restore.

## 2. Modules

| Module | Models | Proofs |
|---|---|---|
| `CommandDispatch` | operator's request, publish, polls, results, both kinds of node | `CommandDispatchProofs` |
| `CommandLifecycle` | what a `commands` table promises about one command | refined by `CommandDispatch` and by `V1System` |
| `NodeRegistry` | messages, table and offline watcher | `NodeRegistryProofs` |
| `HttpRateLimit` | the four limiters, the middleware, the hello handlers | `NodeEndpointProofs` |
| `MqttIngest` | the bridge's reading task, rate limit, quarantine | `MqttIngestProofs` |
| `NodeSession` | firmware queue and stored messages, configuration, status, summary | `NodeEndpointProofs` |
| `V1System` | the first gateway composed with its node | `V1SystemProofs` |
| `OpsPipeline` | detector, anomaly queue, healer, operations API | `OpsPipelineProofs` |
| `FleetHealth` | scores, daily aggregation, trimming of heartbeats | `DatabaseProofs` |
| `Ops005` | bridge, watcher, evaluations, healing and operators of CNP-OPS-005 | `Ops005Proofs` |
| `Migration` | `migrate.py`, its files, and the V1 gateway around it | `DatabaseProofs` |
| `MC*` | the small instances of each | |

`V1System` is a composition: node and gateway with the requests between them in one
state.  `CommandDispatch` and `NodeSession` compose handlers of the gateway with
the part of the node that answers them.  The two refine the same abstract
specification, `CommandLifecycle`, with the words 'pending' and 'queued' swapped,
because the two generations of the gateway use them the other way round.

Two modules of proofs are about two components each: `NodeEndpointProofs` about what a
node's request meets at the gateway, first the limiters and then the handlers, and
`DatabaseProofs` about the first gateway's database, which `migrate.py` converts and
the operations layer scores.  Both extend both components, so the definitions that every
specification has are called `LimitersTypeOK`, `LimitersInit`, ... in `HttpRateLimit`
and `FleetTypeOK`, `FleetInit`, ... in `FleetHealth`.

An operator whose comment starts with "A bug:" is a wrong version of the definition
that follows it.  It is used nowhere in the specification; it is there to show that
a property would notice.

### CommandDispatch

`row`, `issued`, `known` are columns of the database and survive `Restart`.
`sender[c]` is how far the `POST /nodes/{id}/commands` of command `c` has come:
`SendCommand` is the 404 test and the construction of the payload,
`CreateCommand` the insert, `PublishCommand` the publish and the answer.
`poll[p]` is a poll request: `PollSelect` is the `SELECT ... LIMIT 1`,
`PollMarkPending` the `UPDATE` and its commit, `PollRespond` the answer, which
the node may no longer wait for.  `UpsertCommandResult` is the handler of a
result of either transport.  `OnMqttMessage` and `OnUnparsedMessage` are the
firmware's callback, `HandleCommand` the V1 node's.  `cmdIn`, `results` and
`inbox` are what is on its way; an element of a set may be lost, delivered twice
or overtaken.  `client` is the bridge's `self.client`.

`CommandLifecycle` has two variables, the status and what the node has
produced, and four actions.  `Lifecycle` maps the polled commands' `row` and
`outcomes` to it.

### NodeRegistry

One action per handler (`UpsertNode`, `UpdateHeartbeat`, `HandleState`: each is
one statement and its commit) and two for the watcher, because rows are read in
`Scan` and written in `MarkOffline`.  `heard` is a history variable: when the
gateway last wrote a message of the node, by its own clock.  The gateway stores
whatever `ts_utc` a message has, so any message may carry any of `Stamps`: the
gateway's time or up to `MaxAhead` more, the firmware's fixed 1970, a text that does
not parse, or none; a delay makes a good stamp an old one.  `TimedOut` passes over an
empty stamp as the code does, and `Scan` ends the watcher at one that does not parse.
`LastSign(n)` is the later of `heard[n]` and the stamp: a node whose clock is ahead
stays in service that much longer.  `Tick` is disabled while a scan is due: a scan
takes no time compared with the periods.  A retirement reaches the table here as a
reported status.

### HttpRateLimit

`hits[k]` keeps every time at which key `k` let a request through; the code's
deque is `hits[k]` from `oldest[k]` on.  `Trimmed` is where it begins once
`is_allowed` has popped, `Count` the state after a request.  `ClientIp` says which
address a request counts for: a sender among the `TRUSTED_PROXIES` names another.
`Checks` lists the
limiters a request meets: the node limiter only for `/api/node/commands/{id}`,
the bootstrap limiter only for a hello, whose handler asks the node limiter again
(`CheckNodeRate`) when it has read the body, if the token and the body are
accepted (`RejectHello` otherwise).  `is_allowed` and `retry_after` of a refusal
are taken to read the same clock.

### MqttIngest

`Publish` is the broker: a node's message, or one of the gateway's own, since
the subscription covers what the gateway publishes.  Each way through `_run`
and `_ingest` is an action: `DropUndecodable` (before any check),
`DropQuarantined`, `DropOverRate`, `RejectUnparsed`, `FailOnScalar` (the
`AttributeError` of `envelope.get`), `Dispatch` and, when the awaited handler is
done, `Finish`.  `ConnectionLost` is `MqttError`; after either exception the
queue is lost and `Reconnect` waits for `retryAt`.  `passed[n]` (when messages were
let through) and `rejected` are history.  `LastSecond` and `Burst` follow the code's
order: the second count finds the deque that the first one trimmed.

### NodeSession

The firmware's `EventQueue` (`Enqueue`, `FlushQueue`, `Reboot`), the messages under
way, and the rows they become (`HandleMessage` over MQTT, `PostMessage` over HTTP,
first time or again: `Inserted` is `INSERT OR IGNORE` by `message_id`, so a message
with an id that is taken is answered "ok" and dropped).  A V1 node's message
(`Legacy`) comes through `CompatPost`, which makes its `event_id` the `message_id`
(`Id`), makes one up if there is none, and so stores a repetition again.  `request[r]`
is a handler between two awaits: hello (`NodeHello`, `SelectConfig`, `InsertDefault`,
`Reselect`, `Answer`; `CompatHello` starts at the insert), PATCH (`PatchConfig`,
`WriteConfig`) or the summary (`StartSummary`, `CountNext` twice).  `wish` (what the last
PATCH stored) and `held` (what the node's row held since a request began) are history.
The queue, the link and the stored messages are there for the handlers' behaviour and
are covered by the type invariant only: nothing in the firmware fills that queue (item 9
below), and `INSERT OR IGNORE` is one statement.
`SetStatus` stands for heartbeats, the watcher and the admin endpoints, each one
statement; their details are in `NodeRegistry`.

### V1System

In `gateway.py` a handler does not await once it has read its body, so a handler is
one action (`Hello`, `Report`, `Event`, `ReportError`, `CommandResult`, `Poll`),
with the foreign keys of `node_registry.sql` as guards: what breaks one raises, and
nothing is committed.  `Report` is a heartbeat or a state update with whatever status
the payload has; the table's `CHECK` refuses an unknown one and admits 'offline'.
The node's actions are those of `setup` and `loop`; `device[n]`
is what it knows.  It waits for the answer to hello and to a poll (`TimesOut` gives
up), everything else is posted and forgotten; a request may be lost, or served after
the node stopped waiting.  `HandleCommand` covers reboot and sleep, which end the
program before the acknowledgement.  `OfflineWatcher` is one `UPDATE`.

### OpsPipeline

`task["bridge"]` and `task["watcher"]` are the two callers of the detector, each at
one of the awaits of `_raise_anomaly`: `CheckRule` (is it suppressed),
`PersistAnomaly`, `Enqueue`, `SetCooldown`.  `healer` is `run` and `_process`:
`Take`, `Escalate` or `IssueAction`, `Execute`, and the record of the action, each of
which may raise.  `request[q]` is an operator's call between its SELECT and its
UPDATE.  `until` is `ops_rule_state`, which survives `Restart`; windows and queue do
not.  `cooled`, `issued`, `dropped` and a request's `late` are history.

### FleetHealth

Scores are integers in thousandths of a point; the five sub-scores and `Weighted`
are operators over the tables, and the actions are what changes those:
heartbeats with the trimming trigger, statuses, anomalies that open and close, time,
and the steps of `run_daily_aggregation`, which goes on with the next day or node when
a statement raises.  A score reads the `AnomalyLimit` newest of a node's open anomalies
(50 in the code), `AnomaliesRead`; `Before` is their order, by time and, within one
clock value, by a fixed `rank`, so that a sort key has no ties.  Of a day's summary the
model keeps the number of heartbeats; averages, minima and maxima of the same rows are
left out.

### Ops005

One node.  `bridge` holds the message being handled and the status it found, `late`
that the watcher has read a row that timed out, `eval[e]` an analysis or simulation:
`Detect` (the five rules in the order of the code), `Look` and `Insert` for each
finding, then `Execute` and `PersistAction` for each anomaly inserted.  Each function
opens its own connection, and SELECTs stand outside the write's transaction, so
reading and writing are two steps everywhere.  A heartbeat's status is written unchecked
(`Reports` may have any), and the watcher passes over 'offline' and 'retired' nodes.
`FailHandling` ends the bridge's task,
`FailEvaluation` an evaluation; `cut` is history.

### Migration

A script is a sequence of statements with what the tool can tell apart: DDL or
UPDATE, the columns it needs, whether a comment precedes it (then it is skipped), and
whether SQLite accepts its syntax.  `main`, `wal` and `snapshot` are files: a
connection reads `Source`, `copy2` only `main`.  Python's `sqlite3` opens a
transaction before the first UPDATE (`tx`); DDL before it commits by itself.
`before` and `cold` are history.  The V1 gateway writes, stops and crashes only while
the tool does not run.

## 3. Runs

| Run | Checks | Shows |
|---|---|---|
| `dispatch_mixed` | `TypeOK`, `DispatchHasRow`, `RecordedWasReported`, `RunIsNotOfferedAgain` | an MQTT node and a polling one with two polls at once, losses, duplicates, a broken bridge, a restart |
| `dispatch_polled` | `SelectionIsFresh`, `ImplementsLifecycle`, `QueuedIsPicked` | two commands, one poll at a time: the lifecycle is implemented and nothing starves |
| `dispatch_twopollers` | `ResultIsImmutable` | **violated**: an overlapping poll writes 'pending' over a recorded result |
| `registry_scan` | `TypeOK`, `SilentIsOffline`, `OnlyRacedIsOverwritten` | two nodes whose messages carry any stamp, right, late, ahead, fixed, empty or unreadable, against the watcher |
| `http_window` | `LimitersTypeOK`, `NeverExceedsMax`, `RetryAfterSuffices` | all four limiters at their limits, one of the two addresses a proxy |
| `mqtt_ingest` | `TypeOK`, `PerSecondHolds`, `BreachesAreQuarantined` | every kind of payload across reconnections |
| `node_session` | `TypeOK`, `PatchIsKept`, `HelloTellsTheStored`, `SummaryNearlyAdds` | two requests at a time with the firmware's queue, a lossy link and a V1 node's message |
| `v1_system` | `TypeOK`, `RunsAtMostOnce`, `OnlySilenceOverrules`, `ImplementsLifecycle` | late and lost requests, any reported status, restarts of both sides |
| `ops_heal` | `TypeOK`, `CooldownSeparates`, `ActedOnce`, `NothingForgotten`, `OnlyRacedIsReopened`, `OnlyRacedIsCancelled` | detector, queue, healer and an operator, with a restart or a failing statement |
| `fleet_scores` | `FleetTypeOK`, `BadNewsNeverImproves`, `ShrinksOnlyByTrimming` | two nodes over two days with the aggregation, one with more open anomalies than a score reads |
| `ops005_evals` | `TypeOK`, `OnlyOverlapIsDoubled`, `HealedExactlyOnce`, `OfflineIsAnnounced` | two evaluations against bridge, watcher, operators and a fault |
| `migration_runs` | `TypeOK`, `OnlyPrefixOrAll`, `DryAndRollbackKeepContent` | up to six runs of the tool in any order, each cut off anywhere |

All but `dispatch_twopollers` hold.

**Bounds.**  Each cap is a constant named `Max...` and stands in a guard.

* Dispatch: two commands, two nodes, two polls at once, one restart; every race
  needs two requests and at most two commands, and `MaxClock` 1 lets two commands
  have equal or different seconds.
* Registry: `OfflineAfter` 1, `Period` 1 and a clock that runs from 2 to 6 see a node
  register, time out, be heard again and time out again, also with a stamp that is
  `MaxAhead` 1 ahead; one message in flight may be delayed past everything else.
  'online' and 'retired' are the reported statuses that the watcher tells apart.
* HTTP: limits 1, 2, 3 for node, address and all, a window of two steps and a clock
  of five, so that a request falls on the window's edge and a deque empties; a step
  is half a second, so that rounding shows.  One of two addresses is a proxy, which
  may spend the other's requests.
* MQTT: a rate of 1 per second, a burst of 3 in 2 s, a threshold of 2 in 2 s, a
  quarantine of 2 s, six messages in 7 s: a breach, its whole quarantine and what
  follows fit.  The order of the limits is that of the code (10 < 50, and a pause of
  5 s within the 60 s of a breach).  One client is enough: clients share only the
  queue, and what another client does to it is what a delay or `ConnectionLost` does.
* Session: two requests are what a race needs; a queue of two and three messages, of
  which two share an id, fill it, refuse one and drop one as a repetition, and a V1
  node's message brings an `event_id` that is taken as well; a hello and a PATCH of the
  same node with two intervals are what `held` tells apart; one status change while a
  summary is read shows that the tolerance is exact.
* First gateway: one node, one command, two requests under way, a gateway restart, any
  number of node restarts, a clock of 2 with `OfflineAfter` 1, one event; the reported
  statuses are one the watcher looks for, one it does not, 'offline', and one that the
  table refuses.
* Operations: two anomalies and a queue of one (the second is dropped unless the
  first was taken), two time steps with cooldowns of 1, one operator's call at a time,
  one restart or failing statement.  A-003 has level 3 in this instance, so that
  escalation is reached.
* Scores: three heartbeats of one kind of which the trigger keeps two, two days of two
  steps, two changes among anomalies and statuses, and `AnomalyLimit` 1 with two
  anomalies of different cost, so that the cheap one pushes the other out: without its
  exception `BadNewsNeverImproves` is violated in this instance; and nodes whose `last_seen` starts as NULL and as text
  that does not parse.
* CNP-OPS-005: two evaluators, two evaluations, two messages that report 'online' or
  'offline', two operators' calls, one fault, one command.  Thresholds are such that the second bad heartbeat sets the rules
  off; with one command and two time steps the retirement of stale commands runs and
  touches nothing.
* Migration: three scripts (one that fails as the shipped one does, one in which a
  comment hides a column a later statement needs, one that succeeds), three rows,
  six runs: enough for a killed run, its rollback, and a second snapshot over a half
  migrated file.

**Symmetry** is used for nodes, requests, anomalies and evaluators, in runs that
check no liveness; no specification or property tells them apart.

**Deadlock** is checked except in `mqtt_ingest`, `ops005_evals` and `migration_runs`:
there a state in which every bound is used up has no step (a sleep longer than what
is left of the clock; no message, call or run left).  The code goes on; the bounded
counters do not.

**Fairness.**  Only `dispatch_polled` uses it: weak fairness of the steps of poll
requests.  The event loop runs a started coroutine to its end, and the V1 node
polls in its `loop()` every few seconds.  Nothing is assumed of operators, MQTT,
results, or time, and so `QueuedIsPicked` is the one liveness property: that an
anomaly is healed, a message stored or a command run needs deliveries that nothing
in the code guarantees, and those parts have safety properties that say where a
thing is while it is not done (`NothingForgotten`,
`HealedExactlyOnce`).

## 4. Proofs

TLAPS proves, for every value of the constants that satisfies the named
assumptions:

| Theorem | Says |
|---|---|
| `TypeCorrect`, `RegistryTypeCorrect`, `LimiterTypeCorrect`, `IngestTypeCorrect`, `SessionTypeCorrect`, `V1TypeCorrect`, `Ops005TypeCorrect`, `MigrationTypeCorrect`, `PipelineTypeCorrect`, `FleetTypeCorrect` | the type invariant of each of the ten modules; that of `FleetHealth` has every score in the range the tables accept |
| `CommandsUnderWayHaveRows` | `DispatchHasRow` |
| `RecordedStatusIsReported` | `RecordedWasReported` |
| `RunCommandsAreNotOfferedAgain` | `RunIsNotOfferedAgain`, if no node both polls and subscribes |
| `SelectionsAreFresh` | `SelectionIsFresh`, with one poll per node at a time and separate transports |
| `PollingImplementsLifecycle` | the refinement of `CommandLifecycle`, under the same hypotheses |
| `WatcherOverwritesOnlyRaces` | `OnlyRacedIsOverwritten` |
| `SilentNodesGoOffline` | `SilentIsOffline`, whatever stamps the nodes send |
| `LimitersHold`, `RetryAfterIsEnough` | `NeverExceedsMax`, `RetryAfterSuffices` |
| `IngestPerSecond`, `IngestBreachesAreQuarantined` | `PerSecondHolds`, `BreachesAreQuarantined` |
| `SessionPatchIsKept`, `SessionHelloTellsTheStored`, `SessionSummaryNearlyAdds` | the three properties of `node_session` |
| `V1RunsAtMostOnce`, `V1OnlySilenceOverrules`, `V1ImplementsLifecycle` | the three of `v1_system`, with its refinement |
| `Ops005OfflineIsAnnounced`, `Ops005OnlyOverlapIsDoubled`, `Ops005HealedExactlyOnce` | the three of `ops005_evals` |
| `PipelineActsOnce`, `PipelineNothingForgotten`, `PipelineCooldownSeparates` | `ActedOnce`, `NothingForgotten`, `CooldownSeparates`, for any catalogue of rules, any queue and any number of anomalies and calls |
| `PipelineOnlyRacedIsReopened`, `PipelineOnlyRacedIsCancelled` | `OnlyRacedIsReopened`, `OnlyRacedIsCancelled`, both about a step |
| `BadNewsLowersScores` | `BadNewsNeverImproves`, for any heartbeats, anomalies, limits and `offline_after_sec`, with the exception it names |
| `SummariesOnlyShrinkByTrimming` | `ShrinksOnlyByTrimming`, for any number of rows the trigger leaves |
| `MigrationOnlyPrefixOrAll`, `MigrationKeepsContent` | the two of `migration_runs`, for scripts of any length |

The hypotheses are not conveniences: `dispatch_twopollers` shows what happens with
two polls at a time.  Where a property speaks of a watcher that lives or of a node
with a stamp, the property itself says so, and the model has the other cases.

The arguments:

* **Dispatch.**  `DispatchHasRow` is not inductive, since the insert relies on the
  404 test made one await earlier; `DispatchInv` carries that along.
  `ReportInv` adds the results still on their way.  `OfferInv` says that a
  command that has passed a poll's `UPDATE` is not queued.  For the node that
  waits for its answers, the command is in exactly one of four places (selected,
  marked, at the node, reported), and each place determines what row and
  outcomes are; the refinement follows action by action.
* **Registry.**  `ScanInv` relates `LastSign` to the time of the last scan: what
  a scan left alone had given a sign in time or has no stamp, so that one period later
  `OfflineAfter + Period` has not passed since.  A message only moves `LastSign` to now
  or later, even if its stamp is older than the one it replaces: `heard` is now.
* **Limiters.**  `LimiterInv`: times are in order, what the deque has dropped is
  older than a window, the deque is at most the maximum long, and times that are
  `MaxOf[k]` places apart are more than a window apart.  `TrimmedBegins` shows
  that the `CHOOSE` in `Trimmed` is a real position, by the least-number
  principle; `AppendKeepsLimit` is the step.
* **Ingestion.**  Two windows trim one deque, so the deque is related to the history
  by `Covers(h, d, from)`: counted from the end, it holds for each entry of the
  history since `from` a time that is no earlier.  Trimming and appending keep that
  (`TrimCovers`, `AppendCovers`), and a comparison with the deque is then as strict as
  one with the history (`RateInv`).  `QuarantineInv` says that every breach has its
  full quarantine ahead of it or behind it (`Accounted`) and that nothing passed
  within (`Quiet`).
* **Session.**  `WellFormed` says what each step of a handler has in its hands.
  `PatchIsKept` is inductive together with the types.  `HeldInv` says that what a
  hello has read, and is about to answer with, is among what the row held since it began
  (`Told`), and that what the row holds now is among that, too; a writer adds what it
  writes (`WriterTold`), a handler only reads (`HandlerTold`).
  For the summary, `CountInv` bounds the counts so far by what the fleet is now and
  the changes since; one change of a status moves one node between disjoint sets
  (`DisjointUnion`, `ChangeAddsOne`), for any finite fleet.
* **First gateway.**  Even its types need `HandInv`: the foreign key of an
  acknowledged command rests on the command having run, that on having been handed
  out, and that on a row.  `HandInv` says that a command is at most in one hand, that
  what a node holds is queued and has not run, and that what was acknowledged did
  run.  `SeenInv` relates row and last report: events only make `last_seen` later, and
  the watcher writes over nothing but an 'online' that timed out.
* **CNP-OPS-005.**  `EvalInv` says what an evaluation holds at each of its steps;
  `OverlapInv` that an insertion finds no unresolved row among those its `SELECT` saw,
  but reopened ones; `HealInv` that an anomaly is held by one evaluation, once, and
  has no action while it is held.
* **Operations.**  `TypeInv` says what a caller of the detector, the queue, the healer and
  an operator's call have in their hands: an anomaly with a row that fits.  `ActedOnce`
  needs `PlaceInv`: an anomaly without an action is with one caller, or once in the
  queue, or with the healer, and nowhere twice, and what has an action is in none of
  these places.  `ActionInv` says that an action exists exactly if it was issued and that
  the healer records the result of one that is pending or cancelled.  `CooldownInv`
  relates three awaits: `until` covers every anomaly whose cooldown was written, and is
  not later than the time of the row a caller is making; two callers cannot be in the
  middle of the same rule and node, because the bridge raises other rules than the
  watcher.  `NothingForgotten` is inductive with the types once it is split: a step gives
  no anomaly a new reflex (`AutomaticStays`), and whoever lets go of one has passed it
  on (`AttendedStays`).
* **Scores.**  Every score is a full score less some costs, cut to the range, and so an
  inequality between costs carries over to the scores (`PointsMonotone`).  A score
  that reads all of a node's open anomalies (`FewAreAllRead`) counts sets that only grow
  (`ReadsGrow`, `CostsGrow`); a node with more is the exception in the
  property.  A sum over a window
  of any length is some integer (`TotalIsInt`) that is the same before and after, and
  the two slopes of the responsiveness meet: up to `offline_after_sec` no more than 30
  points are lost, beyond it no more than 30 are left (`ResponsivenessFalls`, with
  `DivMonotone` for the rounding).  `ShrinkInv`: while a node has fewer rows than the
  trigger leaves, a day has at least as many as its summary counted, and a record on its
  way to the table lies between the two.
* **Migration.**  `PrefixInv` says that every content of a file or log is legal, that
  is what the first `k` statements leave, with `k` the whole script or no UPDATE
  among them, and that a transaction holds what was executed so far.  `SnapshotInv`
  says that a snapshot that met no log is the content before its run.

Only model-checked: `QueuedIsPicked`, a liveness property under fairness, which these
provers do not reach, and `ResultIsImmutable`, which is violated.  Of the recursive sum
in a mean it is proved that it is an integer, by the least-number principle, but not
that it is the sum: that would be an induction over the data.  No property needs it; the
mutants and the runs compare the values.

## 5. Disagreements between code and documents

**Dispatch and registry.**

1. Two overlapping polls: 'pending' overwrites a recorded result (run
   `dispatch_twopollers`), against "MUST be persisted immutably" in
   `docs/schemas/node_registry_schema.md:143`.
2. A V1 `command_result` has no "code", and `upsert_command_result` reads it with
   `[]` (`storage.py:153`): the handler raises, against `test_sprint2.py:195`.
3. The watcher overwrites a heartbeat committed between its `SELECT` and its
   `UPDATE` (`registry.py:108`), against `node_registry_schema.md:141`.
4. One stamp that does not parse ends the watcher's task (`registry.py:106`).  A node
   whose last stamp was empty is never marked offline (`registry.py:104-105`; MQTT and
   `/v1/compat` store one), and one whose clock was ahead stays in service that much
   longer (`registry.py:106-107`), against scenario 4 of `docs/TEST_FLOW.md`.  The
   firmware's stamps are a fixed 1970, so the watcher marks its node offline at
   every scan however often it is heard.  The limit is one constant
   (`registry.py:61`); the `offline_after_sec` of a row is not read.
5. A hello, a heartbeat or a state update puts a retired node back into service.

**Limits.**

6. The node limiter of the middleware sees only paths with `commands`
   (`rate_limit.py:75`), against P1-04 in board_003.
7. A JSON payload that is no object is not counted as invalid and ends the bridge's
   iteration (`mqtt_client.py:213`, P1-05); what other nodes had queued is lost.
8. The MQTT burst allowance can never be granted: the deque was trimmed by the
   shorter window before the longer one is counted (`mqtt_client.py:175`).
   `_rate_states` keeps an entry for every client id ever seen.

**Session and queries.**

9. Nothing in the firmware calls `enqueue` or `markAcknowledged`.  A message that
   asks for confirmation would be published in every loop and block what is behind
   it until a restart; the queue is in RAM.
10. A V1 hello through `/v1/compat` raises `KeyError` on `device_uid` and
    `hardware_model`; a V1 error without `message_id` gets a new one at each attempt,
    so a retry is stored twice.  The hello over MQTT is answered with constants, not
    with `node_config`, and the firmware ignores ack and configuration topics.
11. PATCH of one field sets the other to its default, and is never pushed to a node.
12. Alerts and summary compare times as text, 'T' against a space (`routes.py:421`):
    the whole day at the boundary is included.

**First gateway.**

13. A heartbeat of a node without a row answers 500, and the skeleton says hello only
    in `setup`, although `cnp_node_skeleton.ino:165` says it will retry.  A PATCHed
    interval reaches a node at its next hello only, although `gateway.py:541` says
    "next hello/heartbeat".
14. The answer to an idle poll contains the key "command", so the skeleton compares a
    null pointer with `strcmp`.  After a reboot or sleep the command is never
    acknowledged and its row stays 'queued'.
15. Event ids start again at 1 with each boot and are unique over all nodes: later
    events are answered "ok" and dropped.
16. A node that reports 'degraded' is never marked offline, and one that lives may report
    'offline' itself (`gateway.py:237`, `node_registry.sql:22`); the skeleton's time stamps
    are a fixed date, so alerts of the last 24 h never show them.

**Operations layer.**

17. The healer escalates, and so reopens, an anomaly that was resolved while it was
    queued, against the statuses in `002_ops_tables.sql:14-17`.
18. "Cancel ... before it executes" (`api.py:225`): an action stays 'pending' while it
    executes, so a cancellation can come after the effect, and the healer overwrites
    'cancelled' with 'completed'.
19. A-010 never fires, critical severity is never raised, `on_node_offline` and
    `on_node_online` have no caller in the repository, and the canonical gateway does
    not write the `heartbeats` table that scores and summaries read.  A configuration
    update is published and kept nowhere.
20. When a day's heartbeats have been trimmed, the next hourly aggregation
    overwrites the day's summary with a smaller one.  A fleet average counts scores of
    one second twice and keeps the last scores of retired nodes.  A score reads the 50
    newest open anomalies (`scoring.py:267-269`, `db.py:113`): beyond that a new one that
    costs little pushes out an older one that costs more, and the score rises.

**CNP-OPS-005.**

21. `_run` catches only `CancelledError` and `MqttError`: one unreadable message ends
    the bridge's task until a restart.
22. What a simulation inserts, and what an analysis cut off has inserted, is never
    healed, because later analyses find it and skip it.  Acknowledging reopens a
    resolved anomaly; cancelling overwrites 'executed'.
23. `set_node_degraded` writes no fleet event and may write over 'offline', after
    which the watcher announces the node offline again.  A heartbeat's status is written
    unchecked (`registry.py:115` there): a node that reports 'offline' gets no fleet
    event, and the watcher passes over it, as over one that reports 'retired'.

**Migration.**

24. The shipped script always fails: `ADD COLUMN IF NOT EXISTS` is no SQLite syntax,
    although `migrate.py:129` and the script's header (lines 6-8) rely on it.  Of its
    65 chunks 19 are skipped because a comment precedes the statement, among them
    the column `last_seen_utc`, so that without the syntax error the script would
    fail at the UPDATE that sets it.
25. A completed live run reports "Integrity check FAILED: ['ok']" and exits with 2,
    since a `Row` is compared with a tuple (`migrate.py:85`, against its exit codes in
    lines 18-22 and `test_sprint2.py:623-640`, which is skipped in this layout).
26. The snapshot lacks what is only in the write-ahead log; a rollback under a log
    that a killed run left has no effect; a second live run takes its snapshot of what
    the first one left.

`PROJECT.json` has the first as a finding with its run.  The others came out of
reading and modelling; the models contain the behaviour wherever it touches their
state, and the properties are stated so that they say what is true all the same.

## 6. Not modelled

* **Authentication and secrets**: one comparison for each request and one `UPDATE`
  that replaces a secret; cryptography is left out.
* **Settings, logging, database set-up**: nothing that changes over time.
* **Firmware identity, OTA, sensors, WiFi**: flash storage and stubs; the timers of
  `loop()` are the freedom of the models to act at any time.
* **V1 compatibility**: the renaming of keys other than the ids; polls, results, hello
  and messages of V1 nodes are in `CommandDispatch` and `NodeSession`.
* **Queries** but the counts of the summary: single SELECTs.
* **CNP-OPS-005 scores and summaries**: a score is computed from the tables and
  appended to one that nothing else reads; a summary is one statement.  The rest of
  that gateway is in `Ops005`; the component's status is therefore "partly".
* **Root copies and phase snapshots**: deliverables of earlier phases that
  `gateway/app` has absorbed, and a script that compares them.

Further abstractions: the order of polled commands in the first gateway (its stamps
have seconds and ties) is left open; the SELECTs of one detection in CNP-OPS-005 are
one step, because a rule reads one table; in `OpsPipeline` one kind of heartbeat is
used, with which A-002 cannot fire.

What could follow: a composition of `CommandDispatch` and `NodeRegistry` over one
table of nodes with the admin endpoints, and the translation of the compatibility layer
as operators against the schema.
