# A TLA+ verification of GamifyKit

GamifyKit adds points, levels and badges to an application. A call of
`GamifyService` changes a user's record in a `Storage`, publishes events on an
`EventBus`, lets the rules derive further events from the new record, and
publishes those too. Subscribers of the bus carry the events to the realtime hub
and from there to WebSocket clients, and to analytics, which counts, aggregates,
streams and exports them. A server puts an HTTP API, a rate limiter and a
configuration around it. Most of what can go wrong happens between two of these
steps, while another goroutine, process or machine does something.

## Parts of the system

| part | source | modules |
|---|---|---|
| domain types, rules | `core/` | `SafeInt`, `GamifyCore` |
| service, in-memory storage | `engine/service.go`, `adapters/memory` | `GamifyService` |
| event bus | `engine/eventbus.go` | `EventBus` |
| storage contract | `engine/interfaces.go` | `Storage`, `StorageContract` |
| JSON file, SQL, Redis storage | `adapters/jsonfile`, `sqlx`, `redis` | `JsonFileStore`, `SqlStore`, `RedisStore` |
| facade and fallback store | `gamify/` | `FallbackStore` |
| hub, WebSocket handler, SDK event stream | `realtime/`, `adapters/websocket`, `sdk/go` | `Hub`, `EventStream` |
| leaderboard | `leaderboard/` | `Board`, `SkipList` |
| HTTP API, rate limiter, SDK requests | `api/httpapi`, `sdk/go` | `RateLimiter`, `ApiServer` |
| configuration, server command | `config/`, `cmd/gamifykit-server` | `ServerConfig`, `ApiServer` |
| analytics | `analytics/` | `Metrics`, `Aggregation`, `Streaming`, `Export` |

`Adapters` puts the four storage adapters side by side. The `MC...` modules give
values to constants a `.cfg` cannot express. `Sums` defines the sum of a sequence.
The `...Proofs` modules hold the theorems. `PROJECT.json` lists
the parts with their files, says which lines each definition models, and lists the
hazards at the line where they bite.

The definitions introduced by "A bug:" are not part of the models. Each is a
variant of a definition after it with a plausible mistake, used to confirm that
the properties notice it.

## The models

**GamifyCore** holds the pure functions. `Overflows` (in `SafeInt`) is the test of
`AddSafe`; `DefaultLevel` counts the thresholds `100*k^2` that a total reaches,
which is what `floor(sqrt(xp)/10) + 1` computes as long as the conversion to
`float64` is exact. A user id is a name plus whether it is spelled the way
`NormalizeUserID` spells it. `Evaluate` is `LevelUpRule.Evaluate`. An event has
every field of `core.Event` except the time and the metadata.

**GamifyService** runs the calls of several clients. `points`, `levels` and
`badges` are the user records; `call[c]` says where client `c` is in its call and
which event it works on. Each call on storage or bus is one step:

| action | code |
|---|---|
| `AddPoints`, `AddPointsFails`, `AddPointsRejected` | `AddPoints` up to `storage.AddPoints`, its error, the early returns |
| `PublishPoints` | the first `Publish` |
| `ReadAndEvaluate`, `ReadFails` | `GetState` and the rules, or its error |
| `SetLevel`, `Announce` | the loop over the derived events |
| `AwardBadge`, `AwardBadgeRejected`, `PublishBadge` | `AwardBadge` |
| `EvaluateRules` | `EvaluateRules`, then `ReadAndEvaluate` with an event of no type |

A storage operation is atomic, as it is under the mutex of `adapters/memory`. With
`faults`, every operation may fail, before or after it took effect; the file
adapter does the latter when its save fails.

**EventBus** models both dispatch modes. A *runner* is a goroutine that runs
`dispatchSync`: a worker in async mode, a publisher in sync mode. Copying the
handlers, each handler call and the return are separate steps, as the lock is
released after the copy. A handler is opaque: it returns, and what it does shows
as steps of other runners.

**Storage** is one user's record as the adapters see it: a row of points, one of
a badge, one of a level. `StorageContract` is the abstract specification of an
adapter that keeps its data: `live` is what `GetState` shows, `kept` what a
restart would show.

- `JsonFileStore`: a call holds the mutex while it changes the map
  (`FileChange`), writes `path.tmp` (`FileWrite`), renames it (`FileRename`) and
  returns. Writing and renaming may fail, and the process may be killed between
  any two steps (`FileCrash`, `FileNew`).
- `SqlStore`: a writing call is a transaction of `SqlBegin`, `SqlSelect`,
  `SqlWrite` and `SqlCommit` or `SqlRollback`; `GetState` is three queries, of
  which one that breaks off leaves rows out without an error, as `rows.Err` is
  never asked (`lost`). `past` records the states of the tables. `SqlClose` lets
  transactions finish; `SqlCrash` undoes them. A `New` that fails may have made the
  tables. PostgreSQL and MySQL are modelled from how the adapter uses them: a
  `SELECT` sees what is committed, a write locks its row until the transaction ends.
- `RedisStore`: the keys, and the state blob as a cache over them. A write and its
  invalidation, and the reads of a rebuild and its `SET`, are separate commands;
  each has an action of its own for its failure or a lost reply (`RedisFault`). A
  blob stored with a time to live expires (`RedisExpire`).
- `FallbackStore`: the store `gamify.New` uses when it is given none. It has no
  lock, so looking for the store, its map and the user's record, making each, and
  reading and writing the record are steps, and the Go runtime may end the process
  when two accesses of a map meet (`FbFault`).

**Hub** and **EventStream** follow an event from `Broadcast` (copy, one send per
receiver, return) through the channel, the WebSocket handler (`Ws...`), the
network, and the goroutine of the SDK's `SubscribeEvents` (`Sdk...`) to its
caller. The network may reset a connection or stall it silently. A send on a
closed channel ends the process.

**SkipList** has one action per operation, each under the mutex; nodes, links and
levels are the code's, and the random height is any height. `Board` is the
interface's promise: a score per user, answers in order.

**RateLimiter**, **ServerConfig** and **ApiServer** are a server from its
configuration (environment, file or profile; validation; secrets) through
`BuildApp`, listening, signals and `Shutdown` to its exit, with requests that pass
the limiter, the key check, CORS and the routes, in that order. An answer is named
after the code in its body: `invalid_input` is what every error of a write gets,
`invalid_request` stands for the codes of a request that does not parse. The bucket counts fractions of a token as integers: a request
costs `TicksPerMinute` parts and a tick of the clock brings `Rpm`. The clock is
read when the request arrives and used when the lock is taken, which may be in
another order.

**Metrics** are the counters of `ComprehensiveMetrics` as a record, with the UTC
calendar in days. **Aggregation** reads them one getter at a time, as
`AggregateNow` does: `todo` is the set of reads to come, and `Sooner` the order in
which the code makes them. **Streaming** is the publisher with a dashboard and WebSocket
subscribers. **Export** is the background of `AnalyticsService`: aggregation and
rounds of export to console, HTTP and Segment, whose requests may fail and arrive
all the same. `ExportManager.Close` may be called at any time (`CloseBegin`,
`CloseEnd`); `raced` records that it sent the buffer while a round was in progress.

## What TLC checks

| run | instance | shows |
|---|---|---|
| `service` | 2 clients, 4 calls, with and without faults | types and totals in range; `LevelsEarned`, `NoLevelUpLost`, `StoredLevelAnnounced`, `OneRecordPerUser`, `AnnouncedBadgeHeld`; `SerialLevelCurrent`, `SustainedLevelAnnounced` |
| `service_overlap` | 2 clients, 2 calls | a counterexample to `StoredLevelCurrent` |
| `bus` | both modes, 2 runners, queue of 1, 3 events, 2 subscriptions | types and capacity; `EventInOnePlace`, `NeverRedelivered`, `SubscriberNotMissed`, `LateCallsBounded`; `AcceptedIsDispatched`, `CloseStopsWorkers` |
| `bus_drain` | 2 workers, 1 event | a counterexample to `QueuedBeforeCloseDispatched` |
| `storage` | each adapter, 2 clients, faults, crashes | `FileKeepsContract` (refinement); `SqlSnapshotOrdered`, `SqlUnovertakenExact`, `SqlInsertOnce`; `RedisStaleExplained`, `RedisCacheSettles`; `FallbackSerialSafe` |
| `sql_lost_update` | 2 clients, no faults | a counterexample to `SqlAdditionsSum` |
| `sql_reopen` | the same | a counterexample to `SqlReopens` |
| `delivery` | 2 broadcasters, 1 stream, 1 idle subscriber, 2 events | `PanicOnlyFromRace`, `FlowInOrder`; `BroadcastReturns`, `EventReachesClient`, `ExpiredStreamCollected`, `StreamCloses` |
| `streaming` | 2 publishing goroutines, 2 events, 1 subscriber, 2 days | `DashboardCounts`; `ReaderEnds` |
| `export` | 1 event, 2 aggregations, 2 failing requests, any number of rounds and of `Close`, 2 days | `AggregateBracketed`, `RoundDelivers`; `HeldIsDelivered` |
| `server` | 2 clients, 2 keys, 3 requests, all sources of configuration | `RateBound`, `WaitedIsAdmitted`, `ServiceGuarded`, `RefusalChangesNothing`; `SignalExits` |
| `leaderboard` | 3 users, 3 scores, heights up to 3 | `TowersNested`, `ImplementsBoard` (refinement) |

*Findings.*

- `service_overlap`: two `AddPoints` calls of one user each read a snapshot; the
  one with the lower total calls `SetLevel` last, and its level stays. The level-up
  of the higher total has been announced all the same (`NoLevelUpLost`).
- `bus_drain`: an event is queued, `Close` cancels the context, and both workers
  take the cancelled branch of their `select`.
- `sql_lost_update`: two transactions read the same total; the `UPDATE` of the
  second waits for the first and then overwrites its sum. Both calls return
  success. What is left is `SqlUnovertakenExact`: without an overtaking the row
  gets exactly the sum.
- `sql_reopen`: `New` runs its `CREATE TABLE` scripts on a database that has the
  tables, and fails.

*Bounds.* `MaxInt = 450` with deltas -300, 100 and 300 crosses the level thresholds
100 and 400 in both directions and runs over both ends of the integer range; for
the adapters `MaxInt = 1` with deltas 1 and -1 does the latter. Two clients are
what a race needs, and three or four calls let one race meet the leftovers of
another. A queue, a channel, a wire and an SDK buffer of one fill at once; three
events on the bus let two workers be busy while one waits or is refused. In
`delivery` two events are what an order needs, and the second subscription is one
that nobody reads. `server` has a burst of one and a token every one and a half
ticks, so that three requests meet a full, an empty and a partly filled bucket.
`export` begins on a Sunday, the last day of a month and of an ISO week, with an
event that may arrive on the day after it happened; two aggregations make rounds of
two items, with and without something for Segment, and two failures let a second
round fail with the first one's items still held. The theorem `AggregatesBracketed`
is about any number of events of every kind and user. `streaming` has a day without events
between its two, so that the 24-hour counters are reset. The skip list has one
node more than users, and every list of three users with heights up to three
occurs.

*Deadlock* is checked for the skip list, which always accepts a call. Elsewhere
the system is at rest once the bounds are used up, or the process has ended.

*Fairness.* A goroutine in the middle of a call goes on: `WF` of the rest of a
service call, of a dispatch (handlers return), of a broadcast, of the WebSocket
handler and the SDK's loop, of a Redis call, of `OnEvent`, of an aggregation, of
`main`. A worker whose queue is not empty receives (`WF` of `Take`). `select`
chooses at random among ready branches, so a worker that meets a cancelled context
again and again takes that branch in the end (`SF` of `Stop`). The blob in Redis
expires or is stored again (`WF` of the two together), as it is stored with a time
to live; `RedisCacheSettles` adds that from some time on nothing is written and no
command fails. The ticker of the export goes on and
its requests end, as the client has a timeout. A reader calls `ReadEvent` until it
fails. A dead process loses its sockets. Nothing is assumed of callers, of the
network, of signals, or of requests a server drains.

## What is proved

The theorems hold for every value of the constants: any number of clients, users,
calls, runners, subscriptions, connections, keys, requests, days, nodes and levels,
any deltas, scores, capacities and rates, with faults or without. The assumptions
are the named `ASSUME`s of the modules, which TLC evaluates for the runs. They give
the constants their types, keep markers such as `Torn` apart from the
values they stand beside, number the users of a leaderboard in the order of their
names, and give a skip list at least as many nodes as it can have users. Every
invariant, action property and refinement that a passing run checks is a theorem;
only what needs fairness is not. Each proof has an inductive invariant that says
what the property leaves out: where a call under way stands.

- *Service* (`GamifyServiceProofs`): types, `LevelsEarned`, `NoLevelUpLost`,
  `StoredLevelAnnounced`, `OneRecordPerUser`, `AnnouncedBadgeHeld`. In `IInv`,
  `CallOK` ties the event a client holds to what storage must already contain;
  `StoredLevelDue` says that a stored level is announced or in the hands of a
  client that will announce it; `TotalCovered` that the level of the current total
  is announced, or due, or will be looked at by a client that has yet to read, or
  was missed because storage failed. It rests on the monotony of `DefaultLevel`.
  `SerialLevelCurrent` speaks of behaviours in which calls never overlap;
  `SerialInv` says that in those the level about to be stored is the total's, and
  that a stored level that is too low is about to be replaced.
- *Bus* (`EventBusProofs`): types, `EventInOnePlace`, `NeverRedelivered`,
  `SubscriberNotMissed`, `LateCallsBounded`. `CallingOK` says that a runner that
  copied the handlers still has to call, or has called, every handler subscribed
  before its event was published; `DeliveredOK` that a handler call belongs to a
  dispatch that is over, or that goes on and will not repeat it; `LateOK` counts
  the late calls to come together with those made.
- *Storage adapters* (`AdapterProofs`). File: `FileContractKept`, a refinement;
  `FileInv` says that the change being saved is one operation applied to what was
  there before, and that the temporary file about to be renamed holds all of it,
  so that every step maps to a step of the contract or to none. SQL:
  `SnapshotsAreOrdered`, `UnovertakenIsExact`, `InsertsAreOnce`; `SqlInv` says that
  what a `GetState` has read so far is what its rows were at moments of the past
  in the order of its queries, that a call past its `SELECT` and not overtaken saw what the row still is, that while
  it holds the lock of an `INSERT` there is no row, and that a lock has one holder.
  Redis: `StalenessIsExplained`; `RedisInv` says that a reader nothing overtook and
  that skipped nothing holds what the server has. Fallback store:
  `FallbackIsSeriallySafe`; `FbInv` says that a lone call works on the store and
  the record the next one will find. `ProcessKeepsAdapters` carries all of this to
  the process that has the four side by side.
- *Hub and event stream* (`EventStreamProofs`): `BroadcastSafeUnlessRaced`, where
  `HubInv` uses that an id is given once, and `FlowsAreInOrder`. The flow of a
  connection is one sequence: what the client has seen, what is on the wire, in the
  handler's hand and in the channel. `StreamInv` says that it is in order and that
  an event a broadcast has yet to send to the connection is not in it; the steps
  are then a send that appends, a move that leaves the sequence as it is, and a
  loss that takes some of it away.
- *Server* (`ApiServerProofs`): `RateIsBounded` and `WaitingIsEnough`. A bucket's
  clock can go back, which takes tokens away, even below zero; `BucketInv` says
  that what it owes is paid back by the time up to the newest request, and that
  what it gave out since any request, together with what it holds, is what burst
  and time brought. `ServiceIsGuarded` and `RefusalsChangeNothing` follow from
  `ServerInv`: what was built does what the loaded configuration asks for, which
  uses that every profile would pass the validation it is not given, and where a
  request stands tells what it has passed and done.
- *Leaderboard* (`SkipListProofs`): `LevelsAgree` and `SkipListIsBoard`, a
  refinement. `SkipInv` says that each level is a chain, strictly ordered and
  closed from the head to `nil`, of a set of nodes, that the set of a level is part
  of the one below, and that level 0 has the nodes of `byUser`. A search on a chain
  ends at the last node before the entry; so an update leaves chains with one node
  more, a removal with one less. The walk of `TopN` is followed link by link: after
  `k` links it has seen the `k` nodes that stand first in the board's ranking.
- *Analytics* (`AggregationProofs`, and `AnalyticsProofs` on top of it):
  `AggregatesBracketed`, `PagesAddUp` and `RoundsDeliver`. `DashboardInv` says that the totals are ahead of the
  dashboard's recent events by at least what the calls of the hook under way have
  still to add, and that what a page has read stays within the totals until it
  reads them. `ExportInv` says that, as long as no `Close` has raced a
  round, what is not delivered is in the buffer, what a `Close` sends is all the
  buffer holds, and what the console and Segment lack is in the items and events
  still to go.
  `AggInv` says that the counters of a day, a week and a month are the sums over
  the events of that period, and that what an aggregation has added up is between
  the sum over the days it has read, of the events there were when it began, and
  the same sum of the events there are now. `WeekAgrees` shows that the seven days
  of the loop are those with the ISO week's key, for every first weekday, and
  `MonthAgrees` that those of the other loop are the days with the month's key.

`AggregationProofs` and `SkipListProofs` begin with the induction these need. The
library's induction theorems take a predicate as a parameter, which the provers cannot
instantiate; `NatSetInduction` takes a set instead and is proved from the
well-foundedness of `<`, and existence and uniqueness of partial sums, of repeated
steps and of what follows from them are proved with it. Each is a statement about the definition the
model uses, not about a copy of it.

*Only model-checked:* what holds under fairness, which the prover does not handle
(`SustainedLevelAnnounced`, `AcceptedIsDispatched`, `CloseStopsWorkers`,
`RedisCacheSettles`, `BroadcastReturns`, `EventReachesClient`,
`ExpiredStreamCollected`, `StreamCloses`, `ReaderEnds`, `HeldIsDelivered`,
`SignalExits`), and the counterexamples of the four runs that look for one.

## What the models say about the code

Things a reader of the properties should know, as they are why a property is not
stronger:

- A `LevelUp` may reach a client before the `PointsAdded` that caused it: two
  workers broadcast at the same time (`FlowInOrder` speaks of broadcasts that do
  not overlap).
- The WebSocket handler sets its write deadline once, so a stream ends at its first
  event after five seconds. It reads nothing, so a client that has gone is noticed
  at a later event only.
- `SubscribeEvents` says that its channel closes when `ctx` is done
  (`sdk/go/client.go:208`); while it waits in `ReadJSON` it does not look, and one
  more frame or an error has to come (`StreamCloses`).
- `httpapi` answers every error of `AddPoints` and `AwardBadge` with 400
  `invalid_input`, a storage failure whose change was made included: after it a
  client cannot know whether to try again (`RefusalChangesNothing` speaks of the
  other refusals).
- The key check is outside CORS, so a preflight without a key is refused when keys
  are configured. Buckets of the limiter are never removed.
- `main` does not call `svc.Close`, so events still queued at shutdown are lost.
- Adapter `file` passes `Validate`, and `setupStorage` refuses it. `LoadProfile`
  validates nothing, and the server command does not use it.
- `AggregateNow` covers the current day, week and month only; events of a day that
  arrive after its last aggregation never reach its aggregate.
- The reset of the 24-hour counters erases the event that triggers it.
- The HTTP exporter's buffer has no lock. A `Close` that sends during a round
  empties it of what the round has put there since, and that is never sent
  (`RoundDelivers` and `HeldIsDelivered` except `raced`).
- `GetState` of the SQL adapter does not ask `rows.Err`, so a connection that breaks
  within a result gives a state with rows missing (`SqlSnapshotOrdered` excepts
  them).
- `ExportData` stops at the first error; the HTTP exporter's buffer grows while its
  endpoint fails, and what it holds may be delivered twice. The default of
  `BatchSize` is set after the exporter was built, which then flushes at every
  item.
- `Subscribe` of the stream publisher replaces a subscriber of the same id without
  closing it; the run has one subscriber, for which this does not arise.
- The SQL scripts are PostgreSQL's; `New` on MySQL needs others.

## Not modelled

Floating point: the rounding of `DefaultLevel` above 2^52, and Lua's doubles in the
Redis script. Wording, logging, headers, paths and bodies of requests, which are
abstracted to kinds of request; the Redis and SQL settings of the configuration and
their validation; what logging and metrics settings say beyond being valid or not.
The `Updated` field, event times and metadata. The ten
milliseconds `Close` of the bus sleeps. A handler that panics or blocks for ever.
In analytics: the `DAU` hook and `BridgeHook`, counters no method reads, and
`InMemorySubscriber`, a helper for tests. The webhook sink posts each event once,
ignores errors and keeps no state. The gRPC and Redis-board stubs are empty; the
demo server and the examples are wiring of parts that are modelled.
