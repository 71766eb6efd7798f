# Departures service: TLA+ specifications

Specifications of the Go services in this repository: what the ingester does to
the departures database, the way of a bus from OPTIS to the presenter's answer and
of a train from a station board to its list, how the loaders fill
the reference databases, and how the SIRI proxy keeps subscriptions, heartbeats
and deliveries apart. TLC checks them on small instances; TLAPS proves the main
results about the two ingesters, their lists, the times of trains, what a
passenger is told of buses, what the loaders store, and the subscriptions and heartbeats of
the SIRI proxy, for every value of the constants.

Contents: [the system](#the-system), [modules](#modules), [runs](#runs),
[bounds](#bounds), [fairness](#fairness), [proofs](#proofs),
[known gaps](#known-gaps), [abstractions](#abstractions),
[not modelled](#not-modelled), [plan](#plan).

To check a run: `tlc -config <run>.cfg <module>.tla`; to check the proofs:
`tlapm IngesterProofs.tla` and likewise `DeparturesProofs`, `RailIngesterProofs`,
`BusDeparturesProofs`, `PipelineProofs`, `NaptanLoaderProofs`, `CircularServicesProofs`,
`SiriProxyProofs` (the last one takes about a quarter of an hour).

## The system

```
 OPTIS server --> optis-poller --> SNS --> ingester ------> departures db --> presenter --> clients
       \                                   ^  (Redis)          (Redis)
        --> siri-proxy --> SIRI clients    |                      ^
                                           |                      |
 NaPTAN --> locality-names, stops-in-area  |                      |
 S3     --> circular-services  -- reference dbs (Redis)           |
 National Rail --> rail-departures-board-poller --> SNS --> rail-ingester
```

Everything but the SIRI proxy is an AWS Lambda function: an instance serves one
event at a time, keeps its globals between events, several instances run at
once, and an instance may be killed at any point, after which the event can be
delivered again. SNS delivers at least once and in any order. The SIRI proxy is
a long-running HTTP server with a goroutine per request.

| component | state | operations | what is hard | what makes it correct |
|---|---|---|---|---|
| ingester (`ingester/`) | three memo maps per instance; the lists in the departures database | one `Handler` per event; a goroutine per record, two under it (stops, stop areas), one per location under those | read-combine-write of a shared list without a lock; plain maps written by several goroutines; `errs` closed by one goroutine and sent to by many; death between two commands; lost reply to EXEC | lists sorted and without duplicate journeys, whatever happens; nothing but resolved departures of that location; success means stored; no goroutine outlives the event; the event ends |
| departure model (`model/`) | none | order of departures, expiry, conversion of clock readings | ties, service numbers without prefix, digits or suffix, boundaries (exactly now), midnight in UTC and in local time | order total on different journeys; conversion exact within the window; expiry neither early nor late |
| presenter (`presenter/`) | none; pages through a list | one `Handler` per request | list replaced between two pages; page arithmetic | never an expired departure; the first `top` of them if the list stays as it is; ends |
| redis pipeline (`repository/redis_pipeline.go`) | channels, one connection per worker | sender, flusher, receiver per worker | full channel against unflushed buffer; errors of several goroutines; order of close | replies stay with their commands; no deadlock; all goroutines end |
| loaders (`locality-names/`, `stops-in-area/`, `rail-references/`) | none | one `Handler`: download, read CSV, pipeline | one failing row of thousands; cancellation; panic on a closed `errs` | success means that every row is stored |
| siri-proxy (`siri-proxy/`) | slice `Subscriptions` without a lock; map `HeartbeatSubscriptions` with a lock that is given up in between; tickers, timers | subscribe, terminate, deliver, heartbeat, timer | data races on slice headers and cells; removal in place; a timer that fires while its heartbeat is replaced; `append` into a shared buffer | each subscription once; one ticker per consumer while it has a subscription; every ticker is stopped in the end; deliveries complete and unmodified |
| rail-ingester (`rail-ingester/`) | lists in the departures database | one `Handler` per event, a goroutine per board | clock readings without a date; boards late, twice, out of order, two of a station at once | stored instants are right; a list is one board's; expired trains go; success means stored |
| circular-services, transxchange | none | list the bucket, take the newest ZIP, a goroutine per TransXChange file, one pipeline | several producers on one channel, cancellation, dates that do not parse, pages of the listing | success means that the keys of the newest ZIP file, and no others, are stored |
| optis-poller | none between calls | one `Handler` per poll: request, filter, publish | times that may be missing; messages that are lost, repeated, overtaken on their way | the list has the newest of each journey; nothing cancelled or erroneous is shown |
| optis-client, rail-departures-board-poller, nationalrail, naptan, siri types, dlog, test_helpers | none between calls | request, decode, publish | little but input and output | |

The departures database couples ingester, rail-ingester and presenter; the
reference databases couple loaders and ingester; the pipeline is shared by all
the loaders. `PROJECT.json` lists every component with its status and every
hazard with its line.

## Modules

| module | models | its state and actions |
|---|---|---|
| `Departures` | `model/internal.go`, and what `ingestLocation` computes | pure: `Before` is `ByDepartureTime.Less`, `Expired`, `NewDeps` (the map of new departures), `Combined`, and `Refreshed(list, new, now)`, the set of lists that combining, dropping expired ones and sorting may give. A set, since departures of new journeys are appended in the order of a Go map |
| `CombineLoop` | the same code, a step per loop iteration | `map`, `replace`, `append`, `expire`, `sort` are the loops of `combineCachedAndNewDepartures` and `removeExpiredDepartures`, with the slice overwritten in place |
| `DeparturesCache` | the abstract specification: what the ingester promises | a location's list changes only by an atomic `Ingest` |
| `Ingester` | `ingester/ingester.go` | program counters for `Handler` (per instance), the record, stops and stop areas goroutines (per record) and the goroutine of each location (`task`). One action per call to Redis, with an outcome for its failure, also for an EXEC that was executed but whose reply is lost; `Kill`, `Restart`, and `ConcurrentMapAccess` for the runtime's fatal error |
| `RedisPipeline` | `repository/redis_pipeline.go` | the goroutines of each worker, channel `recv` with its capacity, the connection's write buffer (`unflushed`), commands in flight, the commands Redis has applied |
| `NaptanLoader` | `locality-names`, `stops-in-area`, `rail-references`: three copies of one program | `Handler`, the reader of the CSV file and the waiter that closes `errs`, composed with `RedisPipeline` over `send`, `errs`, `exitImmediately`, `done` |
| `ServiceDelivery` | `handleServiceDeliveryPublication`, its first loop | the received buffer cell by cell, and deliveries as slices of it |
| `SiriProxy` | the rest of `siri_proxy.go` that keeps state | the slice as header (array, length) and arrays with their capacities, each word of the header read and written on its own (`Load`, `WriteHeader`, `CopyHeader`); the three loops that remove subscriptions cell by cell (`DropCell`, `KeepCell`) through the slice as it is by then, and the cut behind them; heartbeats with ticker and timer; a program counter per request |
| `Presenter` | `presenter.go`, `remove_expired_departures.go` | `Handler` with `start`, `end`, `deps`; the clock; `Replace`, by which a writer replaces the list between two pages. What a list may be, is left to the module that composes it |
| `BusDepartures` | `optis_poller.go`, SNS, what ingesters do to one list, and the presenter | `Poll` filters, transforms (`Messages`) and publishes an answer of OPTIS; an ingester takes any published message, in any order and any number of times (`Deliver`, with its own first purge), and goes on with LLEN, LRANGE, the combination and purge at its own `now`, and EXEC (`ReadLength`, `ReadList`, `Combine`, `Store`), or gives up (`Abandon`); several of them at once; the actions of `Presenter` between any two of these |
| `Trains` | `convert_local_departure_time.go`, the train half of `IsExpired` | pure conversion |
| `RailIngester` | `rail_ingester.go` | `Handler`, the goroutine of each record (`transform`, `remove`, `update`, `fail`), `UpdateFails` with an EXEC whose reply is lost, `Kill`, `Restart`, a clock; history variables hold what each list was made of |
| `CircularServices` | `circular_services.go`, `transxchange.go` | the listing page by page, the choice of the ZIP file, and by file a goroutine (`open`, `read`, `services`, `push`, `err`, `close`), composed with `RedisPipeline` |
| `IngesterProofs`, `RailIngesterProofs`, `BusDeparturesProofs`, `NaptanLoaderProofs`, `CircularServicesProofs`, `SiriProxyProofs` | | theorems about a component, from its inductive invariant |
| `DeparturesProofs`, `PipelineProofs` | | lemmas that several of these rest on: about lists, about the steps of the pipeline |
| `MC*` | | values of the constants for TLC |

Compositions: `Ingester` extends `Departures` and is shown to implement
`DeparturesCache` (`Abstract == INSTANCE DeparturesCache WITH ...` in `Ingester`, checked by
`ingester_one` and proved in `IngesterProofs`); `CombineLoop` justifies (checked by
`loops`, proved in `IngesterProofs`) the closed form `Refreshed` that
`Ingester` and `BusDepartures` use in one step; `BusDepartures` extends `Presenter`
and `Departures`, so that the presenter reads lists as they come out of what was
polled, published and ingested; `RailIngester` extends `Trains`; `NaptanLoader` and
`CircularServices` extend `RedisPipeline`; `SiriProxy` forwards what
`ServiceDelivery` takes apart.

Definitions named as variants in a comment (`..Unchecked`, `..AtOnce`,
`RemoveOneMore` and so on) are not part of any specification. Each is a mistake
that could be made in the definition below it, and the properties are known to
reject it; `PROJECT.json` says which property rejects which.

## Runs

| run | states | shows |
|---|---|---|
| `ingester_one` | 90 388 | one record per event, two events one after the other, one failure, kill or restart anywhere: a success means that everything is cached (`SuccessMeansCached`), and each read-combine-write refines one atomic ingestion (`AtomicIngestion`) |
| `ingester_records` | 370 116 | two records of an event at once, for a stop and an area in common with two journeys each, of which one is superseded and one ties, while the clock passes them, one failure: lists stay well-formed and resolved, no goroutine is left when `errs` is closed, and the event ends under fairness |
| `ingester_lost_update` | violated | two records for two stops of one area: the area's list ends without the departures of one (a finding) |
| `ingester_nil_area` | violated | a second departure from a stop in no area dereferences a nil memo (a finding) |
| `loader` | 284 564 | two workers, four rows, one failure anywhere: success means stored, replies match, no deadlock on a full `recv`, no panic without a failure, and all goroutines end |
| `loops` | 1 087 992 | the loops of the ingester compute `Refreshed`, for all lists of up to three cached and three new departures, duplicates included, and for a journey the last new departure wins; beside them, bodies of up to five payloads for three subscriptions: what is still to be read is never overwritten; grouped payloads arrive unmodified; one delivery each, of the right length |
| `delivery_mixed` | violated | payloads A, B, A: B's consumer gets A's bytes (a finding) |
| `siri` | 2 830 296 | one client after another, updates, moves and terminations, by name and of all, timers between any two steps: nothing stored twice, one ticker per consumer, no entry without a subscription when a sweep ends. Two requests and a publication at once: no ticker without a timer that will stop it; a delivery reaches everyone who stays subscribed, of requests for new subscriptions |
| `siri_heartbeats` | violated | two subscriptions of a consumer that end at different times, of which one is terminated: the other's heartbeats stop for good (a finding) |
| `bus` | 926 640 | two polls of five journeys (late, early, cancelled, erroneous, without one of the times), messages in any order, two ingesters and a presenter that interleave at every call: the list has the newest of each journey unless a message overtakes another or two ingestions overlap (`ListIsNewest`); up to two departures are presented, none that had expired unless a list came that was purged before the request (`NoExpiredPresented`), exactly the next ones if the list stayed, none that OPTIS had cancelled (`PresentedWasKept`); the loop ends |
| `rail_ingester` | 704 211 | two events of up to two boards from an hour before to an hour after the UTC midnight: instants are right, a list is one board's, success means stored, boards in order are never undone, the handler returns |
| `circular` | 157 528 | five buckets, two days, one failure anywhere, dates that do not parse and a search term that does not compile: success means that exactly the keys of the newest ZIP file are stored; no panic without a failure; all goroutines end |

The four violated runs state what the repository's own documents or tests say;
`findings` in `PROJECT.json` quotes them.

## Bounds

* `MaxEvents`, `MaxFaults`, `MaxTime`, `MaxPolls`, `Ingesters`, `LastTime`, `End`,
  `MaxCached`, `MaxNew`, `MaxPayloads`, `MaxCells`, `Rows` are guards or sizes
  that exist for TLC only; none of them is in the code.
* Ingester: two stops that share an area and one in none is the smallest map on
  which areas combine, and on which they do not. The messages have a journey in
  two versions (of which the later one ties in time with another journey), a
  circular and a point-to-point service, a place with and one without a name.
  Two records are enough for any race, since a task shares only its location's
  list, its memo maps and `errs` with others. In `ingester_records` both records write
  the lists of one stop and of its area, which hold two journeys that tie in time. One failure at every step finds
  what a failure can break; the theorems have no bound on any of these.
* Loader: `FlushAfter` 2 with four rows fills both `send` and `recv` and flushes
  in the middle and at the end; two workers, so that one can fail while another
  goes on.
* Circular services: `FlushAfter` 2 is less than the commands of two files, so that
  their goroutines wait for one another; one worker, since what a second one
  changes is the loader's question. The buckets have the newest ZIP file on the
  second page, two of the same age, files with a start or an end date that does not
  parse, and no ZIP file.
* SIRI proxy: the `scenario` is chosen at the start: what is asked for, by one client
  (`Updates`, `Terminations`, `Renewals`, `Removals`, `Moves`, `Ends`) or by two (`Pair`, `Removals`,
  `AllRemovals`, `Deliveries`). A new array may have any spare room, so that two clients both
  append in place, both move to a new array, or one of each. The scenarios keep
  removal races and delivery races apart.
* Bus departures: 0 is the zero time that stands for a missing one; the clock runs from 1 to 2, so
  that a departure at 1 expires in between, and 3 is the time that is never expired. One
  answer has two departures that expire, the other two that do not: a page of expired ones is
  followed by another, maybe of a list that was replaced, and three departures are more than
  the longest page. Two ingesters are enough for an overlap, two messages for one to
  overtake the other.
* Delivery: three subscriptions and five payloads hold A B A B A and
  A B C A A; sizes 1 to 3 let a payload overwrite part of the next, all of it, or
  more than it.
* Rail ingester: a day of 48 units, a window of 4, an offset of 2 and minutes of 2
  units keep the order of magnitude of the code's constants (`2 * Window < Day`,
  `Offset <= Window`). The local midnight is at 48 and that of UTC at 50; the clock runs
  from 47 to 51. The theorems are for all values.

Runs with `CHECK_DEADLOCK FALSE` are those in which the system stops when the
bound on events, requests or time is used up. `loader`, `circular` and
`bus` check deadlock.

## Fairness

Only weak fairness, and only of goroutines: a goroutine that can go on is
scheduled by the Go runtime in the end, and every call to Redis returns, with a reply or
an error. The code dials Redis without a read timeout, so a server that keeps a
connection open and never answers is outside of the liveness properties; Lambda
then kills the instance when the function's own time is up, which is `Kill` in
`Ingester` and `RailIngester`. Nothing is assumed of
failures, kills, restarts, deliveries or the clock. In `BusDepartures`, fairness of
the presenter alone: lists may be replaced for ever. In `RailIngester`, of the process
as a whole (`Process`), since each of its goroutines takes a few steps only;
`CircularServices` is fair like the loader, goroutine by goroutine. `SiriProxy` has no fairness: what
would be a liveness property (each ticker is stopped in the end) is checked as
the safety property that there is a timer that will do so (`TickerHasTimer`).

## Proofs

The theorems are for every value of the constants that the named assumptions
(`DeparturesAssumption`, `NumbersAssumption`, `IngesterAssumption`, `TrainsAssumption`,
`RailAssumption`, `PresenterAssumption`, `BusAssumption`, `PipelineAssumption`,
`RowsAssumption`, `CircularAssumption`, `SiriProxyAssumption`, `ServiceDeliveryAssumption`,
`CombineLoopAssumption`) allow: any number of instances,
records, stops, areas, stations, boards, messages, departures, workers, rows, files,
services, clients, subscriptions and publications, any capacity of the pipeline's channels and of the
arrays that `append` makes, any bounds. Three assumptions are not just types: intervals of heartbeats
are not 0 (see the known gaps);
there is at least one worker (the start-up of each loader ends with `Fatal` when its
`..._REDIS_MAX_ACTIVE` is less than 1), and a listing of a bucket has at least one page (S3 answers
with one even if it is empty).

* `IngesterProofs!TypeCorrect`: `TypeOK` is not inductive. A goroutine reads
  `msg[r][k]` for a position `k` that an earlier step left in `todo` or `live`,
  so positions must stay within the list (`PositionsOK`); and a record's list may be
  replaced only when none of its goroutines is left, so goroutines must be nested:
  locations run only while stops or stop areas wait, these only while the record
  waits, this one only while `Handler` serves (`ControlOK`). `TypeInv` is the
  conjunction of the three; `TypeStep` has a lemma per goroutine.
* `NoGoroutineLeft`: the nesting, read from `Handler` downwards.
* `CacheAlwaysWellFormed`: no lock guards a list, but every write is of a list
  that `Refreshed` gave, and `RefreshedList` (in `DeparturesProofs`) says that it is sorted
  and without duplicates if the list that was read is without duplicates. That one was stored
  earlier, or is a prefix of one when another writer came between LLEN and LRANGE
  (lemma `Prefix`). The invariant is `ListsOK`, of the cache and of the lists
  that tasks hold. It covers any number of instances, which is why no run has two.
* `CacheAlwaysResolved`: by `RecordsResolved` (from when a record's destinations
  have all been updated, what its live positions hold is resolved; an error path never gets
  as far) and `PlacesOK` (the same of the cache and of the tasks' lists).
* `AtomicUnlessOverlap`: the ingester implements `DeparturesCache` as long as no
  two goroutines are between reading and storing the list of one location
  (`OneAtALocation`; the run `ingester_lost_update` shows what happens otherwise). The step that
  stores (`Exec`, or one whose reply is lost) maps to `Ingest`, all others stutter. That needs
  `ReadsOK`: what a goroutine has read is a prefix of the list as it still is, and all of it after
  LRANGE; `GroupsOK`: what it groups by location is a batch of the record's
  resolved message; `MessagesOK`: a record's message is one that an event brought, resolved once
  and for all. `AtomicForOneRecord`: with one record in process at a time there is nothing to overlap.
* `SuccessAlwaysCached`, where one record is in process at a time: `SuccessInv` says that
  an error is on its way to `result`, or the cache covers each location that is done, where
  to cover means to have every departure of the batch that has not expired by now. What covers
  keeps covering, as the clock goes on and as the same record's other goroutines store lists of
  other locations. A success ends without an error, all of the record's goroutines done.
* `RailIngesterProofs!ConversionIsExact`: within the window, `now` and the departure
  are at most a day apart, the base date is that of UTC, which is that of local time or
  the day before; so the first guess is off by -1, 0 or 1 days, and the two
  rules of the code pick the right one (lemmas `MidnightBounds`,
  `MultiplesApart`).
* `DeparturesProofs!BeforeIsStrict`: what `sort.Sort` assumes of `ByDepartureTime.Less`.
  Of two service numbers that are not the same, one is less (`NumbersCompared`), and
  this is transitive (`NumbersTransitive`) although a missing prefix or suffix comes
  first and missing digits come last. `NumbersAssumption` says what
  `GetServiceNumberParts` returns: no suffix without digits, and the same parts only
  for the same text.
* `RailIngesterProofs`: the invariant is the conjunction of `TypeInv`, `ListsInv` (what
  a goroutine holds and what a list is: a board, converted at one instant and purged at
  another), `ControlInv` (goroutines only while `Handler` receives), `SuccessInv` (an
  error is on its way, or the list of the station of each record that is done is one of the event's)
  and `OrderInv` (boards in order: what is stored is no newer than what was
  delivered last). From it follow `TimesAlwaysExact` and `ListAlwaysBoard`, which lift
  `ConversionIsExact` and `TruncatedBefore` to the database, `NoGoroutineLeft`,
  `SuccessAlwaysStored` and the action property `NeverOlderInOrder`.
* `BusDeparturesProofs`, for any number of ingesters: the invariant is the conjunction of `TypeOK`, `ListInv` (the
  list is sorted and without duplicates, and every departure of a message, of the list and
  of the presenter is `Reported`: made of a visit that OPTIS gave and the poller keeps),
  `PageInv`, `IngestInv` and `ListIsNewest`, which is inductive beside the others. `IngestInv` is
  what an ingester holds between two of its calls: of its message whatever has not expired since
  (`Batch`); of the list, as it still is unless somebody stored one meanwhile
  (`overlapped`), its length and then all of it; and in the end a list that has the message and what the message is
  not about of the list that it will replace (`Combines`). `PageInv` is why it is
  enough that the presenter looks for expired departures in front: a sorted list has them
  there; what an ingester puts in its place has none at all if it was purged at the request's
  `now` or later, which is the condition (`outdated`) of `NoExpiredPresented`; so as soon as one that is not expired
  has been read, what is left to be read, of this list or the next, is not
  either. That `Removed` exists is by well-foundedness of `<`. `AlwaysNewest` rests on
  `RefreshedKeeps` (in `DeparturesProofs`): nothing new, and nothing old of
  another journey, is lost by combining, dropping and sorting. `BusAssumption` has what
  the composition gives to `Presenter`: `IsExpired` is the `Expired` of the ingester.

* `BusDeparturesProofs!AlwaysNext`: `PagesInv` describes what is collected while the
  list stays as it is: the positions before `start` that are not expired, in their order and without
  a gap, so that the next page begins where the last one ended. `PresentsNext` states it by
  positions, from the first one that is not expired. `TypeCorrect` adds that a page is never longer
  than what is still wanted.
* `PipelineProofs`: lemmas about the steps of a worker, for whatever the commands
  are (a parameter of `PipelineType`), used by both loaders. The two that matter are `Answered` and
  `Flushed`: `recv` holds, in the order of their sending, exactly the
  commands whose replies are not read yet (`RepliesAlwaysMatch`: the n-th reply goes to the n-th
  command, and a command is applied only once it is flushed), and whoever waits for room in `recv`
  has flushed what `recv` holds (`SenderNeverBlocksReceiver`). The third, `Orderly`, is that a worker
  that has ended without an error has ended in order: sender, then flusher, then receiver, with nothing
  in the buffer, in `recv` or in flight.
* `NaptanLoaderProofs!SuccessAlwaysStored`: `errs` is closed and no error was sent means that
  every worker is done; so each is `Orderly`; so `send` was closed and is empty; so the
  reader of the file had come to its end; so every row is `Accounted` for (in `send`, with a worker,
  or applied), or a worker is in `Trouble`, with an error still to send. At the end only to be applied
  is possible. `NeverPanicsUnlessFailure`: without a failure nobody
  sends an error, and `errs` is closed after the last goroutine that could; `NoFailure` is
  that induction, step by step.
* `CircularServicesProofs`: the same argument with a goroutine for each file as producers.
  `CircularInv` adds `Listed` (the objects of all pages are there before one of the newest ZIP files is
  chosen) and `PassedOver` (a service that a goroutine has gone past is not a circular one of today, so
  that the first it finds is the first there is). `OnlyNewestStored` takes the
  set of commands of the chosen ZIP file as the type of all that is in the pipeline.
  A date that does not parse is an error without a failure, so that `InOrder` holds as long as
  there is no error, or no failure; `CircularNeverPanics` needs the second.
* `SiriProxyProofs!TypeCorrect` and `TickerAlwaysHasTimer` are of any number of clients and feeds at
  once. `TypeInv` adds to `TypeOK` that the heartbeat which a client is about to register is one of its
  address (`Registering`) and that only clients of the scenario are busy (`Within`). The types of
  program counters refer to the arrays and heartbeats that there are, of which none is ever taken away
  (`Grown`, `StatesStay`).
* The other theorems of `SiriProxyProofs` are about requests that come one after another (`OneByOne`),
  with timers and publications between any two of
  their steps. `SingleHeartbeatHolds`: the entry of an address is its newest
  heartbeat, and whatever ticks is registered or about to be (`BeatsInv`), unless a timer fired in
  between.
* `UniqueSubscriptionsHold`: `SliceInv` is about the slice as it will be when the header is written. It can be
  read; the loop that removes leaves copies between the cells that it has written and the one it is at
  (`Hole`), and only there is a subscription twice (`Distinct`), which the cut ends; a copy of the header
  agrees with the header, as nobody else writes it (`Agrees`); what was removed is not in the slice until it is
  stored again; and when only part of the header is written, what others see is the beginning of the new slice in the same
  array, or a length past the end of the old array (`ClientSlice`). The function `Kept`, of what the
  map `seen` does, is recursive: that its
  result has what is not to go, once and in order (`KeptProperties`), is an induction over
  positions by the lemma `Induction`, which says of a set of numbers what the library's
  theorem says of a predicate.
* `RedundantRemovedHolds`, without a condition on the requests but that they come one after another: a sweep
  has every entry there is in `entries`, and an entry that it has produced has a subscription
  or is about to be deleted (`SweepInv`). Entries that a termination of all or
  a move has left are there when a sweep begins, and are gone when it ends.
* `SentToSubscribersHolds`, for any number of feeds, and of requests for new subscriptions that
  come one after another (`OneByOne`, `OnlyNew`): the history
  (`stable`, `sent`) is of subscriptions, the loop is at a position of an array that may have been
  copied since. A subscription keeps the position that it was stored at, in every array that has it,
  since the loop that looks for updates finds none and writes each cell where it is (`InPlace`), and
  `append` writes only cells behind the slice (`NewInv`). So what is listed from the beginning of the loop
  to its end is at one position of the array that the loop reads, which it has still to come to,
  or has come to once (`FeedInv`). Two requests at once are checked only (run `siri`); for three the
  statement is false of the code (see the known gaps), and so the property does not claim it.
* `UnreadIntactHolds`, `OneDeliveryEachHolds`, `UnmodifiedIfGroupedHolds`, of `ServiceDelivery`, for
  bodies with any number of payloads of any size: no delivery ends behind the payload that the loop is
  at, so that `append` never writes past it (`UnreadInv`); each delivery is as long as what has been
  received for it so far (`EachInv`); and where payloads are grouped, only the last delivery grows, and
  it ends where the next payload begins, so that a payload is copied onto itself
  (`GroupedInv`). The offsets of the payloads are lengths of what is put together by the recursive
  function `Joined`; `JoinedSteps` is its recursion for every position.
* `IngesterProofs!LoopsAlwaysRefresh` and `NewestAlwaysOnce`, of `CombineLoop`, for lists of any
  length: `LoopInv` says for each loop how far it has come. The map is the `NewDeps` of the positions
  that were visited; what was replaced is what `Replaced` says, since an entry is left in the map
  only until the first cached departure of its journey (`EntryUsedOnce`); what was appended is
  `Added` without the rest of the map (`Completed`). The slice that is overwritten has in front the
  unexpired departures that were read, behind them what is still to be read as it was
  (`Compacted`); cut and sorted, it has every unexpired member of `Combined` at exactly one
  position (`Lists`), which is a bijection as `Refreshed` wants one. So the one step of `Ingester` is what the loops do.

Only model-checked:

* liveness (`HandlerReturns`, `AllGoroutinesEnd`), which needs fairness and ENABLED, neither of which
  TLAPS 1.4.5 can reason about.

The library's induction theorems have a predicate as a parameter, which no installed prover can
instantiate. Where a proof needs an induction over data (`Kept` and `Joined`, which are recursive
functions), it is over a set of numbers, by the lemma `Induction` of `SiriProxyProofs` or by
well-foundedness.

## Known gaps

What the code does and the properties leave out on purpose. The models show all
of them; no document of the repository promises otherwise in words that a property
could quote, or the comment that does is not precise enough to be one.

* The termination of all subscriptions (`siri_proxy.go:766`) returns before the heartbeats are looked at, and
  leaves their entries until their timers fire or a termination by name comes upon them. A
  subscription that is requested again for another consumer leaves the heartbeat of the
  first one in the same way (`siri_proxy.go:638`). Both are in the run; `RedundantRemoved` is
  about the end of an iteration over the entries, which removes them.
* A `HeartbeatInterval` of 0 passes the checks and makes `time.NewTicker` panic
  (`siri_proxy.go:735`). `SiriProxyAssumption` leaves it out.
* A timer that fires before its heartbeat is replaced deletes the entry of the
  successor (`siri_proxy.go:951` against `:722`): the next subscription starts a second
  ticker. `SingleHeartbeat` says so in its condition.
* The loop over `sp.Subscriptions` (`siri_proxy.go:415`) may skip a consumer or
  serve one twice when another request removes subscriptions in place (lines 640-656
  and 757-787), and so it may when three requests store new ones at the same time
  (`siri_proxy.go:673`): the slice is [x] in an array with room for two; the second request reads the header
  and pauses; the first stores s behind x, and a feed copies the header (two cells of this array); the third
  stores u, which moves the slice to a new array; the second goes on and writes t over s in the old
  array, which the feed reads. It sends to t and not to s, although s has been in the slice all the
  while. `SentToSubscribers` is stated for requests for new subscriptions that come one after another, or two
  of them at once: checked for both, proved for the first.
* Of subscription requests at the same time, what one stores may be lost to another: the header is written
  over, or the slice cut after a loop over an older one (`siri_proxy.go:656`). The races are in the model; no property
  says that it does not happen.
* One consumer that fails ends the loop for the others (`siri_proxy.go:431`).
* The goroutine that ranges over a ticker's channel never ends, because `Stop` does not
  close it (`siri_proxy.go:938`).
* A delayed train never expires, and `removeExpiredDepartures` stops at the
  first departure that is not (`remove_expired_departures.go:22`): expired trains behind it
  are presented. `NoExpiredPresented` is checked for lists of buses.
* When a loader's worker has failed, `errs` can be closed while another goroutine has an
  error to send (`redis_pipeline.go:74` and `:91`, `locality_names.go:223`): the
  process panics, and the Lambda fails by that. `NoPanicUnlessFailure` is what holds.
* Messages are combined in the order they arrive; `recordedAtTime` is not
  compared, so that a message delivered late replaces newer data. `ListIsNewest` holds
  as long as none is overtaken, and as long as no ingester stores a list between another's
  LRANGE and EXEC (`ingester.go:466`-`638`, without WATCH): else the later EXEC undoes the
  earlier, as the run `ingester_lost_update` shows of an area. The same of station boards and `generatedAt`:
  `NeverOlder` is about boards that arrive in order.
* An ingester purges at its own `now` (`ingester.go:164`, `:476`) and stores later: of a request that comes in
  between, the next page may be of a list that has departures which were expired when the request came.
  `NoExpiredPresented` has this as its condition (`outdated`); the sooner EXEC follows the purge, the less it
  is met.
* A departure whose newest data already lie in the past is dropped when its message
  arrives (`ingester.go:164`), and what the list had of the journey, with a later time,
  stays. `ListIsNewest` has this as its exception.
* The poller leaves out cancelled journeys (`optis_poller.go:190`), so that one which was
  published before stays in the list until its time: no message says that it is gone.
* Service numbers that differ only in case or in leading zeros are each less than the other
  (`internal.go:103`), and a number of another form than `GetServiceNumberParts` knows
  makes it panic. `NumbersAssumption` leaves both out.
* A bucket without a ZIP file makes `getLastModifiedObject` panic (`transxchange.go:96`);
  the Lambda fails by that.
* When two files of a ZIP file have a key in common, which description it gets depends on
  which goroutine is faster (`circular_services.go:342`).

## Abstractions

* A departure keeps what order, expiry, grouping and resolution look at. Times are
  instants; a time or record that does not parse is `Malformed`. A service
  number is what `GetServiceNumberParts` makes of it, with letters as numbers in
  their order.
* The reference databases do not change during a run. A memo map is the set of its
  keys, since its values are what the database holds.
* The key of a circular service, operator and line, is a sum of numbers, and different pairs of
  them have different sums. Its value is left out.
* The ingester's failed transaction is one step; errors inside the replies of EXEC are not told
  apart from those of the call.
* `BusDepartures` has one stop, and of an ingester the calls for its list; a failure is `Abandon`, and an EXEC whose
  reply is lost is a `Store`. `Ingester` has the rest.
  A request to OPTIS or SNS that fails changes nothing and is left out.
* `RailIngester` has a list as a set of positions on a board, whose order is the list's.
* Wording of errors, logging and response texts are left out; errors are one kind.
* `SiriProxy`: each read or write of a word of the slice's header, and of a cell in the loops that
  remove, is a step of its own. What is left in one step: the cells that one `append` writes or copies; the
  capacity, which is taken with the array's address (three words in Go, two here); the current header in
  the check of an index (`siri_proxy.go:651`) and in the cut (`:656`), read once for both its words; the
  two loops that only read (`Measure`, and `SweepAddress` for each entry). Requests that are rejected
  before they reach any state are left out. `append` to a full array gives any capacity
  up to twice the new length.
* Calendar days have 24 hours: the two changes of the clock in a year are outside of
  `Trains`.

## Not modelled

* `siri_proxy.go` 206-308: requests that are passed on without touching the proxy's
  state, the sending of the stored heartbeat and the lock around it.
* optis-client, rail-departures-board-poller, naptan, nationalrail: a request, a decoding and
  a publication without state between calls. Of the table of ATCO codes there is the outcome
  that a station is not in it (`Rejected`).
* `transform_departure_time.go`, `output.go`: texts of a response.
* `GetStand` and the order `ByServiceNumber` (`internal.go`), which is used by tests only.
* `siri/`, `model/output.go`, `dlog/`, `test_helpers/`, `redis_pool.go`, Jenkinsfile: types,
  logging, tests, options, build.
* Start-up of each function (environment, pools) is its initial state.

## Plan

Written so far, in this order: departures and ingester with its abstract
specification, pipeline and loader, SIRI proxy, presenter, trains; the ingester's
proofs; the comparator of service numbers, the rail ingester with its proofs, the
composition from OPTIS to the presenter with its proofs, circular services; the proofs of the
refinement, of the pipeline and of the two kinds of loaders, of the presenter's pages, of the
SIRI proxy's subscriptions and heartbeats, of its publications, and of the ingester's loops. Every
invariant that a run checks is stated by a theorem (`SentToSubscribers` for requests one after another).
To come:

1. SIRI proxy: subscriptions lost between two clients, stated as a property; the
   passed-on requests and the stored heartbeat.
2. Presenter: what a request that races with an ingestion can miss or repeat; the
   transformation of times.
