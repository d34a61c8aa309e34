# coordinate-validator: verification project

This directory holds TLA+ models of the services in `src/`, the TLC
configurations that check them on small instances, and TLAPS proofs of their
safety properties for every instance. `PROJECT.json` lists the runs, the
mutants that show each property can fail, the lines each definition
translates, the hazards the properties were written for, and the theorems.

Contents: 1 inventory, 2 modules, 3 runs, 4 proofs, 5 what the checks found,
6 what is not modelled, 7 plan.

## 1. Inventory

The system judges GPS coordinates. A gateway forwards *validate* requests to
the Refinement API and *learn* requests to the Learning API; both share a Redis
cache of known radio points, and a Storage service writes history to ClickHouse
and events to Kafka. `internal/service` is an earlier monolith that does most
of this in one process.

| Component | State | Operations | Hard because | Correct when |
|---|---|---|---|---|
| ClickHouse storage, `internal/storage/clickhouse.go` | `queue` under a mutex, a ticker goroutine, the database handle | `QueueValidation(s)`, `flushLocked`, `flusher`, `Close` | handlers, ticker and `Close` flush the same queue; callers do database I/O under the lock; each of four database calls may fail; the process may die | records keep their order, none is repeated, none disappears but through a logged failure or a death; memory is bounded; callers and `Close` return |
| Learning core, `internal/core/learning.go` | none of its own; Redis entries and companion sets | `Learn` = GET, SADD.., (GET, SET).. | calls interleave between GET and SET; read errors are dropped; a request lists a point twice; it dies half way | an entry is a product of whole updates; what was learned stays; the answer is the one the sources call for |
| Validation core, `internal/core/validation.go` | none of its own; Redis entries and device positions | `validateTime`, `validateSpeed`, `triangulate`, `determineResult`, `UpdateDevicePosition` | int64 overflow of durations; the position is read early and written late; floats at thresholds | accepted requests are fresh; speed is judged from the position that was last; an impossible speed is not VALID (INVALID, say the documents) |
| Refinement API, `cmd/refinement-api` | the request in hand | `Validate`, `ValidateBatch` | any number of calls and streams at once; Redis down; a stream whose `Send` fails | every request is answered, unless its own stream breaks |
| Redis cache, `internal/cache/redis.go` | `wifi:`, `cell:`, `bt:`, `device:`, `companions:` keys | GET, SET, SADD, SMEMBERS, MGET | shared by all replicas, no transactions, string keys | keys of different things differ |
| Learning API, `cmd/learning-api` | – | `LearnFromCoordinates`, `GetCompanionSources` | drops the sources of a request; parses set members | a companion learned is a companion listed |
| Storage service, `cmd/storage-service` | the two stores | `SaveValidation`, `SaveLearning`, shutdown | two stores without a transaction, errors ignored, two closes after the drain | no event precedes its record; nothing is closed in use; a stopped process exits and leaves nothing unsettled |
| Kafka producer, `internal/queue/kafka.go` | two asynchronous writers | `Send*`, `Close` | messages are sent after the call returned, retried and given up in silence | both writers are flushed before the process exits |
| Gateway, `cmd/gateway` | two addresses | forwards four methods | a second, empty server instance; one connection per call; backends, clients and the gateway itself end in any order | each method reaches its backend, a call is served at most once and ends, a dead backend fails only its own calls |
| Validator service, `internal/service` | wait group, `cacheMu` | `Validate`, `ValidateBatch`, `LearnFromCoordinates`, `Shutdown` | history, locations and points are written by goroutines after the answer; `Shutdown` waits on a counter that still moves | the history agrees with the answers, known points survive, a location never comes back, `Shutdown` waits for what was done before it |
| Configuration, model, protocol, `cmd/server` | – | – | unchecked limits | – |

The components meet in three places only: Redis (learning writes what
validation reads), the queue of the storage service, and gRPC calls.

Two facts about the commit shape the models. It does not compile: packages
`pkg/pb` and `internal/handler` are missing, some locals are unused, and
thresholds of type `float64` are compared with a `float32` confidence;
`internal/service` calls methods its packages do not have. The
models translate what the code says, and where the missing conversion decides
the outcome (a confidence equal to a threshold) they allow both results. And
the converters of the Refinement API are placeholders: they hand over no
sources and turn every verdict into VALID. Run `validation` supplies the
sources a finished converter would, because everything behind it is finished,
and its properties are about the verdict the core reached.

## 2. Modules

| Module | Models | Extends |
|---|---|---|
| `OrderedRecords` | records by number of arrival, ordered sequences | |
| `DeliveryLog` | abstract: what a write-behind store promises | `OrderedRecords` |
| `ClickHouseStorage` | `clickhouse.go` and the shutdown order of `storage-service/main.go` | `OrderedRecords`, implements `DeliveryLog` |
| `StorageService` | the handlers and `main` of `storage-service/main.go`, `kafka.go` | assumes of the store what `DeliveryLog` allows |
| `LearningCore` | `learning.go` over `redis.go` | |
| `Scoring` | `calculateConfidence`, `triangulate`, `determineResult`: operators only | |
| `Confidence` | how a verdict develops as points are observed | `Scoring` |
| `ValidationCore` | `validation.go` behind the handlers of `refinement-api/main.go` | `Scoring` |
| `Gateway` | `gateway/main.go` in front of the two APIs, their start, stop and death | |
| `DeviceTrack` | abstract: what may become of a last known location | |
| `ValidatorService` | `internal/service/validator.go` with its goroutines | implements `DeviceTrack` |
| `*Proofs` | theorems about the module they are named after | that module, `TLAPS` |
| `MC*` | the instances TLC checks | the module they are named after |

Definitions whose comment starts with `Mutated:` are not part of a model. Each
is a plausible bug in the definition it is named after, kept to show that a
property notices it (`mutants` in `PROJECT.json`).

### ClickHouseStorage

A thread is a handler goroutine, the ticker or `main` in its deferred `Close`.
`pc` says where it is, `mu` who holds the mutex. `flushLocked` is five actions,
one for each point at which it can return: `TakeBatch` (the queue is replaced),
`BeginTx`, `Prepare`, `ExecRow` per row, `Commit`. An error is `Abandon`: log,
return, and nothing refers to the batch any more. A row that fails is dropped
alone. A `Commit` whose error hides a success is the case in which it succeeds.
`StopServer` is the return of `Serve`: grpc-go returns from it when
`GracefulStop` has waited for every handler, which is why no handler is inside
the store when `Close` runs. `Restart` is the death of the process at any point,
or its end and a new start; the table survives it and nothing else does.

Records are numbered by the order of the appends, so `InOrder` is about numbers.
`accepted` and `lost` are history variables that no action reads.

### StorageService

One level up from `ClickHouseStorage`: the store is replaced by the steps
`DeliveryLog` allows it (`Queue` accepts, `Flush` delivers or loses one
record at a time; a batch is several of them), so that the handlers, the Kafka
writers and the shutdown can be explored together. That is an assumption about the
store, and nothing is claimed of it here: that `clickhouse.go` fulfils it is
`ImplementsDeliveryLog` of `ClickHouseStorage`. `Flush` translates no lines of its
own and has no entry in the map.

A handler takes `SaveValidation`, `Queue`, `Send`, `Reply`, or without the queue
`SaveLearning`, `Send`, `Reply`; between any two steps other handlers, the store
and the writers move. `Send` may be refused and the handler goes on, since the
code drops the error. The writer is kafka-go's and external: with `Async` it
holds an event until it is published or given up (`Settle`), and it may publish
one without learning of it and try again (`Attempt`). `pending`, `published` and
`dropped` are kept per topic, as `NewKafkaProducer` makes a writer for each.

`StopServer`, `ServeReturns`, `CloseKafka`, `CloseStore` are `main` from the
signal to its end, deferred calls last first. The writer's `Close` never
returns an error, so the early return in `KafkaProducer.Close` is never taken.
A `log.Fatalf` after a failed `Serve` skips the deferred calls and is one of the
deaths `Restart` stands for. A record and its event share a number;
`answered`, `unsent`, `dropped` are history.

Nothing in the repository calls the two handlers, although
`docs/architecture.md:49` draws calls from both cores; their requests come from outside.

### LearningCore

Each Redis command is one step that may fail, and between two steps of a call
any other call may take its own. `Learn` reads the companions (only the error
counts) and fixes the request; `AddCompanion` is one turn of the first loop;
`Get` and `Set` are the two halves of `update*Coordinates`; `Return` computes
the answer. A dropped read error makes `existing` nil, exactly like an absent
key. A client's retry after an error or a death is one more call.

Coordinates are kept as the sequence of blends `[by, weight]` that produced
them: the first report counts whole, the next ones 20 percent or 10. Two
entries with the same sequence have the same coordinates. Cells are pairs of
numbers in Redis keys and go through `KeyFromCell` in companion keys, where
`string(rune(n))` maps what is no code point to U+FFFD.

History: `applied` counts the writes of a point, `seen` what a call's GET knew
of it, `raced` the points at which a call wrote knowing less, `missed` the calls
a write of which failed.

### Scoring and Confidence

Confidences are integers in millionths and a score is an exact fraction, so
that the mean and the comparison with a threshold are not rounded. `Decay`
approximates `exp(-n/200)`: `Anchor` has its values at the multiples of 20, a
recursive function, and `Decay` goes from the nearest of them by a quotient that is
exact to five digits. Its error stays below 12 millionths, and like the exponential
it never rises (`DecayMonotone`); an approximation that does, as a product
rounded at each step may far out, is not good enough for `ObservingNeverHurts`.
`Best` is the best confidence of
the known points of a group, which is all `check*` hands to `triangulate`: a request
lists `Points`, several of a kind, and those in `read` are the ones whose read
succeeded, since a failed read is skipped like an absent point. The properties are
about every set of them.

Of `Confidence`, TLC only looks for the finding; its properties are theorems, and
TLC evaluates what they rest on as assumptions of `MCValidationCore`:
`ConfidenceCurve` (the curve at every count to 1000, where the code's comment puts
the maximum) and `ScoreOfGroups` (the score of every combination of five
confidences is between the least and the greatest of them).

### ValidationCore

A session is a call of `Validate` (one request) or of `ValidateBatch` (one
request after another). A request passes `Receive` (with `validateTime`),
`ReadPosition` or `ReadFails`, `Judge` (`triangulate`, the speed penalty,
`determineResult`), `UpdateDevicePosition` whatever the verdict, and `Return`
(`Validate`) or `Send` (`ValidateBatch`). Where `stream.Send` fails the client gets no
response and the handler returns: the session is `broken`, though the position is
stored. A client that cancels makes the commands under its context fail, which is one of
the outcomes each has. `Judge` reads the points one by one in the code; since a
failed or absent point is skipped, and learning goes on concurrently, what comes
of the reads is any member of `Sources`.

Time is integral: a second is `Second` ticks, and a `time.Duration` wraps around
at `Word`. Places lie on a line; `validateSpeed` only compares a distance with a
speed, and the properties only use that it is the same distance.

History: `seen` remembers of a request when it arrived and whether another
request of its device overlapped it; `recent` is the set of requests done with
that may be a device's last: more than one only when several overlapped.

### DeliveryLog

Records are accepted in order, delivered in order at most once, or given up and
then never delivered. It promises no delivery, because the code does not.

### Gateway

A call has up to three parts: its client (`client`), the handler of the gateway
(`gate`) and the handler of the API (`work`); a client may call an API directly,
as `docker-compose.yml` publishes all ports. `Call` is the arrival, `Dial` what
`grpc.Dial` and the sending half of the forwarded call do (grpc connects when a
call needs it, and fails at once if it cannot), `Serve` the handler of the API
as far as its error is concerned, `Forward` and `Answer` the way back.
`Cancel` and `Abandon` are a client that gives up and the handlers that notice.

`Signal` and `Exit` are a graceful stop, `Crash` a death, `Start` a new start; an
API does not start without the stores its `main` needs (`Needs`): Redis, and for the
Learning API also ClickHouse, which no call touches. What a handler computes is not in this module:
`ValidationCore` and `LearningCore` have it. `Validate` turns every Redis failure
into a verdict, so its handler never fails; `Learn` and `GetCompanionSources` pass
on any error of their Redis command, be Redis down or up (a timeout, an exhausted
pool). `Address` has the two registrations of `main`: one
`gatewayServer` has both addresses, the other none.

History: `served` counts the runs of an API's handler, `unavailable` says which
processes a call missed, or had an error of.

### ValidatorService and DeviceTrack

A session is a call of `Validate`, or of `ValidateBatch`, which holds `cacheMu`
around each request of its stream. A request goes through `Receive`, `Lock`
(streams), `Locate` (time, location, speed), `ReadKnown` or `ReadUnknown` for each
point, `Decide` (result, history), `Move` (location, unlock) and `Send`. `Go` is
`wg.Add(1)` and the start of a goroutine, which is a record in `tasks`; `Record`,
`SaveToHistory` and `SetLastKnownLocation` are their bodies and `Done` their end.
`Shutdown` starts a goroutine that waits (`Wait`, `Resume`) and returns with it or
with its context. The wait group does what `sync` says: the last `Done` releases
the waiter, and a waiter that finds the counter moved when it comes to run
panics (`crashed`). Who calls `Shutdown`, and whether the server was stopped
before, is not in the repository, so it may come at any time.

The methods of `cache` and `storage` used here are missing from the repository;
each is one command that may fail. Points of one kind behave alike but for Bluetooth devices,
which nothing records. The confidence is counted in percent.

History: `decided` and `answered` are the verdicts found and told, `unsaved` the
rows that failed, `blinded` the known points whose read failed before they were
recorded, `handled` the requests that were done with when `Shutdown` was called.

`DeviceTrack` is the promise about locations: an accepted request hands its
location over once, and it becomes the device's or is dropped, in any order. It does
not promise the latest, because the goroutines of two requests may swap, even
within one stream. It excludes locations of refused requests, of other devices,
and one that returns after it was replaced.

## 3. Runs

| Run | States | Question |
|---|---|---|
| `clickhouse` | 31 thousand | do handlers, ticker, `Close`, failures and a death keep the promises of the store |
| `clickhouse_retry` | violation | is a failed batch retried |
| `storage` | 794 thousand | do table, topics and answers fit together while handlers, writers, shutdown and a death overlap |
| `learning` | 100 thousand | what can concurrent calls, failed commands and a death make of entries, companions and answers |
| `learning_version` | violation | does every update increment the version |
| `learning_companions` | violation | does the companion set tell cells apart |
| `confidence_boost` | violation | does a known point raise confidence |
| `validation` | 537 thousand | which position judges a request, what does a verdict guarantee, is every request answered |
| `validation_speed` | violation | is a request at an impossible speed INVALID |
| `validator` | 1.7 million | what do the goroutines make of history, points and locations, and what does `Shutdown` wait for |
| `gateway` | 315 thousand | what do calls see of deaths, stops and cancels |
| `gateway_learning` | violation | are learning calls routed to the Learning API |

**Properties.** `clickhouse`: order (`InOrder`), accounting (`Accounted`),
mutual exclusion through error returns (`OneFlusher`), bounded memory
(`QueueBelowBatchSize`), shutdown (`CloseDrains`), refinement
(`ImplementsDeliveryLog`), and three liveness properties: every record is
written or given up, calls return, `Close` returns. `storage`: an event is never ahead of its record (`EventsFollowRecords`), what an exit leaves
(`CleanExit`), and that a process
told to stop exits unless it is killed (`StopIsClean`). `learning`: updates are lost
to races and dropped errors only (`NoUpdateLost`), entries are consistent even
then, no report counts twice, learning is kept, answers follow sources, calls
end. `validation`: freshness up to overflow, speed judged from the last position,
impossible speed not VALID, every request answered or its stream broken. `validator`: nil from
`Shutdown` means that nothing of earlier requests is under way (`ShutdownWaits`),
its panic needs later ones (`OrderlyShutdown`), its goroutine is woken
(`WaiterIsWoken`), the history agrees with the answers (`HistoryMatchesAnswers`),
known points are kept (`KnownPointsAreKept`), locations are a `DeviceTrack`.
`gateway`: a failed `Validate` is the fault of its own path
(`RefinementIsIsolated`), no call is served twice (`ServedOnce`), calls and stops
end (`CallsAndStopsEnd`). Each module has one `TypeOK`, checked or proved.

**Bounds.** `ClickHouseStorage`: two handlers, calls of one and two records,
batches of three, five records, one death. So a call can overshoot a batch,
two flushes follow each other, a caller waits while another flushes, and the
ticker finds part of a batch. `StorageService`: two
handlers, three requests, one death: a handler can overlap with one request and
finish another before the death or the stop. `LearningCore`: two calls, five requests (empty,
one source, one source twice, a known and a new source, two colliding cells),
one death; a race needs two calls and no property relates three.
`Confidence`: two access points, a cell tower and a beacon, at
the counts around which the shape of a confidence changes. `ValidationCore`: a stream and a single call, three requests,
two devices, a clock of two seconds; a third request is needed to be judged
after two that overlapped; its requests of one device are a second apart, near and
too far, at the same second, and of an age that does not fit an `int64`; another may be
in the future. `validation_speed` stops at its counterexample. `ValidatorService`: two streams and a single call, two
requests, one failure: two requests are enough for goroutines that swap, for one
that is still under way at `Shutdown` and one that comes later; the third session
makes the lock contended by a stream while a call without it goes on. Its requests
name an unknown point and known ones, one of them a Bluetooth device, and the second
location is too far from the first for its speed. `Gateway`: two calls and two
stops or deaths: one of the process a call is in and one of the process it waits
for. `MaxRecords`, `MaxRestarts`, `MaxRequests`, `MaxFailures` and `MaxStops` are
guards of `Call`, `Restart`, `Arrives`, `Receive`, `Fail`, `Crash` and `Signal`.
Symmetry (of the streams) is used in run `validator` only, whose properties are
all about safety; the other runs check liveness. Deadlock is checked in every run: the states in which the
program has ended have a stuttering step of their own (`Stopped`, `Exited`, `Finished`,
`Saturated`, `AllEnded`, `Halted`, `Idle`).

**Fairness.** `ClickHouseStorage`: each step of `flushLocked` is weakly fair,
because its context expires after 30 seconds and each database call returns.
Taking the mutex is strongly fair, because a Go mutex in starvation mode hands
over to its oldest waiter; for the ticker also because it ticks for ever.
Arrival of calls, shutdown and death are not fair. `StorageService`: handlers and
`Flush` are weakly fair because of what run `clickhouse` shows of the store
(`CallersReturn`, `EveryRecordSettles`), `Settle` because a writer makes a limited
number of attempts, each with a timeout, and `main` because it runs. Requests,
`StopServer`, `Attempt` and `Restart` are not fair. `LearningCore` and
`ValidationCore`: every step of a running call is weakly fair, because a Redis
command returns or times out. `Learn`, `Receive`, `End`, `Tick` are not fair.
`Gateway`: the steps of a handler are weakly fair, since commands and
connection attempts time out and a broken connection is noticed, and so is the
end of a drained server; calls, cancels, signals, deaths and starts are not.
`ValidatorService` states no fairness: every behaviour of the instance is finite, so that
deadlock freedom says what liveness would.

## 4. Proofs

All theorems hold for every value of the constants under the `ASSUME`s in the
modules, which TLC evaluates in every run of them; those of `Confidence` have
`PointsAssumption` as a hypothesis (each point is of a group, counts are positive).

**ClickHouseStorage.** `InOrder` and `Accounted` are not inductive: that a flush
does not reorder depends on nobody else moving records meanwhile. The invariant
has three layers. `TypeOK` is inductive alone. `Mutex` adds to `OneFlusher` and
`QueueBelowBatchSize` what each place implies of the three sequences (`Inside`:
the batch is empty until it is taken, the queue is empty from then until the
mutex is free) and what shutdown has established (`Shutdown`: when `Closer` has
moved, no writer is in a call). On top of both, `Order` says that table,
transaction, batch and queue form one increasing chain that with `lost`
partitions `1 .. accepted`. Each stage change keeps the chain since
concatenating neighbours keeps it (`OrderedRecordsProofs`). `Refinement` follows:
`QueueValidations` is `Accept`, `Commit` is `Deliver`, error returns and `Restart`
are `Lose`, everything else stutters. It gives `LostIsForGood`: a record that was given
up is never written later, since no step of a `DeliveryLog` takes a record out of `lost`.

**LearningCore.** `EverySourceIsCompanion` is about the operators:
`isCompanion` compares keys built by the same function from the same request,
so colliding keys cannot make a source random. `AnswersFollowSources` uses it,
which shows RANDOM_EXCLUDED, LEARNED and the weight of 10 percent unreachable.
`NoUpdateLost` and `EntriesAreConsistent` need `Knows`: what a call holds
between GET and SET is an entry that was consistent when it was read, and it is
still the current one if nothing was written since. `LearnedStaysLearned` needs
`Progress` (what a call's position says about the sources behind it) and that
Redis only ever gains entries and members (`RedisGrows`).

`NoReportBlendedTwice` counts over the whole history of an entry, and calls copy
histories, so its invariant `Weights` is about every history there is: those in
the cache and those a call has read and will replace (`Weighed`). In each of them a
call occurs at most as often as its loop has gone past the point (`Passed`). A write
adds one to both sides (`PassedGrows`, `BlendsUpdated`), and no step takes a position
out of `Passed`.
`VersionsIncrementUnlessRaced` and `CompanionsOfCodePoints` bound two findings: with
no race and no failed read at a point its version goes up by one with each write, and
with cell ids that are code points no two sources share a companion.

**Confidence.** `Anchor` is a recursive function, of which a prover only knows that
it is *some* function that satisfies its equation if there is one. So
`IterationExists` constructs one (starts of every length, extended one by one),
and `AnchorDefined` concludes that the equation holds. Induction goes over sets:
`NaturalsOf` says that a set with 0 and all successors is `Nat`, from the
well-foundedness of the naturals alone. `DecayFalls` has two cases, one step within
the reach of an anchor and the step to the next one (`AnchorsMeet`); `DecayMonotone`
follows by induction, and a few values (`DecayValues`) fix the thresholds. From there
`ScoreAtLeast` and `ScoreAtMost`, a bound on the known confidences is a bound on the
score whatever groups know one, give `ScoreIsWeightedMean`, `ManyObservationsAreValid`
(each group in which a point is known needs one of 400 observations: one group that does
not have it can pull the mean below the threshold) and `OtherPointsBoost`;
`ObservationsNeverHurt` compares two scores term by term. `BestConfidences` says what the
best of several points is. The
invariant is only that counts are numbers; the depth is in the arithmetic.
`LaterObservationsCost` and `OtherPointsBoost` bound the finding of `confidence_boost`
exactly: 2 to 75 observations are worth less than one.

**ValidationCore.** `AcceptedAreFresh` follows from what each step of a session
implies of its request (`Local`) and from the wrap-around lemmas. `SpeedIsJudged`
needs a statement about the shared position: `Held` says that the stored
position of a device is that of a request done with that may be the last, or of
a session about to be, and that no such session hides it. With
`Undisturbed` (nothing happened to the device of a request that is alone) and
the uniqueness of request numbers (`Unanswered`, `Used`), the position a lone
request reads is one of `seen[s].before`. `ImpossibleSpeedIsNotValid` then needs
the bounds on the score that start the module: no combination of known points scores
above 0.95 (`ScoreBounded`), so half of it never reaches 0.8 (`HalvedIsNotValid`).

**StorageService.** `EventsFollowRecords` needs `Known` (a handler that is past
`Queue` has a number the store gave out, and numbers are never taken back, not by
a restart). `CleanExit` needs `Closing` (which stage of `main` has emptied what) and
`Answers` (an answered event is with its writer, published, given up or refused).

**ValidatorService.** The invariant has seven parts besides `TypeOK`: `Shapes`
of the goroutines; `Order`, that a request has one session whose place tells which
goroutines it can have started, from which a new goroutine is new (`NewIsNew`);
`Counted`, that the wait group is the number of goroutines, and not zero while the
waiter sleeps; `Closed` about `Shutdown`: no session works on a request in
`handled`, so no later goroutine can be of one; `Blind` about known points; `One`, one
verdict for each request; `Agreed`, that rows, answers and goroutines carry it.
Each has a lemma for the steps of sessions, of goroutines and of `Shutdown`.
`NeverUncertain` is a by-product: with a confidence that starts at 100 percent
and only grows, the branch to UNCERTAIN is dead. In `Refinement`, `Decide` is
`Accept`, `SetLastKnownLocation` is `Settle`, and `Move` stutters because the location
passes from the session to its goroutine. Two consequences are drawn through the
refinement: `LocationsOfAccepted`, a refused request never moves its device (in
`ValidationCore` it does), and `NoLocationComesBack`: a request that is accepted and no
longer coming stays so, and only one that is coming can become the last.

**Gateway.** `RefinementIsIsolated` needs `Blamed`, that each handler that failed
has its reason in `unavailable`; `ServedOnce` needs `Served`, that a count of one
goes with a handler that is at its end or gone. On top of that invariant,
`LearningIsNotRouted` shows that the finding of `gateway_learning` is no accident of
an instance, because no learning call passes the gateway whatever is up.

**Model-checked only.** Liveness (`EveryRecordSettles`, `CallersReturn`,
`CloseReturns`, `StopIsClean`, `CallsEnd`, `RequestsAreAnswered`,
`CallsAndStopsEnd`) and the absence of deadlock, since fairness and `ENABLED` are beyond
the prover. Every invariant and action property of a passing run is
stated by a theorem. That `Decay` is close to the exponential is not, the
exponential being no function of these modules.

## 5. What the checks found

Each but the last is the counterexample of a run.

- `clickhouse_retry`: a failed transaction costs its whole batch; the checklist
  promises a retry.
- `learning_version`: a failed GET, or a race, overwrites an entry with one that
  is not newer; the checklist promises an increment on each update.
- `learning_companions`: cells with ids beyond 1114111 share a companion key;
  the architecture document says the key holds the id.
- `confidence_boost`: a point observed twice has confidence below 0.01, less
  than the 0.3 of an unknown one; it takes 76 observations to get back. The
  checklist promises a boost.
- `gateway_learning`: a learning call through the gateway is forwarded to no
  address; the checklist routes it to the Learning API.
- `validation_speed`: a request at an impossible speed is UNCERTAIN when its points
  are well known; the checklist says INVALID, twice (lines 40 and 79). What holds
  is `ImpossibleSpeedIsNotValid`.
- `learning`: the checklist (lines 85 to 87) and `docs/learning-model.md` say that a new
  source is answered NEED_MORE_DATA, a stationary one LEARNED and a random one
  RANDOM_EXCLUDED. The code does none of the three to any request: with a source it
  answers STATIONARY_DETECTED, without one NEED_MORE_DATA. Since that is so of every
  request, it is the passing property `AnswerFollowsSources` and a theorem, and no
  counterexample.

Consequences of the code that the properties state as they are: a request as old
as to overflow a duration may pass for fresh (`AcceptedAreFresh` excludes it by
name); a refused request moves its device all the same (`SpeedIsJudged` counts it
as the last one); a known point is overwritten when its read failed
(`KnownPointsAreKept` excludes exactly that); a request that another of its device
overlaps may be judged by a position that is no longer the last (`SpeedIsJudged` claims
nothing of it); `Shutdown` may panic if requests are
still coming (`OrderlyShutdown`). Two more are plain reading: the handlers of the
storage service answer Success although their event was refused, and the
placeholder converter answers VALID whatever the core found.

## 6. Not modelled

- Latitude, longitude, accuracy and reasons: no decision but the speed depends
  on them. Floating-point rounding, except at thresholds.
- A Redis SET that is executed late, after its caller gave up: commands are
  atomic and take effect, if at all, while they are called.
- `InsertValidationSync`, `MGetWifi`, `MGetCell`, `SendRefinementBatch`,
  `SendLearningBatch`: nothing calls them.
- A second replica of the storage service (`docs/architecture.md:182` has two):
  replicas share nothing but the table, so `table` stands for the rows of one.
- Unusable configuration (`BATCH_SIZE` or `FLUSH_INTERVAL` of zero or less).
- Generated code, Docker and Kubernetes files, rate limiting, circuit breaker
  and health checks, which exist in documents only. Admin, metrics and
  statistics methods return constants.
- The text that `GetCompanions` parses out of a set member, and the list
  `GetCompanionSources` builds of it: only its error is in `Gateway`.
- `ValidateBatch` of the gateway, which hands its stream to the client of the
  backend as a call option and does not compile.
- Of `internal/service`: `LearnFromCoordinates` and the absolute coordinates,
  which only forward to methods of `cache` that are not in the repository, so that
  there is no code to say what they do; `UpdatePointStats`, whose tables nothing reads;
  the configuration, statistics and admin methods, which return constants.
- `cmd/server`, which starts a package the repository does not contain.

## 7. Plan

1. `GetCompanions` with its parsing, over `LearningCore` (abstract specification:
   a companion learned is a companion listed), when one more run is worth it.
2. `System`: validation while learning goes on, with `Sources` of `ValidationCore`
   being what `LearningCore` wrote.
3. More consequences of the abstract specifications, drawn through the refinements as
   `LostIsForGood` and `NoLocationComesBack` are.
