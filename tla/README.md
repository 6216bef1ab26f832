# Verification of stardust.mini

TLA+ models of the concurrent and distributed parts of stardust.mini, a Go
service framework (HTTP/gRPC servers, APISIX registration with leader election,
etcd registration, NATS and Redis messaging, WebSocket sessions, limiters,
breakers, database access), with TLC runs that check them on small instances
and TLAPS proofs of the properties that matter most.

`PROJECT.json` holds the machine-readable side: the components, the runs, the
source lines every definition models (`map`), the mutants that show that each
property can fail, the hazards, the findings and the theorems.

    tlc -workers 2 -config ApisixLeader.cfg MCApisixGateway   # a run
    tlapm ApisixGatewayProofs.tla                             # a proof module

## 1. The system and how its parts interact

| Part | Source | State and operations | What is hard about it |
|---|---|---|---|
| Shared calls | `syncx/sharedcalls.go` | map key -> call in flight; `DoEx`, `Do` | a caller joins while the owner finishes; `fn` panics |
| APISIX gateway | `register/apisix.go`, `apisix_leader.go`, `gateway.go` | upstream and routes in APISIX, a Kubernetes lease, a controller per registration; `RegisterService`, `DeregisterService`, `Close`, `Start`, `Stop` | two pods, late requests of an old leader, a crash with the lease, `Stop` waits under a mutex |
| WebSocket manager | `http_server/ws_client_manager.go`, `ws_client.go` | client tables; unbuffered register, unregister and broadcast channels; a reader and a writer per client | many goroutines, full buffers, shutdown from two places |
| Id generator | `uuid/uuid.go`, `uuid_mgr.go` | last millisecond, number, worker; `Get`, `Unmarshal` | numbers run out in a millisecond, clocks step back |
| Service group and servers | `service/*`, `http_server/server*.go` | list of services; `Start`, `Stop`, a signal | stop during start, two callers of `Stop`, requests that outlast it |
| etcd registration | `register/etcd.go`, `service.go` | lease, key, keep-alive | registration races with `Stop`, revocation fails |
| etcd discovery | `register/etcd.go`, `http_server/grpc_resolver.go`, `grpc_client.go` | snapshot, watch, resolver state | snapshot and watch are two calls |
| Limiters | `limit/*`, `http_server/middleware/ratelimit.go` | counters in Redis, counters in the process | end of a window, late requests, Redis failing for some requests |
| Breaker, shedder | `breaker/*`, `load/shedder.go`, `http_server/middleware/*`, `http_server/interceptor/*` | rolling windows, requests in flight | promises that are never resolved, unlocked state, window rotation |
| NATS messaging | `nats/*` | streams, consumers, subscriptions | redelivery, self-healing, concurrent `EnsureStream` |
| Redis notifications | `redis/redis_notification.go` | keys with expiry, a lock per value | lock without expiry, late nodes |
| Databases | `databases/*` | a session with its transaction; `SessionWrapper`, `WarpSession`, entities | panic inside a transaction, a wrapper that is copied, a lost answer to COMMIT |
| Try/catch | `errors/try_catch*.go` | try, catch, default, else and finally blocks | blocks that panic themselves |
| Singletons | `conf`, `logs`, `i18n`, the managers of `databases`, `redis`, `nats`, `clickhouse`, `mongodb`, `register.Init` | an instance behind a `sync.Once` | callers before `Init`, failures inside the `Once`, reads around it |
| Codecs, utilities, thin clients | `codec/*`, `utils/*`, `jwt/*`, ... | pure or handed on | - |

The service group starts the servers and stops them in reverse order. A gRPC
server registers itself in etcd; an application publishes its HTTP routes
through the gateway to APISIX, in leader mode from the pod that holds a
Kubernetes lease. On the way to a handler a request passes the guards installed
on its route: limiter, breaker, shedder. A WebSocket connection is handed to the
manager, whose session ids come from the id generator. Clients resolve servers
through etcd. Handlers use databases inside try/catch blocks, publish to NATS or
put delayed notifications into Redis, through managers that are built once.

## 2. How the project is built up

1. `SharedCalls`, the smallest concurrent component, and `Flights`, the abstract
   specification that it implements.
2. `ApisixAdmin` and `ApisixGateway`: the core of the repository.
3. `WsManager`, `Snowflake` and `ServiceGroup`; `Registry`, which `ServiceGroup`
   implements and `Discovery` reads.
4. `Clock`, `RollingWindow`, `PeriodLimiter`, `TokenLimiter`, `GoogleBreaker` and
   `AdaptiveShedder`, composed in `Middleware`.
5. `Nats`, `RedisNotification`, `TryCatch`, `Sessions`, `Singletons` and
   `Discovery`, which `MCBackends` runs.
6. Eight proof modules (section 6), which state every safety property of the
   passing runs for all values of the constants.

Open: the sliding-window claim of the period limiter as a run of its own; an
abstract single-writer registry that `ApisixGateway` with one caller per pod
implements.

## 3. Modules and the code

**SharedCalls.** One member of `Invocations` per call of `DoEx`; a `*call` is
named after the invocation that created it. `calls` is `sc.calls`. Each critical
section of `sc.mu` is one action, so is `wg.Done`; `fn` returns a value, an error
or panics.

**ApisixAdmin** is the admin API as the gateway uses it (external): an upstream
and routes, each tagged with the pod that wrote it, and the requests a client has
given up and that may still be served (`late`). **ApisixGateway** adds the
processes: callers of the three methods and the `OnStartedLeading` goroutine of
each controller. `leaderMu`, `leaderCtl` (`leaderControllers`) and `routeIDs`
are per pod; `phase` is where `run`/`RunOrDie` is (`electing`, `leading`,
`ended`, `released`, `done`). An HTTP request is sent, served, and answered in
separate steps and can fail before, at or after the server. client-go's elector
and the Lease object are external: one identity per pod, expiry only when nobody
renews, release on cancel if the API server answers.

**WsManager.** A send on an unbuffered channel and the loop's receive are one
step, what the loop then does under `mu` the next. `shutdownClients` takes the
clients under the lock and closes them one by one afterwards, in the loop and in
`Stop` at the same time. A message is only counted, against the capacity of
`send`.

**Snowflake.** `Workers` are the `UuidWorker` objects, each with the clock of its
machine. `Get` is `GetNext`, `GetSame` and, when the numbers have run out,
`GetWaited`; an id is kept in parts and packed by `Id` with the real bit layout
(a number past `numberMax` runs into the worker's field).

**ServiceGroup.** A start goroutine, and `Stop`, is the list of the steps it has
still to take; the steps are the places where the others, net/http, grpc or etcd
can come in. The etcd registration of the gRPC server (`registry`, `leaseID`,
`lease`, `key`, `keepAlive`) is part of it.

**Registry** is what etcd shows of the servers to whoever looks them up: a key is
there for at most one stretch of time. `ServiceGroup` implements it
(`RegistersOnce`, through `Registered`), so that **Discovery** can take it for
its environment: `Watch` reads a snapshot, its goroutine starts etcd's watch
afterwards and reads again at every event, the resolver's goroutine hands what it
receives to gRPC, and `Close` may come before `watch` has set `cancel`. That a
change falls between the snapshot and the watch is recorded in `missed`.

**Flights** is what callers of `SharedCalls` see: a key has at most one flight,
callers board it until it is closed, and leave after it has landed.

**Nats.** Connections to a server that holds a stream, durable consumers and
messages (external: work-queue retention, which refuses two consumers with one
filter, redelivery after `AckWait`, queue groups of core NATS). Each connection
has one subscription: `StartSubscription` and the self-heal of its goroutine go
through the same steps (`ReadStream`, `EnsureStream`, `LookupConsumer`,
`DeleteConsumer`, `AddConsumer`, `PullSubscribe`, `AppendSubscription`), one per
request to the server; then `Fetch`, `Handle`, `Ack`. `Start` reconciles the
stream at first and after every reconnection. `s.subject` is appended to without
a lock, so an append that meets a `StopSubscription` may lose either write. The
subject of a pull subscription is taken to compare as `StopSubscription` expects,
and the order of messages within a batch is left open. Two histories say what a
handler is entitled to: `owed`, the messages that the server is to give out (all of
them at first, then those that are due again after `AckWait` or after their
consumer was deleted), and `turn`, what it has given to a connection and no handler
has run for yet.

**RedisNotification.** Every node hears of an expired key, decodes it, and tries
SETNX and then GET on the lock of the value; the node that has it runs the handler
and puts the value again or unlocks. `decodePayload` is modelled on sequences of
characters, since two values that decode alike share a lock; no value holds a
number behind a `||` of its own. The lock has no lifetime.

**TryCatch** has the blocks of `TryFunc` and of the chain; **Sessions** extends it
with what the try block does: statements in a session or outside one, by a
`SessionWrapper` whose result is used or dropped (`chained`), by `WarpSession` or
by an entity. A write is a number that is pending or durable. COMMIT may fail, or
take place with its answer lost (`unsure`).

**Singletons.** Nine packages build one instance behind a `sync.Once`. A record
per package says after how many of its parts the variable is assigned, what a
call before `Init` finds, and whether readers go around the `Once`.

**Middleware.** A request is at a guard of the `chain` of its route, moves
`Forward` (`c.Next`) and comes `Back`. The guards' own state and operations are
in `PeriodLimiter`, `TokenLimiter`, `GoogleBreaker` and `AdaptiveShedder`, on
the `Clock` and the `RollingWindow` they share. A Lua script and a critical
section are one step; what is not under a lock is split: the time a request
carries is read before the script runs, the shedder reads `flying`, computes
`maxFlight` and notes a drop in separate steps, and a read of `dropTime` that
races with its write may come out either way. The load of the CPU and the chance
with which an open breaker drops are nondeterministic inputs. Sums over a window
are the loop of `sum` (`SumOf`, a recursive function); what the guards let pass is
kept in histories that count up along the `Clock`, from which `Events` takes what
falls into a span of time. A handler returns
below 500, at or above 500, or panics past all guards to `gin.Recovery`.

Mutants stand before the definition they change, with a comment that says what
is wrong with them; no specification uses them.

## 4. Runs

| Run | Instance | Shows |
|---|---|---|
| `shared_calls` | 2 keys, 4 calls | one execution per key at a time, callers only get results of finished executions of their key, callers see only what `Flights` allows, every call settles unless `fn` panicked |
| `apisix_leader` | 2 pods in leader mode, 3 controllers, 1 fault | no running controller is forgotten, one term at a time, exits do not delete routes with the default flag |
| `apisix_takeover` | 2 pods, a late request, a fault | a service is not left without a leader; what the lasting leader publishes gets into APISIX and stays |
| `apisix_reregister` | 1 pod, 2 callers, 2 controllers | every call returns although `Stop` waits with and without `leaderMu` |
| `apisix_modes` | 4 pods: single, single without deletion, off, leader with rejected timing | `DeregisterService` that returned nil has removed what the pod wrote |
| `apisix_leader_deregisters` | 2 pods in leader mode with `DeregisterOnShutdown` | violation: the leader deletes nothing (section 7) |
| `ws_manager` | 2 connections of one user, buffer of 1 | no accepted client is lost or held twice; shutdown closes all; nobody is left waiting; no goroutine or dead entry is left |
| `snowflake` | 2 workers, 2 numbers per millisecond, 3 ms, one step back | ids are unique until a clock steps back or `Get` waits; `Unmarshal` inverts the packing |
| `snowflake_overflow` | the same, no step back | violation: an id is returned twice (section 7) |
| `service_group` | cleanup, HTTP and gRPC server, two callers of `Stop` | what was started is stopped, cleanups come last, `Start` returns, the registration in etcd ends and never comes back (`Registry`) |
| `middleware` | 2 requests at a time, up to 4 in all; each guard alone and the breaker around the shedder | bounds of both limiters, the windows against the history of results, what is in flight, and on what each guard may refuse |
| `backends` | NATS: 2 connections in 5 configurations; Redis: 2 nodes, 2 values with one lock, 2 delays; sessions: 2 statements in 4 modes inside every form of try/catch; singletons: 3 readers, 2 parts; etcd: 2 servers; one fault each | handlers run once per delivery and nothing acknowledged was not handled, a served queue drains, subjects get lost only by a stale read; one handler at a time per notification, which settles; transactions are whole and closed; a `Once` gives all or its failure; the resolver catches up and its goroutines end |

*Bounds.* Two pods suffice for every conflict over the lease and the routes; a
third controller lets one pod register again while its old controller ends. One
lost lease, crash or ended context is the fault that starts a takeover; a second
one repeats it. `MaxLate` is 1 where late requests matter. In `ws_manager` the
second client meets the first in every place (the loop, both shutdowns, the user
table) and a buffer of one is both empty and full. In `snowflake` two numbers
make the end of a millisecond reachable in three calls. In `middleware` the
period, the windows and the quotas are as small as they can be with their
boundary inside the horizon; `Limits` bounds time and requests for each chain
separately, chosen in the initial state. In `backends` the initial state chooses
the package, since none of them calls another. Two connections cover the clashes
over a stream, a durable or a subject, which are configurations of their own;
`MaxSubs` bounds the self-heals, which two connections with clashing durables
provoke in each other for ever. One fault per package is enough for each of its
error paths, and every other step meets it at every place. Two statements make
one that succeeds before one that fails, two parts a half-built instance, three
readers a builder, a waiting and a late caller. The invariants that are proved do not
depend on any of these bounds.

*Deadlock* is checked where the system must go on (`shared_calls`,
`ws_manager`). Elsewhere the bounds on calls, time or requests, or the end of the
process, end the behaviours, and what must still happen is stated as liveness.

## 5. Fairness

- Goroutines that can run do (`WF` of their steps). Calls, faults, signals,
  arrivals and messages are never fair.
- `select` chooses at random among ready cases, so a case that is ready again
  and again is taken: `SF` of `RegisterReceived`, `UnregisterReceived`,
  `LoopStops`.
- Electors retry until they get the lease (`SF` of `Acquire`); a lease that
  nobody renews expires; a request ends at the latest by the client's timeout.
  For `LeaderContentWins` APISIX must not refuse or lose the requests of a
  leader for ever (`SF` of `ServerAccepts` per resource): the reconciling ticker
  repeats them.
- In `ServiceGroup` the handlers of RPCs return, for `GracefulStop` waits for
  them without a limit. HTTP handlers need not: `Shutdown` gives up after ten
  seconds.
- NATS: the client reconnects or gives up, the server redelivers what nobody
  holds, fetch goroutines go on. Nobody has to publish, subscribe, stop or run
  `Start`. Redis: keys expire and nodes go on. etcd: goroutines go on and the watch
  of a closed client ends; a watch that etcd ends is a fault, not fair.
- `Middleware`, `Sessions` and `Singletons` have safety properties only.

## 6. Proofs

The theorems hold for every value of the constants under the `ASSUME`s of the
modules, and under the assumptions named below, which the theorems state
themselves. The `ASSUME`s give the constants their types, keep `None`, `Nothing`
and the like apart from the values proper, and ask for what the constructors and
defaults of the code provide: periods, rates, bucket counts, durations and field
widths are positive (`PeriodConstants`, `TokenConstants`, `BreakerConstants`,
`ShedderConstants`, `SnowflakeConstants`), and a chain has at most one shedder
(`MiddlewareConstants`). TLC evaluates them in the runs. The bounds of the runs
(`MaxNow`, `MaxSubs`, `MaxCalls`, ...) are constants like the others.

**BackendsProofs**
- *Shared calls.* `MapMatchesExecutors` is inductive: a key is in the map exactly
  while one invocation of that key is between its insertion and its deletion (or
  has panicked), and joined calls belong to the same key. Single flight, results
  and removal follow from it, and with `Positions` (who has joined, and where)
  every step maps to a step of `Flights` or to none (`SharesFlightsHolds`).
- *Singletons.* `CompleteWhenReturned` for any number of readers and parts: one
  reader builds while the `Once` runs, and a `Once` that is done has built
  everything or failed (`Built`).
- *Sessions and try/catch.* `AllOrNothing` needs `InStep` (the DAO and the database
  agree on whether a transaction is open) and `Opened` (what holds until the
  session is over); `FinallyCloses` needs `Trace`, the sequence of the blocks that
  have begun. A try block may have any number of statements (`MaxCalls`).
- *NATS.* `SubjectsKept` is proved action by action: only a reconciliation changes
  the subjects of a stream that stays, and it adds to what it has read.
  `ConsumedOnce` needs two invariants. `WorkQueue` is about the server: no two
  consumers have the same filter, what a consumer has delivered is of its filter,
  and a stored message that is not owed is out with some consumer; so what a fetch
  can give out is owed (`AvailableOwed`), and gives a turn. That one filter has one
  consumer is the work-queue retention that `EnsureStream` asks for; with the
  default retention the statement is false. `Serving` is about each goroutine: it
  fetches from a stream only, what it acknowledges has been handled, and it has a
  turn for the rest of its batch; a step of one connection leaves the others what
  they have (`Aside`).

**ServerProofs**
- *Ids.* For distinct worker ids `OrderedWhileSteady` keeps the (time, number)
  pairs that a worker returned without waiting below its current pair while no
  clock was set back; two packed ids are equal only if their parts are
  (`IdInjective`, from `FieldsApart` on the bit fields). `UnmarshalRecovers` needs
  only that such a number is within its field (`Numbered`), for all clocks.
- *WebSocket manager.* For distinct session ids `Accounted` is inductive together
  with the types and the links between loop and client (`Shape`); `AllKicked` adds
  that the loop leaves with both tables empty.
- *Redis notifications.* `OneHandler` for any number of nodes, values, delays and
  faults, with `Counts`: the counts in the inboxes are in range and a node that
  puts again has a delay left.

**ServiceGroupProofs.** For any list of services with at most one gRPC server
(`OneGrpc`) the group implements `Registry`: `OneLease` says that a start goroutine
that has not asked for a lease finds that there never was one, and that the key is
there only with a living lease. `StopsWhatWasStarted` has the invariant `Stops`:
where every start goroutine and the loop of `Stop` can be, as lists of steps, and
what each step of `Stop` leaves behind for good (`HttpDown`, `GrpcDown`).
`CleanupComesLast` adds that the others have been stopped (`OthersStopped`), for
lists that begin with the cleanups (`CleanupFirst`): their reverse order runs them
last.

**ApisixTypeProofs**: the type invariant, which also says where requests may be
under way and that the loops over routes do not run past their list (`Located`).

**ApisixGatewayProofs**
- With one caller per pod (`OneCallerPerPod`) `ControllersTracked` is inductive:
  every running controller is listed and started, or a caller that took it out
  waits for it; a leader holds the lease; and each caller may rely on what it has
  seen (`CallerView`: once the old controller is done, none of the pod runs).
  `OneTerm` follows: two leaders hold the lease, so they are of one pod, whose
  running controllers are one. With two concurrent callers a `RegisterService`
  between the removal of a controller in `DeregisterService` and the end of its
  `Stop` starts a second controller with the same identity.
- `RoutesSurviveExit` is proved when no pod is to deregister (`KeepRoutes`), from
  the invariant that no process or late request deletes (`NoDelete`).
- `DeregisteredIsGone` is proved for what the run `apisix_modes` instantiates
  (`Prompt`), with the invariant `GoneInv`: a pod whose upstream has been deleted,
  and who has not begun to write again, has nothing in APISIX. The code deletes the
  routes that it remembers, and it does not remember one whose PUT was executed and
  reported as failed; what rules this out is that APISIX refuses to delete an
  upstream that a route still uses (`AcceptsAbsent`). Hence each part of `Prompt`: a
  route with an upstream of its own (`Inline`) would be left, a request that
  outlives its client (`MaxLate`) or a second caller could write afterwards, and a
  leader deletes nothing at all (section 7), so that a pod in leader mode is covered
  only while its election cannot be won.

**GuardProofs, RequestProofs, MiddlewareProofs.** The first is about the guards'
own state, the second about where the requests are in any chain, the third puts
them together in `MiddlewareInv` and derives the theorems about the composition.
- `PeriodBounded`, `RefusedOverQuota` (`PeriodInv`): a counter is between windows,
  and then at most a quota has passed in the last period, or within one, and then
  at most a quota has passed in it and as much in the period before (`Between`,
  `Within`); for the refusals, everything that the quota allows has passed in a
  live window of Redis (`Exact`).
- `TokensBounded` (`TokenInv`): what has been given out from any time on, and what
  the bucket would hold if it had been left alone since, is at most burst (`Spent`).
  In Redis this ends with the first request that the script meets late.
- `WindowCounts`, `DropsOnRecentFailures` (`BreakerInv`): for every k, the k newest
  buckets hold all results of the last k - 1 bucket times and none older than k - 1
  times of almost two (`Counts`), of successes, of results and of their difference.
  `advance` shifts the buckets by whole intervals (`AdvanceTurns`) and keeps it. That
  a refusal needs a failure takes a K of at least 1 (`KNum >= KDen`); the code's
  default is 1.5.
- `FlyingCounts` (`Flies`): every step lets nobody in or out, one in or one out
  (`Tallied`), and `flying` follows, but for the panics.
- `ShedsOnlyBusy` (`Solo`): while a request can say that it has been alone nobody is
  inside the shedder, no panic has been counted and the `flying` it has read is 0,
  which is over no limit.

The sums of the windows are recursive functions over the buckets. What they compute
is proved for any number of buckets by induction that stays within first-order
logic: the least counterexample of a set of naturals (`SetInduction`, from
`WFMin` of the library), since the library's induction theorems take an operator.

Only model-checked: what needs fairness (`EveryCallSettles`, `LeaderContentWins`,
`CandidatesElect`, `CallsReturn`, `ShutdownCloses`, `NobodyIsStranded`,
`NoDeadClients`, `StartReturns`, `RegistrationEnds`, `DeliveredOrEnded`,
`NotificationSettles`, `ResolverCatchesUp`), since liveness and `ENABLED` are beyond
the prover; and the two violations of section 7.

## 7. Where code and documentation differ

- `apisix_leader_deregisters`: `DeregisterService` in leader mode asks
  `IsLeader` after `Stop`, which returns only when `OnStoppedLeading` has cleared
  it. With `DeregisterOnShutdown` set the leader deletes nothing.
- `snowflake_overflow`: when the numbers of a millisecond run out, `Get` waits
  for the next one but keeps `number` past its maximum and does not store the new
  millisecond; the number runs into the worker's field and the next `Get` starts
  the millisecond again. `WsManager`'s proofs assume distinct session ids, which
  these generators therefore do not always provide.

- Not yet a run: `limit/periodlimit.go:34` calls the period limiter a sliding
  window (滑动窗口), but the script counts in a fixed window that starts with the
  first request after the last one expired, so that up to twice the quota passes
  in an interval of one period around its end. `PeriodBounded` states the bound
  the code keeps.

- Not runs either, but visible in the models: `errors/try_catch.go:15` says that
  finally is executed in any case (无论如何都会执行), while `TryFunc` skips it
  when `catch` is nil or panics (`FinallyLast` names the exception);
  `nats/nats.go:128` says that a message can only be consumed once
  (每条消息只能被消费一次), which `ConsumedOnce` shows per delivery; a comment at
  `redis/redis_manager.go:70` lets callers retry an empty manager, which helps
  before `Init` and not after a failed `Once`.

Limits seen while modelling, which no text of the repository contradicts: the
goroutine of an old leader may still write while the next one leads (the ticker
repairs it); `KickClientByUserId` reaches only the newest session of a user; a
server whose `Startup` runs after its `Stop` serves on; each process whose period
limiter falls back from Redis counts by itself; a request that reaches Redis late sets the
token bucket's time back; a panicking handler stays in the shedder's `flying`
for ever and is no result for the breaker; two `EnsureStream` at a time can undo
each other's subjects; `StopSubscription` after a self-heal ends the old
subscription and the goroutine goes on; a NATS handler that panics ends its
goroutine; of two durables for one subject the server refuses the second, and the
users of one durable with two subjects delete each other's consumers; a connection that has used up its reconnections stays
closed while its goroutine retries; the lock of a notification outlives a crash of
its node, and a node that looks at an expiry only after the unlock runs the
handler once more; `WarpSession` reports no error after a panic; a change of the servers
between snapshot and watch reaches clients only with the next one; and a server
whose lease is lost never registers again.

## 8. Not modelled

Left out: `NewGrpcClient`, which registers a resolver builder in a global table
and dials; routing, groups and request handlers of the HTTP server; codecs, JWT,
error values, metrics and tracing, and the thin clients of Redis, MongoDB and
ClickHouse, which hand calls on to libraries or convert data without state of
their own; `CloseAll` and `StartAll` of the NATS manager, loops over its
connections. Within modelled parts: HTTP bodies, SQL, names and wording; breakers,
limiters and registrations of different paths, keys and services, which do not
meet, are represented by one; an entity whose `NewSession` is called twice, which
shares its session; `redisCon`, which is set before the manager it belongs to;
the memory size of the tables that are never cleaned up.
