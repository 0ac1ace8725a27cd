# TLA+ models of the subnetwork system

The repository holds two Go programs. The *captain* (`captain/`) is the control
plane: an HTTP API over Postgres and ClickHouse, and a websocket hub for the
workers. A *worker* (`worker/`) is a forward proxy for HTTP and SOCKS5: it
authenticates its users by asking the captain over the websocket, caches the
answers, forwards traffic and sends usage reports.

This directory models the parts of the two programs whose correctness depends
on the order of things: goroutines that share a mutex, a map or a channel,
messages that cross, connections that end at the wrong moment, requests that
overlap, a process that stops. TLC checks each model on a small instance; the
`*_proofs` modules prove every safety and action property of the runs for every
instance.

    tlasany M.tla                                    parse
    tlc -workers 2 -config MCCaptainHub_safety.cfg MCCaptainHub
    tlapm CaptainHub_proofs.tla

Contents: [inventory](#inventory), [modules](#modules-and-code),
[runs](#runs), [disagreements](#where-the-code-differs-from-what-it-says),
[proofs](#proofs), [limits](#what-is-not-modelled), [plan](#plan).

## Inventory

`PROJECT.json` lists every component with its files, and the hazards with the
line at which each one bites. In short:

### Captain

| component | state | operations | who shares it |
|---|---|---|---|
| hub (`websocket/ws_manager.go`, `websocket_client.go`) | `Workers` map under one RWMutex; for each connection a socket and an egress channel of 100 events | `ServeWS`, the two pumps, the initial-configuration goroutine, `NotifyUserChange`, `NotifyPoolChange`, `Shutdown` | four goroutines per connection, the API requests, `main` |
| one-time passwords (`websocket/otp.go`) | map of passwords with their time of issue | issue, verify and consume, retention | login handler, `ServeWS`, retention goroutine |
| admin services (`service/*_service.go`, `repository/*.sql.go`, `sql/migrations`) | the Postgres tables | create, change, delete regions, upstreams, pools, weights, users, their pools and addresses, workers; then a notification | concurrent API requests |
| analytics (`service/analytics_service.go`) | two channels of 10000 events, a batch each | record, batch, flush by size or by a ticker of five seconds | read pumps, two goroutines, `main` |
| router, middleware, handlers, models, configuration | none | decode, authorise, call a service | - |

### Worker

| component | state | operations | who shares it |
|---|---|---|---|
| session (`manager/worker.go`, `functions.go`, `websocket_client.go`, `websocket_manager.go`) | the websocket, an egress channel of 100 events, the pool and its upstreams | login, dial, read pump, write pump, connect again | read pump, proxied connections, hourly telemetry |
| user manager (`manager/user_manager.go`) | `cachedUsers`, `pendingValidations`, a connection count in each `User` | `VerifyUser`, answers, `user_change`, expiry, `addConnection`, `removeConnection`, the minute timer | every proxied connection, the read pump, two timers |
| proxies (`services/http.go`, `socks.go`, `utils/functions.go`) | the two sockets of a connection, its place in the user's count | accept, authenticate, connect, copy both ways, report, release | handler and two copying goroutines for each connection |
| upstream selection (`manager/pool_upstream_manager.go`, `NextUpstream`) | list and index, a table of sticky sessions in each `User` | round robin, replace the list, remember a session | every proxied connection, the read pump |
| connection pools (`utils/pool.go`, `OutPool` in `utils/structs.go`) | for each upstream the list held at the start, up to 20 open connections | fill, take, probe, release | every proxied connection, a goroutine for each pool, the daemon's goroutines |
| reachability checker (`Checker` in `utils/structs.go`, `map.go`) | for each host the checks that failed and succeeded | add, check, decide | every proxied connection, a round of checks every few seconds |
| health collector (`manager/health_collector.go`) | counters, latencies and failures of upstreams | count, report and reset every hour | every proxied connection, the hourly goroutine |
| request parsing, listeners, helpers, start-up | none that outlives a request | - | - |
| tcp, udp and tunnel services | commented out in full | - | - |

### How they interact

A worker logs in over HTTP for a one-time password, dials the websocket with
it, and receives its configuration as the first event. A proxied connection of
a user that is not cached sends `verify_user` and waits up to five seconds for
`login_success`. An administrator's request changes the database and then
calls the hub, which sends `user_change` to every worker or `pool_change` to
those of a pool; a worker drops the user from its cache, or asks for its
configuration again with `request_config`. The end of a proxied connection
sends a usage event, which the captain's read pump puts into the analytics
channels; the worker's hourly health report takes the same way and is inserted
by the read pump itself. To reach its destination a connection asks the
checker, unless the worker runs with `--always`; then it is given an upstream,
by its session or by the round robin, and a connection to it out of the
upstream's pool.

### What is hard

* The hub's mutex is held across blocking sends, and the pumps need that mutex
  to end: a broadcast can wait for a connection that waits for the broadcast.
* Three goroutines send on a channel that a fourth one closes.
* The duplicate check and the registration are separate; removal is by worker
  id, not by connection.
* The pending map has one entry for a user, not for a login, and the answer is
  sent on an unbuffered channel by the read pump itself: a caller that has given
  up leaves that pump waiting for ever, and with it the loop that connects again.
* The cache outlives the session, and a change that is announced while the worker
  is away, or unregistered by its former connection, is never repeated.
* Logins go on while no session lasts, on the channel of the last one.
* The minute timer copies the cache and writes it back later.
* The connection count has no lock, and the object it is in is replaced.
* A change is committed first, then looked up, then announced; and other
  requests and the schema's cascades come in between.
* Configurations reach a worker from two goroutines, in either order.
* A flush reports nothing to its caller, and nothing waits for the flushes when
  the process ends.
* Closures that outlive the loop whose variable they use (`go 1.18`) dial for a
  pool, and look at one.
* Sessions and checks are read, decided upon, and written back without a lock.
* Whether there are upstreams is looked at once, five seconds after the start; a
  checker that was never made panics on most addresses, but not on all.
* A health report resets its counters while connections add to them, and is
  stored by two inserts.

### What makes each part correct

* Hub: what the registry names can be sent to; only ended connections leave
  it; a closed connection disappears; a broadcast gives the mutex back.
* User manager: an answer goes to a login under way for that user; nobody
  enters as a user whose password was never shown; a change reaches the cache,
  and where it does not there is a cause; every login is answered.
* Analytics: events are stored at most once, in order, and lost only by a
  fault; an accepted event does not wait for another one.
* Session: the worker always gets a connection again, and ends with the
  current configuration.
* Proxies: a user's limit holds; every place taken is given back, once.
* The way out: a connection leads to the upstream chosen for it; a session keeps
  its upstream; a configuration takes effect; what has been found out about a
  host stays known.
* Health: a connection is in one report; a report is stored once, as a whole.
* Database: no row refers to one that is gone; whoever is affected by a change
  is told of it.

## Modules and code

Every definition's lines are in `PROJECT.json` under `map`. An action is a step
another goroutine can come between: a critical section, a channel operation, an
SQL statement. Definitions marked *faulty variant* stand before the definition
they alter; they are plausible bugs, each of which some property must exclude,
and no specification uses them.

### WorkerRegistry and CaptainHub

One connection, that is, one `Worker` struct, is an element of `Conns`.

| TLA+ | code |
|---|---|
| `registry`, `lock` | `WebsocketManager.Workers` and the RWMutex. Short critical sections are single steps with `lock = Free` as guard; only a broadcast holds the lock across steps |
| `sock`, `egress`, `sealed` | the websocket, the channel's contents, whether it was closed |
| `serve`, `config`, `reader`, `writer` | program counters of `ServeWS`, its configuration goroutine and the two pumps |
| `todo` | the connections a `Notify*` loop has not reached |
| `process`, `panics` | `main`'s shutdown; a panic in any goroutine but an API request's ends the process (`Alive`) |

`Send` blocks on a full channel and panics on a closed one. `RemoveWorker`
removes whatever is filed under the worker's id, as the code does. The network
is one action, `LinkLost`: read and write deadlines turn a silent peer into an
error of both pumps.

`WorkerRegistry` is the abstract specification: connections that are new,
admitted, listed or gone, pumps that each leave once, and an announcement during
which the list stands still and each listed connection is told once. No channel,
socket or mutex is in it. `Registry == INSTANCE WorkerRegistry WITH ...` maps
`serve` and `registry` to a place (`PlaceOf`), the program counters of the pumps
to their stage (`StageOf`), the lock of a broadcast to `announcing`, and `todo`
to `untold`. Its exceptions are part of it: two connections that were admitted
together (the later one replaces the earlier), and a pump that takes whichever
connection of its worker is listed off the list.

### UserManager

The worker's cache and pending map, the callers of `VerifyUser`, the worker's
read pump, and the captain's handler with its FIFO channel in each direction.
A user record is what `VerifyUser` distinguishes: `active` or `barred`.
`Register` overwrites the pending entry and `Forget` deletes it whoever owns
it, as the `sync.Map` calls do; `Deliver` is the rendezvous on the unbuffered
channel; `ResetRead` and `ResetWrite` are the two halves of the minute timer.
A cached entry may expire at any moment.

The session is one variable, `conn`, with the steps that matter to the cache and
to the callers; `WorkerSession` has the rest of it. `LinkLost` cuts it: an answer
not yet queued and requests that have left the egress are lost. `ReaderEnds` is
the read pump's end, with which whatever is left in the captain's direction is
lost; a pump that waits at `respChan <- true` does not get there, and so
`Reconnect` never comes. `FormerRemoves` takes the worker out of the registry
under its live session, and `NotifyUserChange` then reaches nobody
(`NotifyNobody` is a broadcast that names nobody, `user_service.go:283`). `Post`
still finds room on the egress of a session that is over, until it is full;
`Strand` is the caller that then blocks in `WriteEvent`, before its five seconds
begin, on a channel no later session empties.

`proven`, `raced` and `missed` are history variables that only the properties
read: passwords shown, users met by one of the two cache races, users of whom a
change did not reach the worker.

### EventSink and AnalyticsPipeline

`EventSink` is the abstract specification: events of a stream are settled in
order, each once, and settling stores an event once or loses it.
`AnalyticsPipeline` is the code: channel, batch, ticker, `PrepareBatch`, one
`Append` for each event, `Send`, each of which may fail, and the end and the
restart of the process. Numbering the accepted events of a stream lets two
counters stand for channel and batch. The run and a theorem show that the
second implements the first. `Sink == INSTANCE EventSink WITH ...` names the
refinement mapping, which is the identity on the three shared variables, and
`SinkSpec` the abstract specification under it.

### HealthTelemetry

Extends `AnalyticsPipeline`, with whose captain it shares the process and the
ClickHouse connection. A counter is the set of the connections it has counted,
so that one can say which report each is in. `TakeTotal` is the atomic swap of
`GetAndResetMetrics`, `TakeUpstreams` its later step under the collector's lock.
A report's `place` follows it through the worker, the session and the captain's
read pump with its two inserts, each of which may fail with or without having
stored its rows. `Disconnect` loses what is queued, `WriteBlocks` is the hourly
goroutine waiting for ever in front of a session that is over, and
`ReportWithoutPool` the nil pointer of a worker that has a session but no
configuration yet (`worker.go:250`). `Hour`, `Connect` and the like may happen
at any moment; one hour is not told from another.

### WorkerSession

One worker and the captain's side of its connection. A configuration is the
number of the change it shows, so that "older" is a comparison. Of former
connections only one thing is left: a pump of theirs that has not ended may
still unregister whatever is filed under the worker's id (`FormerRemoves`).
The two egress channels are bounded, and each is drained only while its write
pump runs. A write pump has taken its event out of the channel before it writes,
so the event it fails to write is lost with it (`LeftOf`). A broadcast in front
of a full channel nobody drains keeps the hub's mutex (`NotifyBlocks`, and
`admin = "wedged"` from then on).

Of logins there is what they do to the session: they take room in the worker's
channel beside the usage reports (`LoginOrReport`), the captain answers them from
its read pump (`CaptainReplies`), and the worker's read pump handles the answer.
That is a send to the caller, and a caller that does not receive, because it has
timed out or is stuck itself, leaves the pump `"abandoned"`: it reads no more,
answers no ping (`PongMissed` is what the captain makes of that) and does not
end, so `Connect` does not return. When this can happen is in `UserManager`; here
it is one of the bounded faults. `Waiting` names the three waits that last for
ever. `told` and `missed` are history variables.

### ConnectionQuota and ProxyConnections

The handlers and copying goroutines of several connections of one user. A worker
process runs one proxy, chosen when it starts: `service` is HTTP or SOCKS5, and
the actions of one kind have it as their guard. The check of the count and its
update are separate steps, and the update uses the value read by the check or reads again (`Reload`), which are the outcomes of
the unsynchronised `x++`. The count is in a `User` object, and cache entry,
timer and connection may each have a different one. `blur` is a history
variable: what has made the counts inexact so far.

`ConnectionQuota` is the abstract specification: a counting semaphore, with a
step for a place that is taken, given back or lost, and one that begins again
with all places when nobody has one. `Quota == INSTANCE ConnectionQuota WITH
...` maps the connections the count has to cover to `taken`, and what the count
of the cache's object leaves of the limit to `free`. Once one of the two causes
`"restarted"` and `"race"` has occurred the specification is `disturbed` and
promises nothing.

### UpstreamSelection, ConnectionPools, ReachabilityChecker and WorkerOutbound

The first three are modules of operators, each with its variables, its type and
the operations of one Go type: `PoolUpstreamManager` with the sessions of the
`User` objects; `OutPool`; `Checker`. `WorkerOutbound` extends all three and has
the actions: the start of the proxy, the handlers' way from `callback` over
`NextUpstream` to `OutToTCP`, the background goroutines, the configuration, the
user's object and the restart of the process.

| TLA+ | code |
|---|---|
| `upstreams`, `index` | list and position of the manager; `Next` adds one, modulo 2^64 (`Wrap`), and ignores the configured weights |
| `entry`, `sessions` | the user's cache entry, the `Sessions` map in each `User` object; `Login`, `Forget`, `Refile` stand for what `UserManager` does to the entry |
| `pools`, `fillers`, `last` | the idle connections by the address they *lead to*; the goroutines that refill; the loop variable that every later dial uses |
| `item`, `check` | the map of hosts with their two counts; a check under way and the copy of the item it took |
| `proxy`, `always`, `ready` | the command, its flag `--always`, and whether `InitService` has looked for upstreams |
| `stage`, `chosen`, `leads` | where a handler is, which upstream it was given, where its connection goes |

`ChooseFirst` and `StickTo` are the two halves of the first connection of a
session: look-up, choice and write have no lock around them. A check is two
steps, so that another check of the host may end between them (`StartCheck`,
`FinishCheck`). `ArriveLate` is the handler that asks a checker nobody made and
panics on its nil map; `ArriveMalformed` is the one whose address `url.Parse`
rejects (`structs.go:139`), which counts as found in both files before a map is
looked at, with or without a checker, and so takes an upstream. `malformed` holds
the connections with such an address. `moved` is a history variable: sessions for which one of
the named causes has occurred.

### CaptainStore

The tables, the requests of the admin services, a step for each statement, and
the hub as the set of connected workers with the pool each was registered with.
Deletions take with them what the schema's `ON DELETE CASCADE` takes. `untold`
collects those who are affected by a change (a worker whose configuration, a
user whose record is different after the step) until they are told, and
`excused` those of them that a named exception covers. Ids are random and never
come back (`spent`); tags are chosen by administrators and do.

### How the modules compose

Each module is a component with the part of its neighbours it needs, and each
part is in full detail in one module:

| neighbour as seen | in detail |
|---|---|
| `WorkerSession`: a broadcast is one action with a full channel as its guard | `CaptainHub`: one send after the other |
| `UserManager`: the captain's read pump answers one request at a time | `CaptainHub`: `Receive`, `Reply` |
| `UserManager`: a session is registered, removed, cut or over | `WorkerSession` |
| `WorkerSession`: the answer to a login finds its caller, or does not | `UserManager`: `Deliver`, `Timeout`, `Strand` |
| `UserManager`: an account changes, then a `user_change` is queued | `CaptainStore`: the requests, lookups and failures |
| `CaptainStore`: a notification is one step | `CaptainHub`, then `WorkerSession` and `UserManager` |
| `ProxyConnections`: `VerifyUser` has said yes; the entry may go or be replaced | `UserManager` |
| `CaptainHub`: usage events change nothing | `AnalyticsPipeline`: `Record` never blocks, so a read pump does not wait for it |
| `ProxyConnections`: `Connect` succeeds or fails | `WorkerOutbound`: checker, choice of upstream, pool, dial |
| `WorkerOutbound`: the user's cache entry comes, goes and comes back | `UserManager`: answers, `user_change`, the minute timer |
| `WorkerOutbound`: a configuration is one of `Lists`, in any order | `WorkerSession`: which configuration arrives when |
| `HealthTelemetry`: a session is up, over, or not there yet | `WorkerSession` |

Two compositions are modules: `WorkerOutbound` extends its three parts, and
`HealthTelemetry` extends the pipeline, whose steps it leaves as they are (the
theorem `StreamsUndisturbed`).

Three components implement an abstract specification, which says what their
neighbours may rely on: the hub `WorkerRegistry`, the pipeline `EventSink`, the
proxies' count `ConnectionQuota`. Each is checked by TLC as a property of a run
and proved as a theorem, and what follows from the abstract specification alone
is proved from it.

## Runs

| run | question | instance | distinct states |
|---|---|---|---|
| `hub_safety` | can the hub meet a dead connection or crash, does it keep the registry's promise, does a wedge ever end? | two connections of one worker, one administrator, channels of one event | 928,167 |
| `hub_liveness` | does a lost connection go away, does a broadcast end? | two connected workers of two pools, one administrator, channels of one event | 38,718 |
| `user_logins` | who is let in, is every login answered, does an abandoned answer free the pump? | two callers of one user, channels of one event, one lost or unregistered session, no change of the account | 265,199 |
| `user_changes` | does the cache follow the account? | one caller, one user, channels of two events, one change at a time, one lost or unregistered session or failed query | 6,791,661 |
| `pipeline` | is anything lost, stored or reported twice? | two streams of three events, a channel for one, batches of two; two connections, two reports | 82,156 |
| `session` | does the worker come back, and with which configuration? | two changes of the pool, one fault (an answer nobody receives among them), channels of one event | 495,000 |
| `proxy` | does the limit hold, are places given back, is the count a semaphore? | two connections of either proxy, a limit of one, two `User` objects, one changed count read again | 357,798 |
| `outbound` | where does a connection lead, what moves a session, what does a late configuration do? | two connections, two lists that share an upstream, one session, two `User` objects, two checks of one host, pools of one connection | 744,687 |
| `store` | is everyone told, are there orphans? | two requests at a time, two pools of one tag, two regions, a worker, a user | 559,714 |
| `hub_config_crash`, `user_wrong_password`, `outbound_misrouted` | what the code says and does not do | as the run of the same module | - |

Deadlock checking is off in all of them: every one of these systems may rest
(no client, no change, a captain that has exited).

Why these bounds. A channel of 100 or 10000 events matters only by being full,
which a capacity of one makes as easy as possible; where the *order* in a
channel matters (`user_changes`: an answer in front of a change) it holds two.
The hub's races are between two connections of one id (`hub_safety`) or between
one connection and another one that is waited for (`hub_liveness`); the
theorems cover every number. The users' runs begin with an active account
(`MCInit`), which `user_changes` bars; the theorems begin with either.
`user_logins` needs two callers to share a pending
entry, and a third adds no new owner of it. In `pipeline` three events give a
full batch, a partial batch, and a channel that is full while a flush runs. In
`proxy` a limit of one makes the second connection the one too many. In
`outbound` the second of two lists drops an upstream that sessions and pools
still have, and a pool of one connection is empty, full, and refilled within a
few steps; the position wraps round at two, as 2^64 would; two checks of a host
are enough for one to overtake the other. In `store`
two pools with one tag let a tag be reused between a lookup and a deletion, and
two requests are enough to come between each other's steps.

Bounds in guards: `MaxChanges` (UserManager: changes of an account not yet
broadcast; WorkerSession: changes of the pool), `MaxFaults` (UserManager: sessions
lost or unregistered, failed queries; WorkerSession: lost links, refused logins,
failed dials and queries, answers nobody receives),
`MaxEvents`, `MaxOpened`, `MaxReports` (pipeline), `MaxReloads` (proxy),
`MaxCount` (checks of a host with one result). Symmetry is used only in runs
without liveness.

Two runs have a state constraint, `MCBound`. In `pipeline` events and reports
are each explored beside an idle other, with which they share only the end of
the captain and of its ClickHouse connection; `AcceptedSettle` is not weakened
by it, because nothing obliges a worker to report, so every behaviour of events
alone is among those explored. In `outbound` (no liveness) the
deployed command, `http --always`, has both connections and the session; the
other three combinations of command and flag, whose handlers differ only in how
they come to an upstream and in a dial that fails, have one connection at a time
and no session. The theorems need neither constraint.

### What the properties say

*Hub.* `RegisteredIsLive`: whatever the registry names has finished `ServeWS`,
is filed under its own id, and its channel is open. `CrashesOnlyByCause`:
broadcasts and `Shutdown` never touch a closed channel, and before `Shutdown`
only the goroutine of the initial configuration can crash the captain.
`SoleConnectionIsRegistered`: rejected duplicates do not disturb the connection
that stays. `KeepsRegistryPromise`: the hub implements `WorkerRegistry`.
`WedgesAreFinal`: neither of the two wedges below is ever left, except that
`Shutdown` ends a read pump's wait by closing its channel. `ConnectionsAreTornDown`, `BroadcastsEnd`: a
closed connection is torn down and the mutex comes back, except in two *wedges*
the properties name: a broadcast, or a read pump, that waits for room in a
channel whose write pump has ended.

*Users.* `PendingOnlyWhileVerifying`, `OnlyProvenUsersEnter` as above.
`StaleOnlyByCause`: a barred user is served from the cache only while the change
is under way, or for one of three causes: an answer read before the change and
queued behind its broadcast; the minute timer writing back what the change had
removed; a change that never reached the worker, because it was not registered,
because the session ended first, or because the broadcast named nobody. The third
one lasts over reconnections, which clear nothing. `LoginsEndUnlessStuck`: every
login is answered, unless its own request is stranded on the full channel of a
session that is over, or the read pump ends up blocked for good.
`AbandonedForGood`: it is blocked for good once the login whose answer it holds
has given up or is stranded: what the captain sends after that is never read, no
login is granted any more, and the session, lost or not, is never over.

*Analytics.* `SinkSpec`: the pipeline is an event sink, so that no event is
inserted twice, by the ticker's flush and by the size's. `LossNeedsFault`: an event that is
settled and not stored needs a failed insert or the end of the process.
`AllTypeOK`: streams and reports are well typed together. `AcceptedSettle`: no accepted event waits for ever.

*Health.* `EveryConnectionReportedOnce`: a connection is in one counter or one
report, or went with its worker, and a report's totals are in ClickHouse at most
once. `UpstreamRowsFollowWorkerRow`: the rows of a report's upstreams are not
there without the worker's own, whichever insert fails.

*Session.* `QuietMeansCurrent` and `ConfigConverges`: in a session in use with
nothing under way the worker has the pool's current configuration, unless the initial one was
overtaken, a query failed, or the worker was not registered when the change was
announced. `OnlyInitialRegresses`: the worker goes back to an older
configuration only where the initial one and an answer meet. `SessionReturns`:
after the last fault the worker gets a connection that stays, unless somebody
waits for ever: the worker's read pump for its own ended write pump, or for the
caller of a login, or a broadcast for an ended write pump. `ConfigConverges` has
the same exceptions.

*Proxies.* `OverLimitOnlyByCause`, `CountIsExact`, `CountFloor`: what the count
is, and the only things that make it wrong (the minute timer, a new `User`
object, overlapping updates, a place HTTP forgets). `KeepsQuota`: until one of
the first three, the check and the update in two steps amount to a semaphore.
`ActiveIsExact`: the health gauge counts each relayed connection once, whichever direction ends first.

*The way out.* `MisroutedOnlyByPool`: a connection leads to the upstream chosen
for it unless that upstream's pool dialled, and then it leads to the last
address of the list the proxy started with. `SessionMovesOnlyByCause`: all
connections of a session take one upstream, the remembered one, unless two first
connections overlapped or the user's object went or changed.
`LateProxyServesOnlyMalformed`: without `--always`, a proxy that began to listen
before its first configuration uses an upstream only for an address it cannot
parse, until it is restarted, and dials the chosen one itself, having no pools. `SettledUnlessOverwritten`: a verdict on a host is undone only by a
check that began before another one ended.

*Database.* `WorkersAreTold`, `UsersAreTold`: once the requests have ended,
whoever was affected was told since, apart from the named exceptions.
"Told" is the broadcast: what becomes of it on its way is in the models of hub,
session and users, and a captain that ends between commit and broadcast tells
nobody. `NoOrphans`: the keys hold, whatever overlaps.

### Fairness

* Goroutines that can take a step take one (weak fairness for each goroutine,
  the Go scheduler's promise).
* A mutex and a send on a full channel are strongly fair: Go's mutex turns to
  starvation mode after a millisecond, and blocked senders queue in order. In
  `WorkerSession` that is the read pump's request beside logins and reports, and
  the initial configuration and a broadcast beside the answers to them.
* The pumps of a connection that is gone notice it, and unregister it. In
  `UserManager` nothing obliges the captain to take the worker back.
* The five seconds of a login pass; the ticker of a batch ticks.
* Nothing obliges a worker to send, a client to log in, an administrator to
  change anything, a link to break, a query to fail, or a process to stop.
  `MaxFaults` makes the liveness of the session a statement about what happens
  after the last fault.

## Where the code differs from what it says

Three runs end with a counterexample.

| run | the code says | what happens |
|---|---|---|
| `hub_config_crash` | "Failed to send initial configuration to worker" is logged (`ws_manager.go:93`) | the connection ends while the query runs; the goroutine sends on the closed channel and its panic ends the captain |
| `user_wrong_password` | "Invalid password should return false" (`user_manager_test.go:104`) | a login with a wrong password replaces the pending entry of one with the right password and gets its answer |
| `outbound_misrouted` | "Connecting to" the chosen upstream (`http.go:141`) | the pool of that upstream has been refilled by its goroutine with connections to another one; the handler sends the chosen upstream's credentials there |

The third one follows from the Go version: `worker/go.mod` says `go 1.18`, and
in a module before 1.22 a `for` loop has one variable for all its rounds. The
`Factory` of each pool (`structs.go:496`) closes over that variable, so each
dial after the loop goes to the last address. With a `go 1.22` line the same
code would be right.

Two more disagreements have no run of their own, because passing properties name
them as exceptions. "Worker already connected via WebSocket" (`ws_manager.go:85`)
does not keep two connections of a worker apart: two `ServeWS` may pass the check
before either registers, and one of them stays outside the registry
(`SoleConnectionIsRegistered` speaks of a sole connection for that reason).
"Timeout should return false" (`user_manager_test.go:169`) is not all a timeout
does: a caller that gives up between the pump's look at the map and its send
leaves the pump blocked for good, and the worker without a session from the next
lost link on (`LoginsEndUnlessStuck`, `AbandonedForGood`, `SessionReturns`).

Each passing run's properties name the exceptions the same flaws cause, so that
they say exactly what else is left.

## Proofs

Each proof module extends its component. The theorems hold for every value of
the constants that meets the named assumption of the module.

| module | theorems | assumption |
|---|---|---|
| `CaptainHub_proofs` | `TypeCorrect`, `HubSafety` (`RegisteredIsLive`), `CrashesHaveCauses` (`CrashesOnlyByCause`), `SoleStaysRegistered`, `BroadcastStability`, `HubImplementsRegistry` (`KeepsRegistryPromise`), `RegistryPromises`, `WedgesStay` (`WedgesAreFinal`) | `HubAssumption` |
| `UserManager_proofs` | `TypeCorrect`, `LoginSafety` (`OnlyProvenUsersEnter`), `PendingHolds`, `StaleHolds` (`StaleOnlyByCause`), `AbandonedStays` (`AbandonedForGood`) | `UserManagerAssumption` |
| `AnalyticsPipeline_proofs` | `TypeCorrect`, `PipelineSafety` (`LossNeedsFault`), `PipelineImplementsSink` (`SinkSpec`), `SinkStoresOnce`, `StoredOnce` | `PipelineAssumption` |
| `HealthTelemetry_proofs` | `TelemetryTypeCorrect`, `ReportedOnce`, `UpstreamsFollow`, `StreamsUndisturbed`, `TogetherTyped` (`AllTypeOK`), `TogetherSafe`, `TogetherImplementSink` | `PipelineAssumption`, `TelemetryAssumption` |
| `WorkerSession_proofs` | `TypeCorrect`, `OrderHolds` (`OnlyInitialRegresses`), `QuietIsCurrent` (`QuietMeansCurrent`), `WedgesStay` | `SessionAssumption` |
| `ProxyConnections_proofs` | `TypeCorrect`, `LimitHolds` (`OverLimitOnlyByCause`), `ExactHolds` (`CountIsExact`), `FloorHolds` (`CountFloor`), `GaugeIsExact` (`ActiveIsExact`), `ProxyKeepsQuota` (`KeepsQuota`), `QuotaIsKept` | `ProxyAssumption` |
| `WorkerOutbound_proofs` | `TypeCorrect`, `Misrouting`, `LateProxy` (`LateProxyServesOnlyMalformed`), `SessionsStay`, `HostsStaySettled`, `RoundRobin` | `SelectionAssumption`, `PoolAssumption`, `CheckerAssumption`, `OutboundAssumption` |
| `CaptainStore_proofs` | `TypeCorrect`, `NoOrphansHolds`, `UsersAreToldHolds`, `WorkersAreToldHolds` | `StoreAssumption` |

The arguments:

* **Hub.** `RegisteredIsLive` is not inductive: it has to be known who closes a
  channel and what precedes that. `HubInv` adds that pumps and closed channels
  come after `ServeWS`, that a channel is closed by its own read pump or by
  `Shutdown`, that a read pump past `RemoveWorker` is not registered, and that
  whoever a broadcast has still to reach is registered. The last one holds
  because the registry does not change while the lock is held, which gives
  `BroadcastStability` and, with it, that a broadcast meets no closed channel.
  `HubImplementsRegistry` takes every action under `HubInv` to a step of the
  registry or a stutter: a connection that was listed and is not any more has no
  way back, because `ServeWS` registers once. `RegistryPromises` says what follows
  for anyone who knows only the abstract registry: one listed connection for each
  worker, nobody told who is not listed, nobody listed twice. `WedgesStay` shows
  for each action that it cannot enlarge the room in a full channel whose write
  pump has ended.
* **Users.** A pending entry belongs to a caller between `Store` and `Delete`
  of the same user. `OnlyProvenUsersEnter` follows the evidence backwards: a
  caller is granted by the pump, which read an answer, which the captain gave
  to a request with a right password; `LoginInv` has one conjunct for each
  stage (requests, lookup, answers, pump, cache, the timer's copies).
  `StaleOnlyByCause` follows the change instead: once every change of a barred
  user is announced, none of them is recorded as missed and no race is, `StaleInv`
  says that whoever still holds the active account (cache, timer, pump, an answer
  in the channel) has the change behind it in the channel, and that the captain
  holds none; a session that ends records the changes it takes along.
  `AbandonedStays` rests on each call's having a channel of its own: no later call
  can receive what the pump offers to one that has given up; and on `OverIsIdle`:
  a session that is over has no pump left at that point.
* **Pipeline.** Only settled events are in the table, an insert holds events of
  the batch, and all of them on a stream without a fault. Each step is then a
  step of the sink or a stutter (`StepRefines`): a flush is `Settle`, the end of
  the process settles whatever is left. That nothing is stored twice
  (`StoredAtMostOnce`) is proved of the sink alone, from an invariant of three
  lines, and comes to the pipeline by the refinement.
* **Health.** `CountedOnce` is inductive with the types: a swap moves the
  counter's set into one report. That a report is stored once follows from its
  place: it has no row before it is read, and is read once. Every step of reports
  and streams together is one of the streams or leaves them alone, so the
  pipeline's theorems, the refinement among them, hold beside the reports.
* **Session.** `OrderInv`: the configurations on their way are in the order of
  their changes, once the initial one is left out; so only the initial one and an
  answer can meet in the wrong order. `CurrentInv`: in a quiet registered
  session the last configuration on its way, or the one in use, shows every
  change, or a request for another one is pending, or an exception is recorded.
  `WedgesStay` goes through the actions for each of the three waits; that a new
  connection cannot end the worker's two needs only that `Dial` comes after both
  pumps have ended (`PumpsOver`).
* **Proxies.** `PlacesInv`: until a count was begun again or updates overlapped,
  every place held was taken in the object the cache still has, and that
  object's count covers the holders, exactly so while nothing has been lost (the
  library's facts on cardinality carry it over each step). From it every step is
  one of the semaphore (`ProxyKeepsQuota`); of a semaphore alone it is proved
  that places taken and free are never more than the limit (`QuotaIsKept`), and
  `LimitHolds` is a corollary of the two. `FloorInv` bounds a decrement by the value it read,
  whatever happened before. `ActiveInv` says the gauge is the number of relays.
* **The way out.** `PoolContents`: a pool holds connections to its own address
  or to `last`. `ConnOK` says at which stage a handler has chosen, and that no
  handler gets that far without the checker it asks, except with a malformed
  address; since pools and checker are made together (`NoPoolsWithoutChecker`),
  that one finds no pool. `SessionInv`: the entry is
  still the object in which a connection looked its session up, and remembers
  what was chosen there, or the session is recorded as moved. `CheckInv`: a check
  under way began from an item that was not settled, so it can undo a verdict
  only if its copy is out of date. `RoundRobin`: each choice brings every other
  upstream of the list one turn nearer, so that each has its turn within one
  round; its lemmas say what the next remainder is. A restart, a new list and the
  wrap of the position at 2^64 are its exceptions.
* **Database.** `NoOrphans` is inductive with the types. `UsersCovered` says
  that a user who is affected and not excused has a request on its way that
  names the user or will find the name; `WorkersCovered` says the same of a
  connected worker and its pool, and needs `NoOrphans` and `Registered` (a
  connected worker is registered with the pool its row has): the lookup by tag
  finds the pool as long as its row is there, and who deletes it tells its
  workers.

Four theorems state properties no run lists, because something listed implies
them or they need an instance of their own: `BroadcastStability`
(`RegistryStableDuringBroadcast`, implied by `KeepsRegistryPromise`), `StoredOnce`
(`StoredAtMostOnce`, implied by `SinkSpec`), the session's `WedgesStay`
(`SessionWedgesAreFinal`) and `RoundRobin` (`EveryUpstreamHasItsTurn`). TLC finds
no violation of the last two on the instances of `session` and, with `Wrap = 4`,
of `outbound`, when they are added to those configurations.

Checked by TLC only is what liveness there is: `ConnectionsAreTornDown`,
`BroadcastsEnd`, `LoginsEndUnlessStuck`, `AcceptedSettle`, `SessionReturns`,
`ConfigConverges`. Its proof needs fairness and ENABLED, which are outside what
the provers do.

## What is not modelled

* *Parsing* (HTTP requests, SOCKS5 frames, flags, environment) and *formatting*
  (`GenerateproxyString`, logs): no state, or no control. What a request asks
  for is a choice: credentials, session, host.
* *Listeners and helpers*, *start-up*, *reads of the API*: accept loops, dialling
  and queries that change nothing. `utils/map.go` appears as the checker's atomic
  map; its other methods have no caller, and the rate limiter gets a rate of 0.
* *tcp, udp and tunnel services* are commented out in full.
* *Health figures*: samples of processor and memory, averages, rates and the
  status computed from them.
* *Data limits, domains and countries*: rows that nothing the models check
  depends on. (`users.sql.go:26` pairs every pool of a request with each of its
  limits; the conflict clause keeps one pair for each pool.)
* *The end of a worker process* is in `WorkerOutbound` and `HealthTelemetry`. The
  models of its users, session and proxies begin with a running worker and are
  left with it: a restart is their initial state again. That of its users begins
  with its first session.
* *Values*: what a byte, a latency or a weight is. `Put` of a connection pool and
  the weights of upstreams have no reader or caller, and so are not there.
* The ClickHouse insert of an event batch is taken to arrive as a whole or not at
  all; a transaction of Postgres is one step, as its row locks make it.
* One-time passwords are those of one worker; the captain's map of them is taken
  as atomic, as its mutex makes it.

Seen on the way, and too plain for a property: the HTTP proxy records the latency
of every upstream as a success (`http.go:151`, whose error is the inner
variable's); the callback of `IoBind` always carries an error, so that
`RecordSuccess` is never called; an event that finds a full analytics channel is
dropped with a log line.

## Plan

Done, the most consequential first: the hub; logins; analytics with its abstract
sink; the session; the proxies; the database; upstreams, pools and checker;
health reports; the proofs of all their safety and action properties; the
abstract registry and the abstract quota, with their refinements.

Left:

1. *Composition with the abstract registry*: `WorkerSession` and `CaptainStore`
   each have the part of the hub they need as actions of their own. Stated
   against `WorkerRegistry` instead, "a notification is one step" would be a
   theorem about the hub and no longer a line of the table above.
2. *Telemetry end to end*: a usage report from `ProxyConnections` over
   `WorkerSession` into the sink, at most once, with the places where it is lost,
   as `HealthTelemetry` has them for health reports.
3. *Parsing* as pure operators: the SOCKS5 handshake and the two addresses of a
   request against a reference definition over bounded inputs.
