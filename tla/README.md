# Verification of Grpc.Extensions

Grpc.Extensions is a C# library over Grpc.Core: service registration and
discovery through Consul, load balancing, a pool of channels with failover,
method switches, interceptors for monitoring, throttling and tracing, and a
dashboard. This directory holds TLA+ models of its concurrent core, TLC runs
that check them on small instances and TLAPS proofs of what matters most for
every value of the constants.

Paths below are relative to `src/src/`. "Discovery" is
`Grpc.Extension.Discovery/Consul`, "Client" is `Grpc.Extension.Client`,
"Common" is `Grpc.Extension.Common`.

## 1. Inventory

| Part | State | Operations | Hard behaviour | What makes it correct |
|---|---|---|---|---|
| Channel pool, Client/Internal/ChannelPool.cs | `_channels`, `_memoryCache` entry of each service | GetChannel, GetEndpoint, GetChannelCore, CreateChannel, ShutdownErrorChannel, Shutdown, handler of ServiceChanged | calls, handler and failover interleave between awaits; stale lists; orphaned channels | every call ends; one channel per endpoint; only connected channels; entries outside the list and channels open after Shutdown only where calls, sweeps or failures met |
| Atomic dictionary, Common/Common/AtomicConcurrentDictionary.cs | entries, one semaphore per hash code | GetOrAddAsync, TryRemove, AddOrUpdate, Clear | asynchronous factories that throw, replacement without the semaphore | one factory per key, callers get the entry, the semaphore is released |
| Load balancers, Client/LoadBalancer | an index per service | SelectEndpoint | unsynchronised reads and increments, lists of changing length | never past the list, no overflow, equal shares |
| Consul discovery, Discovery/ConsulServiceDiscovery.cs | `_lastIndexs`, `_pollForChanges` | GetEndpoints, PollForChanges, UpdateLastIndex | two loops for one service, late and failed queries, compare-then-write of the index | no list lost, events in order, changes announced |
| Consul registration, Discovery/ConsulServiceRegister.cs | `_timerTTL` | RegisterService, DeregisterService, DoTTL | overlapping heartbeats that replace the timer, Consul restarts, exceptions in an async void callback | heartbeat never stops, lost registration is restored, stopped server stays out |
| Server start and stop, Grpc.Extension/GrpcExtensions.cs; ASP.NET Core host, Grpc.Extension.AspNetCore/Internal/RegisterServiceHosted.cs | none of their own | StartAndRegisterService, StopAndDeRegisterService; Start, StopAsync | partial failure between Consul and the server; a host that stops while it registers | registered while serving only |
| Method switches, Common/BaseService: ThrottleManager, MonitorManager, CmdService | two lists of methods | Add, Del, query of either list | MonitorManager's reader takes no lock while a writer changes a `List<string>` under it | the last command wins; a reader is wrong or throws only under the commands that can make it |
| Server interceptors, Grpc.Extension/Interceptors/Server | trace of the current call (an AsyncLocal) | MonitorInterceptor, ThrottleInterceptor around a handler | exceptions through the pipeline, a check after the handler that may fail the call | a call of a throttled method does not reach its handler |
| Client interceptors, Client/Interceptors | a Metadata the caller may use again | ClientCallTimeout, ClientMonitorInterceptor | a deadline the server does not hear of; shared headers | the trace identifier follows nested calls |
| Dashboard, FM.GrpcDashboard/Services | none | Throttle, SaveResponse, UnRegService, MethodInvoke (one call) | fan-out over instances that fail, crash, start or lock themselves in the middle | success means all instances of the list |
| Meta service, Common/BaseService/MetaService.cs | the table of methods, filled at start-up | Info and MethodInfo, which read it; MethodInvoke, which runs a method's handler | the handler runs inside the call of MethodInvoke: neither throttle nor monitor sees the method it belongs to | what a throttling promises says so |
| Errors, proto generation, method binding | tables filled at start-up | pure functions, reflection | none | - |
| Server builder, options, client manager, NetHelper | configuration | sequential set-up | none | - |

How they interact. `AutoChannelCallInvoker` calls `ChannelPool.GetChannel` for
every RPC. The pool asks its memory cache for the list of the service; on a
miss the cache's factory calls `IServiceDiscovery.GetEndpoints`, which also
starts the background loop `PollForChanges`. The loop raises `ServiceChanged`
on its own thread; the pool's handler replaces the cached list and shuts the
channels that are not in it. The load balancer picks an endpoint and the atomic
dictionary gives or builds its channel; building may fail over through
GetEndpoint again. On the server side `StartAndRegisterService` registers
with Consul and the TTL timer keeps the check passing. Every call of a server
goes through its monitor and its throttle; both ask the method switches, and the
commands that change the switches are gRPC calls that go the same way. So is
MethodInvoke of the meta service, but the handler it then runs is reached without
either. The dashboard sends commands to all instances that Consul lists.

## 2. Modules

| Module | Models | State and actions |
|---|---|---|
| `AtomicMap` | what the dictionary promises (abstract) | a map, the factories under way, what callers were given |
| `AtomicDictionary` | AtomicConcurrentDictionary | one action per step of GetOrAddAsync between awaits; `TryRemove`, `AddOrUpdate`, `Clear` of the base class |
| `RoundLoadBalancer` | RoundLoadBalancer | `Start` (lines 23-25), `Reset` (27), `Advance` (29-30), each one access to the shared index |
| `ConsulDiscovery` | ConsulServiceDiscovery, one service | `Getter...` steps of GetEndpoints and `Poll...` steps of the loop; both halves of UpdateLastIndex are separate steps |
| `EndpointCache` | the cache entry between pool and discovery | extends `ConsulDiscovery`: `Miss`, `Fill`, `ServiceChanged` |
| `ChannelPool` | ChannelPool, one service | one action per step between awaits or shared accesses, for callers (`Thread`) and the handler (`Notifier`); uses `AtomicMap` for `_channels` |
| `ChannelLeaks` | what ChannelPool's sweeps and Shutdown leave behind | extends `ChannelPool` by two history variables: endpoints in trouble, endpoints gone on with while not listed |
| `ConsulRegister` | ConsulServiceRegister with TTLCheck or TCPCheck, GrpcExtensions, RegisterServiceHosted | `Start` and `Stop` of either host, timers, overlapping runs of DoTTL, a Consul agent that fails |
| `MethodSwitches` | ThrottleManager, MonitorManager | ThrottleManager's locked methods are steps; MonitorManager's `List<string>` is kept with the array behind it, one action per access of Add, Distinct().ToList(), Remove and Contains |
| `CallPipeline` | CmdService, MetaService.MethodInvoke, both sides' interceptors | extends `MethodSwitches`: a call from the client's headers through monitor, throttle, handler and save-response check to the reply; commands are calls, and a call of MethodInvoke (`MetaInvoke`) runs the handler of another method (`runs`) |
| `DashboardFanOut` | GrpcService.Throttle and SaveResponse, ConsulService.GetService and UnRegService | dashboard requests, instances that crash and start, Consul's list; `Beat` is what a heartbeat may bring about, never owed, and `ConsulRegister` has how |
| `MC...` | instances for TLC | |
| `...Proofs` | theorems | |

`ChannelPool` is built on the abstract `AtomicMap`; that `AtomicDictionary`
implements it is checked (`ImplementsMap`) and proved
(`DictionaryImplementsMap`), so the pool model does not repeat the semaphores.
The one thing this abstraction hides is that keys with equal hash codes share a
semaphore; `CallTerminates` covers it in `AtomicDictionary`. In the same way
`ChannelPool` uses a small discovery (a list, `news`), and `EndpointCache`
puts the detailed one in its place for the questions about the cache.
`CallPipeline` moves the switches through the operations of `MethodSwitches`
only; that each of its steps is one of `MethodSwitches` or none is proved
(`CallsMoveSwitches`), so what holds of the switches under any commands holds
under calls. `DashboardFanOut` needs of an instance only the set of throttled
methods and the rule that the command goes through the throttle, which
`CallPipeline` models in full.

Abstractions. Endpoints, channels, lists and timers are model values or
numbers; a list is a set in `ChannelPool` (order matters to the load balancer
only), an index into Consul's history in `ConsulDiscovery`, and a sequence in
`RoundLoadBalancer`. `Sorted` is defined by counting, so no recursion is
needed. A `Channel` is unused, new, ready, lost or shut. A second
ShutdownAsync on a channel throws: through Wait in Shutdown (`ShutdownThrows`, which
leaves the channels after it open and the dictionary filled), and into a task that
nobody awaits elsewhere. A sweep shuts a channel (`SweepShut`) and removes its key
(`SweepOne`) in two steps; which of the noted channels comes first is left open. One
handler runs at a time (`Notifier`), with the list of its announcement; two loops
of one service could run two. `TryRemove` at
ChannelPool.cs:115 is given a service name, which is never a key, and so is no
step. The default-URL arithmetic of GetChannel has no state; the place where
it matters (the failover omits it) is the property `FailoverHitsCache`.
In `MethodSwitches` an array that is full grows by one slot where .NET doubles
it: the list with spare slots is replaced by Distinct().ToList() before it could
use a second one, so the difference is never read. That it makes an array of
exactly its size is .NET Core's behaviour; .NET Framework leaves slots to spare, so
there an Add may not replace the array. GlobalSaveResponseEnable
(MonitorManager.cs:40) is off: when it is on the list is never read. Of a call,
`CallPipeline` keeps what the properties read: method, the method whose handler
it runs, kind, header, caller and command.
The variables marked "history" (`enabled`, `seen`, `settled`, `firm`, `refuse`,
`ran`, `steady`, `troubled`, `outdated`) record what happened for the properties
and guard nothing.
Blank method names are left out: CmdService refuses them, and the
dashboard, which does not look at the status of the answer, reports success.

Definitions with the comment "Mutant of ..." are faulty variants of the action
below them. No specification uses them: they stand in for the action to show
that the property named beside them in PROJECT.json notices the fault.

## 3. Runs

All bounds are constants of the cfg files.

| Run | Question | Bounds | Result |
|---|---|---|---|
| `dictionary` | exclusion, permits, refinement, termination | 3 callers, 2 keys on 1 semaphore, 2 values | holds |
| `round_robin` | index in range and bounded; balance | 3 threads, 2 services, lists of 1-3, 6 calls | holds |
| `endpoint_cache` | nothing lost, events in order, changes announced and cached | 2 fills and loops, 3 indexes, 2 lists, 1 failure | holds |
| `stale_cache` | does a lasting list get into the cache? | 1 fill, 2 indexes | violated |
| `pool` | failover, sharing, connected entries, ownership of new channels, progress of each step, termination | 2 callers, 2 endpoints, 1 flip, loss and failure, or 1 list change | holds |
| `pool_leaks` | what can be open after Shutdown, shut in the dictionary, or left from an old list? | 2 callers, 3 calls, 2 endpoints, 1 list change, 1 loss, servers up or down | holds |
| `leak_on_rebuild` | does Shutdown close everything? | 2 callers, 1 endpoint, 1 loss | violated |
| `register` | heartbeat alive, registration restored, stop final with TCP | both checks and hosts, 2 overlapping heartbeats, 3 timers, 2 losses | holds |
| `registered_after_stop` | does a stopped server stay out of Consul? | 1 heartbeat, no failure | violated |
| `refused_reregistration` | is a refused connection harmless? | 1 heartbeat, 2 losses | violated |
| `calls` | switches as commanded, check sound, throttling obeyed, lock-out, traces | 2 threads, 4 calls, 4 methods, 3 commands | holds |
| `fanout` | success means all, agreement, termination | 2 instances, 2 operations, 1 restart | holds |

Why the bounds are enough for the questions. Two callers are what a race needs
and three what a queue on a semaphore needs. Three indexes let one answer be
overtaken by two changes, one of them to the empty list, with two loops
that both got past the Contains test. With two endpoints a failover
can go elsewhere. Nine channels are enough for the rebuilds and failovers that two calls
make under these bounds, so no call waits for a free name: a smaller
`MaxChannels` shows as a violation of `CallEnds`. `pool_leaks` has six channels for
three calls, two of which may overlap, with the rebuild of a lost connection; calls
that would need more are not followed to their end there. Three timers are the field's,
one being stored and one more; the collector frees older ones. Six calls
let the round robin go twice through a list of three. In `calls`, three commands
and four calls fill the list, grow its array under a reader, take a method out
and put it back, and let an unthrottling that was given up be carried out after a
later throttling; MethodInvoke is called while commands to ThrottleManager are
under way. In `fanout`, the second operation may overlap the first or
follow it, and the restart brings an instance back without its switches.
Symmetry is used only in runs without liveness. In `pool` a
state constraint (`OneTrouble`) lets the list change only in behaviours in which
all servers are up and nothing else goes wrong, so that liveness can be checked in
the same run; it cuts no step that fairness relies on, since a query that fails may as
well answer. Its safety properties and `CallsGetNearer` were also checked by hand with
one change beside a lost connection and servers that may be down, without flips or
failed queries (3,494,110 states); the proofs cover any number of each.

Two MC modules add a variable `focus`, chosen at the start and never changed, so
that one behaviour is about one kind of trouble and TLC ends in
time. `calls`: "responses" (commands to MonitorManager against calls that
check it), "throttling" (commands to ThrottleManager against calls), "traces"
(no commands; streams, shared headers and nested calls). `fanout`: "crashes"
(operations one after the other while instances crash and start), "locks" (two
at a time, also on the throttling command itself), "unregister" (UnRegService
and late heartbeats). The proofs are about the modules without `focus`.

The violations (PROJECT.json "findings" quotes the documentation each
contradicts):

* `stale_cache`: the expiry of cache entries is commented out
  (ChannelPool.cs:79), so a fill that commits after a newer announcement
  leaves the older, possibly empty, list for good.
* `leak_on_rebuild`: of two rebuilt channels of one key, one is orphaned.
* `registered_after_stop`: the TTL timer outlives the registration.
* `refused_reregistration`: a refused re-registration ends the process.

The `pool_leaks` properties are the other side of `leak_on_rebuild`: the code does
leak channels, and they say from what. `LeakedChannels` and `DeadEntries` excuse an
endpoint that is in trouble: a connection to it failed, a failover turned to it
(it is then stored under another key), or a creation for it met another
creation, a caller about to test its channel, or a sweep that has noted it.
`LeakedChannels` is about a Shutdown that ends; one that throws half way leaves
channels open and entries in place, and `DeadEntries` says when that can happen.
`StrayEntries` excuses an endpoint a call went on with after it had left the list.
Each of these is needed: with any disjunct of `Clash`, `Failing` or `Outdated` left
out, TLC finds a violation. What they exclude is the rest: a list that changes
beside calls, a lost connection or a sweep leaks nothing by itself. What they do not
promise is that trouble passes: an endpoint once in trouble stays excused.
A failed attempt is retried twice although README.md:12 promises three times; that
has no run of its own (`TypeOK` bounds the attempts).

What the runs that hold say of known weaknesses. `CheckSound` states exactly when
SaveResponseMethodEnable goes wrong: it throws only if an Add replaced the array
between its two loads (the call then fails although its handler
succeeded), and misses a method only under a Del. `ThrottleObeyed` states when an
acknowledged throttling ends: when the server carries out an unthrottling. That may
be one ordered before the throttling, whose client gave up at its deadline
(CientCallTimeout.cs:61) and may believe it never happened; the server has no means
to tell, and the method then runs although the last acknowledged command throttled
it. While such a command is only on its way the throttling stands. It is about calls
of the method itself: MethodInvoke of the meta service runs the method's handler in
its own (MetaService.cs:76), so a throttled method runs when it is called that way.
`Agreement` says the same of the dashboard's result: until the next operation begins
it stands on an instance that runs on, unless a command of another operation, given
up or not, is carried out there. `LockedOut` states that once the throttling command
is throttled nothing sent over gRPC ends it; only a restart does. `TraceFollows`
covers unary calls with headers of their own: streaming client calls bypass trace,
deadline and monitor, and two calls that share a Metadata may add the header twice.
`SuccessMeansAll` is about the instances Consul listed: one that lapsed or starts
later misses the switch although success is reported, and the dashboard's page shows
the switches of the first instance only.

### Fairness

* `dictionary`: weak fairness of every step of a started call; strong fairness
  of `WaitAsync`, since SemaphoreSlim wakes its waiters in turn. Factories end
  because CreateChannel has a deadline per attempt and a limit of attempts.
* `endpoint_cache`, `stale_cache`: started calls and loops run on. Nothing makes
  Consul change or a client call; failures are bounded.
* `pool`: a started call runs on (deadline of ConnectAsync, timeout of the
  Consul client). Not assumed: that servers come up, lists change or the
  handler runs. `pool_leaks` states no liveness.
* `register`: an armed timer fires, started code runs on, Consul is started
  again, the collector frees unreferenced timers. Not assumed: that the server
  is ever stopped or that Consul stays up.
* `fanout`: weak fairness of a request's steps, since every call of the dashboard
  has a deadline and its HTTP requests time out. Not assumed: that an instance ever
  carries a command out, answers, starts, or registers again.
* `calls` states no liveness: calls end by their deadline, and handlers are not
  this library's.

## 4. Proofs

Every theorem holds for all values of the constants that meet the named
assumptions of the module (names are distinct, bounds are natural numbers,
lists passed to the load balancer are not empty, thread sets are finite where
they are counted). Each module proves an inductive invariant and derives the
properties.

* `AtomicDictionaryProofs`: `IInv` = types, `SemaphoreInv` (a count is 0 or 1,
  0 while a thread is inside, at most one inside), `NoPermitLost` and `ValueInHand`.
  `OneFactoryPerKey` is not inductive alone: nothing in it says that the
  semaphore of a thread inside is taken. `DictionaryImplementsMap` maps `dict`
  to the map, threads in the factory or storing to `building`, and the value in
  hand after the lookup to `got`; every step is a step of `AtomicMap` or
  stutters, and `ValueInHand` gives that a caller before its lookup shows nothing.
  `PermitsReturn` says that a semaphore is closed only by a caller inside it: a step
  that closes one puts its caller inside, one that takes a caller out opens it.
* `RoundLoadBalancerProofs`: `IndexInRange` with the fact that a list is not
  empty at the reset. For `IndexBounded` the invariant is `IndexInv`: index
  plus calls about to increment is below the longest list plus the number of
  threads; finite-set lemmas count the calls. `SharesAreEqual` (`Balanced`) needs
  `BalanceInv`: of a service whose calls do not overlap, the shared index says how
  often each place of the sorted list has been served, the places before it once more
  than those from it on. That sorting
  gives all lists of the same endpoints the same order is shown by counting: the
  place of an address is the number of addresses up to it. The least address not
  yet placed exists because the strict subsets of a finite set are well-founded
  (`LeastNumber`), which stands in for an induction.
* `ConsulDiscoveryProofs`: `NothingLost` with the fact that a loop exists only
  after its call's update; each write of the index comes with a thread about
  to deliver it. `CurrentIsNotForgotten` adds that a loop that got past the Contains
  test never leaves. `AnnouncedInOrder` and `CacheOnlyAdvances` need `SoloInv`: of a
  call that is alone, the index is 0 until it writes it, what its loop is about to
  write is newer and what it is about to announce is the index itself; then the
  cache is never ahead of the index. `Alone` counts calls, so the set of callers
  is assumed finite there. `CacheImplementsDiscovery`: every step of
  `EndpointCache` is one of `ConsulDiscovery` or leaves it alone, which carries
  its theorems over.
* `ChannelPoolProofs`: an invariant that ties the phase of a call to its place,
  its channel's state and a filled cache; `FailoverHitsCache` and
  `EntriesConnected` follow. A connected channel may be lost or shut later,
  never become new again, which keeps pooled entries connected. `CallersShare`
  needs `SharingInv`: while the history is stable there is no work of a rebuild,
  a failover or a sweep, and every open channel is an entry or that of the only
  builder of its key. `OwnInv` says who owns a channel: one that a call is creating
  is held by no other call, is no entry and is not noted by a sweep, and a key is
  noted as being built exactly while its builder is in the factory. It gives
  `CreatedAreOwned`, `BuildersFinish` and, with a distance that counts the attempts
  left and the places to come, `CallsApproachEnd`. `PoolUsesMap` shows that the pool moves `_channels`
  by steps of `AtomicMap` only, so it composes with `DictionaryImplementsMap`;
  `OneCreatorPerEndpoint` is derived through it. `LeaksHaveACause`,
  `DeadEntriesHaveACause` and `StraysHaveACause` are about any number of callers
  and list changes beside the handler. The first two need `LeakInv`: for an
  endpoint not in trouble, an open channel is its entry or held by the call that
  creates it; an entry is shut only while a caller rebuilds it or a sweep has noted it;
  a creator finds the key empty, or with the shut channel it replaces; what a sweep
  has noted, or a caller is about to test, is still the entry or gone. A channel under
  another key than its endpoint's has both in trouble. The third needs that every
  entry is of a listed or an outdated endpoint, or about to be swept.
* `ConsulRegisterProofs`: `HeartbeatInv`: besides the property itself, the
  field is null until the main thread stores the first timer, and a timer about
  to be stored is armed or its callback waits. The case that matters is `Begin`
  disarming a timer another heartbeat just armed: the beginner is then under
  way itself. `TcpStaysDeregistered` needs `QuietWithTcp`: without TTLCheck
  no timer and no run of DoTTL exists, and a Grpc.Core server is stopped only
  after its registration ended.
* `MethodSwitchesProofs`: the list is well formed at every access (its size never
  exceeds its array, an item is counted before Add stores it and counted down before
  Remove shifts the rest, its methods are distinct but for the one Distinct is about
  to drop), which gives `LastCommandWins`. For `CheckSound` each
  reader's invariant says what the slots before its position tell: unless a Del
  ran, the method it looks for has not moved past it, and what it has read stays
  true of some moment since it began.
* `CallPipelineProofs`: `PipelineInv` = types, `PlaceInv` (where client, server and
  scan of one call can be together), `KinInv` (a caller and its handler's call),
  `NumbersInv` (identifiers come from call numbers) and `ThrottleInv` (an
  acknowledged throttling, and one carried out that is still to be acknowledged, is
  in ThrottleManager's list until an unthrottling of its method takes it out, and a
  call made meanwhile has not passed the throttle). `CallsMoveSwitches` is the
  refinement PipelineSpec => SwitchSpec;
  the theorems of `MethodSwitches` are derived through it.
* `DashboardFanOutProofs`: `IInv` = types, `NumbersInv` (operations have their own
  numbers), the invariant of commands (each belongs to its operation, or its
  operation has given it up) and that of claims (what a result of true says of
  the instances done so far, before the operation ends; of a steady instance, also
  while commands of earlier operations are on their way to it). `OperationsApproachEnd` needs the
  types only: what is left to do shrinks with each step.

Only model-checked: all liveness (`CallTerminates`, `CallEnds`, `Notified`,
`ChangeReachesCache`, `Reregisters`, `OperationEnds`), which is out
of this prover's reach. The part of it that is safety is proved. In the
dictionary a caller that waits waits for one that goes on to release
(`NoPermitLost`). In the pool a call waits only for a builder that waits for nobody
(`BuildsToTheEnd`), and in the pool and the dashboard each step brings its call
or operation nearer to an end that is finitely many steps away (`CallsGetNearer`,
`OperationsAdvance`). In the discovery a current list is always on its way
(`CurrentOnItsWay`), and of the heartbeat some timer or callback is always left
(`HeartbeatAlive`). What remains to TLC is that fairness makes those steps
happen, which needs ENABLED. Every safety invariant and action property that a
run checks has a theorem. `CurrentOnItsWay` and `OperationsAdvance` are in no
run's cfg, where `Notified` and `OperationEnds` ask for more; TLC finds no error
when they are added to `endpoint_cache` and `fanout`. The claims of the four runs
that expect a violation have no theorem: those runs show them false.

## 5. Not modelled, and why

* Several services or tags in one pool. The cache key ignores the tag
  (ChannelPool.cs:76), so which tag's list is kept is whichever came first; no
  property of the code is violated by it that is not plain to see.
* A Consul index that goes back, and the table of Consul clients.
* Shutdown racing calls; direct endpoints (no code sets `UseDirect`).
* Seconds: the 15 s TTL against the configurable interval is only present as
  the agent's reaping.
* Semaphores of AtomicConcurrentDictionary are never freed, and a failed query
  of the discovery is repeated without delay: questions of load, not of states.
* Jaeger spans, logs, and CommonError's conversion of exceptions to an RpcException
  with a JSON detail, which is a pure function; `CallPipeline` keeps that an
  exception fails the call.
* The dashboard's pages and read-only queries, and Info and MethodInfo of the meta
  service. MethodInvoke of the dashboard calls one instance without a deadline and
  stores nothing; the call it makes is in `CallPipeline`.
* Proto generation and method binding: reflection and text over the compiled
  descriptors at start-up, without state afterwards.
* The server builder, client manager, NetHelper, options, dependency injection and JSON:
  wiring or I/O.
* The scripts under FM.GrpcDashboard/wwwroot, among them
  jquery.validate.unobtrusive.js: third-party code (wwwroot/lib) or a comment only
  (js/site.js), and no page has the data-val attributes the former acts on.
* The examples and the generated protobuf code, which are not part of the library.

## 6. Plan

Done, in this order: AtomicMap and AtomicDictionary; RoundLoadBalancer;
ConsulDiscovery; EndpointCache; ChannelPool and ChannelLeaks; ConsulRegister and its
two hosts;
MethodSwitches; CallPipeline; DashboardFanOut; the proofs of all of them.

Left, most important first:

1. `ChannelPool` with two tags of one service, and with a Shutdown that races calls.
2. `ConsulDiscovery` with an index that Consul resets.
3. A failover by round robin over three endpoints of which one is up, composed of
   `ChannelPool` and `RoundLoadBalancer`.
