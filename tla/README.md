# ccordis in TLA+

ccordis is a C++17 plugin kernel: a tree of `Context` scopes into which plugins
are loaded, a registry of services by which plugins find each other, an event
bus, a data plane for large blobs, a tracker for requests in flight, and the
code that finds plugins on disk and loads a product's configuration. The design
is callback-driven: almost every call can run other code before it returns, and
that code may make the same calls again.

This directory models that behaviour in TLA+, checks it with TLC on small
instances and proves part of it with TLAPS for all instances.
`PROJECT.json` lists the components, the runs, for every definition the source
lines it stands for, and the hazards at their lines. Paths below are relative
to `src/`, the root of the repository.

Contents: 1 the system - 2 modules and how they correspond to the code -
3 runs and bounds - 4 fairness - 5 proofs - 6 what the checks found -
7 not modelled - 8 plan - 9 running it.

## 1. The system

| component | state | operations | works with |
|---|---|---|---|
| service registry (`src/ServiceRegistry.cpp`) | `m_services`: id -> owner, type, instance; `m_watchers`: token -> id, callback; `m_nextWatchToken` | `provide`, `revoke`, `watch`, `unwatch`, `unwatchAll`, `fireWatchers` | shared by all scopes of a tree; calls watchers outside its mutex |
| Context and plugin life cycle (`src/Context.cpp`) | per scope `m_records`, `m_provided`, `m_alive`, `m_retiredLibraries`; per record state, scope, sentinels, instances, library | `plugin` (function, class, object form), `pluginFromLibrary`, `loadRegistered`, `unload`, `provide`, `watch`, `ensureStarted`, `stopRecord`, `~Context` | calls the registry, is called by its sentinels, runs plugin code |
| plugin registry and product configuration (`src/PluginRegistry.cpp`, `Context::loadAppConfig`) | `m_manifests`, `m_searchPaths`, `m_lastError`; the configuration report; `m_lastLoadedName` | `scan`, `clear`, `load`, `loadAll`, `unload`, `loadConfig`, `loadAppConfig` | reads the file system, loads into a Context |
| event bus (`src/EventBus.cpp`) | `m_handlers`, `m_nextToken`, `m_depth` | `on`, `off`/`Connection::release`, `emitEvent` | handlers call it again |
| blob channel (`src/BlobChannel.cpp`) | `m_queue`, `m_capacity`, `m_pending`, `m_handlers`, `m_pumpHook`, counters | `post` (any thread), `pump`, `publish`, `subscribe`, `unsubscribe`, `setCapacity`, `setPumpHook` | device threads, host event loop, handlers |
| blob pool (`src/Blob.cpp`) | free lists by bucket, `retainedBytes`, `dead`, counters | `acquire`, the recycling deleter, `~BlobPool` | any thread |
| request tracker (`src/RequestTracker.cpp`) | `m_inFlight`, `m_wheel`, `m_timedOutHistory`, `m_stats` | `track`, `complete`, `tick`, `expireAll`, `forget` | the host's clock and connection |
| middleware (`Context::middleware`, `run`) | `m_middleware`, one chain per scope | `middleware`, `run` | elements call `next()`, install more and run again |
| data plane of a Context (`channel`, `onBlob`, `pumpAll`) | `m_channels` by name, shared by the tree; `m_blobSubs` per scope; the root's `m_blobPool` | `channel`, `onBlob`, `pumpAll`, `blobPool` | channels, the host's event loop, subscribers |
| JSON parser (`src/Json.cpp`) | a position, a depth | `parseJson` | manifests and configurations |
| `Value` (`include/ccordis/Value.h`) | a variant; objects keep insertion order | `at`, `has`, `set`, `shallowMerged` | options of plugins |
| blob frame header (`src/BlobFrame.cpp`) | 32 bytes | `makeHeader`, setters, getters | producers and consumers on other hosts |
| topology | none | `topology` | reads records |
| I/O and glue: library loader, log, ABI macros | handles | | |

What is hard here:

- **Re-entrancy.** There is one host thread, but `provide` runs watchers, a
  watcher starts or stops a plugin, starting runs the plugin's `apply()`,
  stopping destroys a scope, and both provide and revoke again. The
  interleavings that matter are those of suspended calls: what a call read
  before a callback and uses after it (record pointers, vector iterators, copies
  of watcher and handler lists, "the last loaded name").
- **Threads.** Devices post blobs and drop references from their own threads
  against the host's pump and the pool's destruction.
- **Order.** Teardown phases, loading and activation, unmapping code, FIFO
  delivery, a timeout and a late answer.
- **Partial failure.** A plugin body or a handler that throws, an entry of the
  configuration that cannot be loaded.
- **Limits.** Mailbox capacity, retained bytes, nesting cap, bounded history,
  scan depth.

What makes each component right:

- *registry*: an id keeps its owner until the owner revokes it; a watcher
  told an old value last is on the list of a loop that will tell it the present one.
- *Context*: a record is Active exactly when its requirements are available,
  or a suspended loop is about to put it right; scopes form a tree owned by
  Active records; a service in the registry belongs to a living scope that will
  revoke it, and only its owner's death takes it away; sentinels, instances and mapped
  libraries match the records; `unload()` erases the record it found; cascades end.
- *plugin registry*: a scan finds what the search paths offer, in their order;
  loading is idempotent; every entry of a configuration is accounted for.
- *event bus*: the nesting count is exact on every way out; subscription order;
  one handler cannot break the fan-out; a scope that dies takes exactly its own
  subscriptions with it.
- *middleware*: a run goes through the chain it was called with, in order.
- *data plane*: one scheduled drain is enough for all channels, also for those made
  and posted to while it runs.
- *pure code*: what is accepted is what the grammar allows, within the limits, and
  means what it says; the last override wins; a header is read as it was written.
- *channel*: no lost wake-up, no lost blob, newest kept, FIFO.
- *pool*: a block is in one place; the budget is exact; a late release of a
  dead pool frees.
- *tracker*: both indices agree; each request has one outcome; each ends.

## 2. Modules and code

```
                                                          PluginRecords  abstract: a scope's list of records
                                                                ^ implemented by      ^ built upon
ServiceRegistry    state and effects of the registry            |                     |
      |-- ServiceWatch   registry + arbitrary clients           |                     |
      `-- Context        registry + scopes + records -----------'               PluginRegistry
                                                                        scan, load, configuration
LossyMailbox <- BlobChannel          BlobPool        RequestTracker
EventBus <- ScopeDispatch            Middleware      DataPlane
JsonText, JsonScalars                Value           BlobFrame

put together for a run:
MCContext      Context, ContextLayers             MCRegistries   PluginRegistry, ServiceWatch
MCHostLoop     RequestTracker, BlobChannel        MCDispatch     ScopeDispatch, Middleware, DataPlane
MCData         JsonText, JsonScalars, Value,      MCBlobPool     BlobPool
               BlobFrame, BlobChannel

put together for proofs:

ContextProofs          Context                    CollectionLemmas: sequences, sums and folds,
ContextLayerProofs     Context, ContextLayers     used by all of these
ContextUseProofs       Context, ContextLayers
PluginRegistryProofs   PluginRegistry
BlobChannelProofs      BlobChannel, BlobFrame
BookkeepingProofs      BlobPool, RequestTracker, ServiceWatch
DispatchProofs         ScopeDispatch, Middleware, DataPlane
```

An `MC*` module has the small sets a run uses. `MCRegistries`, `MCHostLoop`, `MCDispatch`
and `MCData` put modules together that share no state: a behaviour exercises one of them
from its initial state while the others rest, so the states add up and do not multiply.
`MCContext` does the same with the products a host may be set up with (`Products`).

**How calls are modelled.** In `ServiceWatch`, `Context`, `BlobChannel`, `EventBus`,
`Middleware` (`calls`) and `DataPlane` (`passes`) the host thread's call stack is a variable, `stack`, innermost call
first. A frame is a suspended call with the locals it goes on with (the copied
watchers, the index of a loop, the record). *One action is one stretch of code
between two callbacks*, so every order in which callbacks can come back is
explored. An operation with several stretches has several actions.
Code that runs on other threads (`post`, the pool) has one action for each
critical section and one for what it does between them.

**Undefined behaviour.** Using a record, a scope or an iterator that is gone is
undefined. There the step is disabled: the thread never goes on, and deadlock
checking reports it if the property checked does not first. `ContextNests` is about products in which
this happens and leaves deadlock out: its properties hold up to that point. The
data race on `m_pumpHook` is a choice between the old and the new value.

**ServiceRegistry** holds `services` (`m_services`, a service is its owner) and
`watchers` (`m_watchers`) and the effect of every operation under the mutex. A
token is fresh when it is larger than all in use, which is all the code's
counter guarantees that matters. **ServiceWatch** adds the loops of
`fireWatchers()` and clients that provide, revoke, watch and unwatch at any
time, also from a callback. `seen` is a history variable: what each watcher was
told last; `overtaken` another: the watchers whose id changed while a loop over it had still to
call them.

**Context** EXTENDS the registry with `scopes`, `recs` and `stack`.

| code | actions and operators |
|---|---|
| `plugin()`, `pluginFromLibrary()`, `loadRegistered()`, `addRecord` | `AddRecord`, `ArmNext`/`ArmToken` (`armDependencyWatchers`), `ArmStarts` |
| the sentinels' lambda | `CallWatcher` |
| `ensureStarted`, `apply()` | `EnsureStarted`, `ApplyProvide`, `ApplyLoad`, `ApplyEvict`, `ApplyReturns`, `ApplyThrows` |
| `stopRecord` | `StopRecord` (up to the scope's destruction), `StopRelease` (after it) |
| `unload` | `Unload` (up to the stop), `Erase` (after it) |
| `~Context` | `DtorStop`, `DtorRelease` (phase 1), `DtorClear` (records, retired libraries, phase 2), `RevokeNext`, `RevokeDone` (phase 4) |
| `fireWatchers` | `FireWatchers`, `FireNext`, `FireDone` |
| the host | `HostLoad`, `HostUnload`, `HostProvide`, `HostDestroy`, `CallbackLoads`, `CallbackUnloads`, `CallbackReturns` |

A plugin is a name with a form (`function`, `class`, `object`, `dynamic`), what it
requires, and what its body may provide, load and unload. The forms differ in when
the instance exists and whether a library is mapped; `pluginFromDef()` is the
object-like form without a library. `uses` names the dynamic plugins
whose service objects an activation was given, `Invalidate` marks the iterators
that a change of `m_records` invalidates.

**ContextLayers** EXTENDS `Context` and adds no behaviour: it states which products keep their nested
calls apart (`Layered`; 5 and 6). Most theorems about cascades assume it. The products of
`ContextTree`, `ContextUnmap` and `ContextRetire` satisfy it, those of `ContextFailover` and
`ContextNests` do not (`LayeredProducts`).

**PluginRecords** is what a scope promises about its records: a list in load
order, each going through the life cycle of `doc/plugin-lifecycle.md`. `Context`
implements it (`RecordsAsPromised`), and **PluginRegistry** is built on it: its
records turn at any time, because every load can start or stop others. `scan()`
takes one step for each directory, in any listing order; `loadAll()` and
`loadAppConfig()` one for each manifest or entry; any load may fail.

**EventBus**: `Emit`, `CallHandler`, `HandlerReturns`, `HandlerThrows`,
`EmitReturns` are the stretches of `emitEvent`; `EmitNothing` its two early returns.
**ScopeDispatch** puts scopes over it: `Born` and `Dies` are the part of `ensureStarted`
and `~Context` the bus sees (phase 3, `m_connections.clear()`), at any point where client
code runs; `OnIn` is `Context::on()`, for the host `bus().on()` with a handle it releases
by hand. `gone` is a history variable: what was released while a call was in progress.

**Middleware**: `calls` holds the elements being called with the copy of the chain that their
`run()` made. `CallNext` is the continuation, `Enter` the lambda `step`.

**DataPlane**: the map of channels and the loop of `pumpAll()`, of a channel only the number of
waiting blobs and `m_pending`; `BlobChannel` has the rest. `cut` is a history variable: the channels
an exception kept a loop from reaching.

**JsonText** is the recursive descent over tokens beside a writer that composes
documents and knows what they mean; **JsonScalars** has `parseString()` and
`parseNumber()` over units that stand for all characters of a kind, with `std::stoll`
and `std::stod` from the C++ standard. **Value** has the objects of `Value` and
`shallowMerged()`. **BlobFrame** is the header in memory of a host of either byte order;
`meant` is a history variable: what the producer set by name.

**BlobChannel**: `Post` is the part of `post()` under the mutex, `FireHook` the call
after it; `StartPump`, `PumpNext`, `CallHandler`, `CallDone` are `pump()` and
`publish()`. **LossyMailbox** is their promise: latest wins, first in first out.

**BlobPool**: `AcquireParked`, `AcquireMisses`, `Allocate` are `acquire()`; `Drop`,
`Park`, `Free` the deleter; `Destroy` is `~BlobPool`. `BucketExp` is
`bucketExpFor`.

**RequestTracker**: one action for each operation, since one thread uses it. `fate`
is a history variable: what became of the id last.


## 3. Runs and bounds

Every run but `Data`, whose inputs come to an end, and `ContextNests`, where undefined behaviour
stops the thread, checks deadlock: where the system may rest, the model has an action that
lets it rest (`Terminated`), so a deadlock is a thread that cannot go on.

| run | question | instance | states |
|---|---|---|---|
| ContextTree | do records, scopes, services, sentinels and mapped code stay right in every cascade? | three products. *Chain*: a dynamic provider, a consumer that provides in turn, a consumer of both, two of them loaded twice; 3 records. *Nested*: a body with a dynamic child and a sibling it may unload; that plugin, its sibling and the host compete for the id the child requires. *Watched*: the host's watcher may load one and unload another plugin, neither of them involved in the loss. All three are layered | 470,000 |
| ContextNests | what holds without any discipline? | a consumer that evicts its provider and itself from its body; the host answers the loss of either service by loading one and unloading two of the three plugins, which are loaded, unloaded and provided in any order; 3 records | 100,000 |
| ContextFailover | the same with a fallback provider (violation) | see 6 | |
| ContextUnmap | is all stopped before a library is unmapped? (violation) | see 6 | |
| ContextRetire | is a sentinel's record there when it is called? (violation) | see 6 | |
| Registries | *PluginRegistry*: what does a scan find, what becomes of every entry of a configuration? | 2 overlapping search paths over 10 directories, 3 names, 4 entries, 4 records | 580,000 |
| | *ServiceWatch*: is a watcher told the truth in the end? | 2 ids, 2 owners, 3 tokens, 3 nested loops, every call from every callback | 730,000 (2,600,000 without symmetry) |
| HostLoop | *RequestTracker*: do the indices, counters and outcomes agree, and does every request end? | 3 ids, 4 requests, timeouts 0 and 2, history of 2 | 41,000 |
| | *BlobChannel*: can a wake-up be lost? does the mailbox drain? | 2 device threads, 1 subscriber that throws, pumps and publishes from handlers, capacities 1 and 2, 3 posts | 16,000 |
| TrackerLost | is an answer after a lost connection Unknown? (violation) | see 6 | |
| BlobPool | is each block in one place, within the budget, and given back? | 2 threads, 3 blocks, buckets of 2 and 4 bytes, budget 6 | 100,000 |
| Dispatch | are depth, order and fan-out right however handlers nest and scopes die? does a run follow its chain? is a channel forgotten? | 2 events whose handlers emit both, 3 subscriptions, a scope in a scope, nesting cap 2; chains of 3, 4 calls in progress; 3 channels of capacity 2, 2 nested drains | 360,000 |
| DispatchStale | is a handler called only while it is subscribed? (violation) | see 6 | |
| Data | is every input read as it is meant? | documents of 9 tokens (5 when wrong), depth 3; strings of 5 units, numbers of 5 characters, integers -100..99; objects of 3 members, 3 keys; 4 frame types, 2 byte orders | 220,000 |
| | *BlobChannel*: is a blob lost, doubled or overtaken? | 1 device, 2 subscribers, late hook, 4 posts | 260,000 |

Bounds, and why they are enough:

- *Context.* `RecIds`, `ScopeIds` and `Tokens` are finite sets of addresses; they
  bound what exists at one time, never how often it is loaded, since an address is
  used again when nothing refers to it. Three records are the shortest chain with
  a middle; a fourth is the child or bystander of the nested and watched instances.
  `twice` makes `unload()` choose between records of one name, `Offers` lets a scope provide an id
  that it has provided already (twice for one id, once for the others). `reserve`
  keeps a load from beginning when tokens would run out in the middle of it;
  otherwise a finite supply would look like a deadlock.
- *ServiceWatch.* `MaxDepth` = 3: a loop, a loop in its callback, and one more whose
  outcome the two outer ones must not undo. Two ids, since a callback may change its own or
  another. Ids and owners are only compared with others, so they are symmetric; tokens have an order.
- *Channel.* `MaxPosts` of 3 or 4 exceeds the capacity, so that blobs are dropped
  while a pump holds others; `MaxDepth` 4 is two handlers deep inside two
  calls. `NestedPump` and `LateHook` are FALSE where the property is only promised
  without them (6), TRUE in the other run: `HostLoop` is about wake-ups, `Data` about order.
  `Capacities` has 0, which the code turns into 1.
- *Tracker.* `KHistory` = 2 (256 in the code): the third timeout evicts. `MaxTime`
  and `Horizon` bound the clock and `MaxRequests` the history of calls; the clock
  passes every deadline.
- *Pool.* Sizes are the bucket limits, one more, and 0; two large blocks exceed the
  budget, so `Free` happens besides `Park`. `MaxRefs` bounds copies of a `Blob`,
  `MaxCount` the acquisitions counted.
- *Dispatch.* `KMaxRecurse` = 2 (16 in the code): the cap is hit with handlers still
  to be called at every depth, and a scope can die two calls deep. A handler emits
  each event once (`may`). `MaxNext` = 2 is a continuation used twice, `MaxCalls` = 4 a
  second run inside a complete first one. Three channels are one before, one at and one after
  the loop's place.
- *Data.* `KMaxDepth` = 3 (64 in the code), with documents that go one level deeper.
  Five units are two surrogate pairs and a quote; five characters are a sign, a leading zero, a
  point and an exponent in most combinations, on both sides of the range of integers.
  Three members allow a key twice and another one between.
- *Plugin registry.* `KMaxScanDepth` = 2, as in the code: a plugin is too deep from one search
  path and not from the other. `MaxRecords` = 4 allows one record for each name and
  one more, which a repeated load would need. The ill-formed manifests, one of each
  reason, are in `MCRegistries`.

What the properties say is in the comments above them; the deepest are:

- `DependenciesTracked`: in the middle of any cascade, a record that runs without
  its requirements or waits although they are there is on the list of a loop that
  is still to reach it. `LateBinding` is what remains of it between host calls.
- `RecordsAsPromised`: the record list of a scope, seen from outside, follows the
  documented life cycle in every step of every cascade.
- `ResidentWhileUsed`, `CodeStaysMapped`: retirement of libraries on `unload()`
  protects whoever still holds a service object of theirs.
- `NoLostWakeup`: `m_pending` is cleared and set on two sides of a mutex and the
  hook is called on neither; still no blob waits without a pump to come.
- `StaleIsPending`: a watcher that was told something old is in a
  loop that will tell it the new value, whatever callbacks do, unless it was overtaken.
- `ErasesItsOwn`, `ServesWhileAlive`: what every nest of calls leaves intact, also where no
  discipline keeps nested calls apart.
- `FanoutComplete`, `SubscriptionOrder`: every handler that was subscribed when an
  event was emitted is called once, in order, even if another throws.
- `SubscriptionsOwned`: the handler tables hold what living scopes and the host hold handles of,
  and a call in progress holds nothing that was released before it began.
- `NoChannelForgotten`: a hook fires once until its channel is drained, and one request stands
  for all; still a blob waits only while a drain is due or a loop is before its channel.
- `DocumentsParsed`: the parser accepts exactly what a writer can have written within the depth,
  and reads it as it was meant.

## 4. Fairness

Liveness is checked under these assumptions only, in `HostLoop` under those of the part that is
exercised (`FairMCSpec`):

- *Context* (`CallsReturn`): weak fairness of `ThreadSteps`: the host thread is
  scheduled, so a call that began goes on, and plugin bodies and callbacks return.
  No host call is fair; nobody must load or unload anything. Termination of a
  cascade is then a result: restarts triggered by restarts come to an end.
- *BlobChannel* (`Drained`): each poster gets from the mutex to the hook (weak), the
  host's loops run on (weak), and what a host does when its event loop is idle
  and a pump is scheduled gets its turn among its other calls (strong, since other
  calls keep disabling it). Handlers return, at each depth (strong: a nested call
  disables the return of the outer handler again and again). Posts are not fair.
- *RequestTracker* (`EveryRequestEnds`): time passes and the host ticks; both weak. The
  header asks the host to call `tick()`; nothing else in the code expires a request.
- *BlobPool* (`DeadPoolDrains`): a deleter that has begun finishes (weak), and every
  holder of a reference to a block drops it at some time (strong, since copies may
  be made and dropped in between).
- `Registries`, `Dispatch`, `Data`, `ContextNests`: safety only.

## 5. Proofs

The theorems hold for every value of the constants under the assumption each module
names. Those assumptions say what kind of value a constant is, and in a few places more, which
the code justifies:

- `PoolAssumption`: no size exceeds the largest bucket; `operator new` refuses it.
- `FrameAssumption`: no frame type has both a segment and a sample rate, which share a byte.
- `TrackerAssumption`: `Horizon`, where the model's time ends, is beyond every deadline that can
  be set, so `expireAll()` reaches all of them as the code's does.
- `NullAssumption` (`Context`): a null pointer is not a record, an address that holds no Context is
  not one. `NoRec` and `Gone` are otherwise arbitrary values.
- `PluginRegistryAssumption`: an entry by name has a name, one by path a path (`Item` would be of
  kind `empty` otherwise); a directory has finitely many subdirectories.

Where a property needs more than that, the theorem says so as a hypothesis of its own, and without
it the property is false (6): `LateHook = FALSE`, `Throwing = {}`, `~NestedPump`, `~Reuse`,
`NamesAgree`, and for most properties of the cascades of a Context `Layered`.

**`Layered`** (`ContextLayers`) is a condition on the plugins of a product, not on the
behaviour: the host still calls what it likes, in any order, bodies provide, load, evict and throw
when they like, and records come back after any loss. The code does not enforce it.
The plugins can be ranked so that what a plugin loads, evicts, or provides a service to
is ranked above it. For services alone this says that no two plugins can each be waiting for
the other, so that all of them can start; besides, it excludes a body that unloads itself
or a plugin it depends on, and a host that answers the loss of `s` by loading a
provider of `s` (*Failover*). In each of these a call returns into a record or scope that has been
stopped beneath it, or a loop announces what is no longer true. It does not say that no stale
pointer is used: the product of `ContextRetire` is layered. The theorems of `ContextProofs` do without it.

| module | theorem | property | the inductive invariant, and why the property alone is not inductive |
|---|---|---|---|
| ContextProofs | `TypeCorrect` | `TypeOK` | inductive as it stands: a lemma for each call that several actions make, a step for each action |
| | `OwnersOutliveServices` | `ServicesOwned` | `TreeInv` (below) and `Owned`: what each destructor in phase 4 has still to revoke, read from the whole stack, since a cascade of destructors is several of them |
| | `OwnersServeForLife` | `ServesWhileAlive` | an action property, from `TreeInv`: `provide()` only fills an empty place, and the one step that empties it belongs to a destructor, whose scope is not alive (`TeardownRight`) |
| | `UnloadErasesItsOwn` | `ErasesItsOwn` | `EraseRight` and `Suspended` of `TreeInv` (below): what stays true of a waiting `unload()` whatever runs above it |
| | `CodeOutlivesPlugins` | `CodeStaysMapped` | an action property, from `TreeInv`: what `unload()` erases is a record of the scope that retires its library, and only a scope that is not alive unmaps |
| | `ImplementsRecords` | `RecordsAsPromised` | refinement of `PluginRecords`, from `TreeInv`: a start or stop in any cascade is one `Turn`, `addRecord` a `Load`, `Erase` a `Forget` of a record that has stopped, `DtorClear` of the root a `Destroy`; all else stutters |
| | `SentinelsMatchRecords` | `SentinelsExact` | `SentinelInv` on top of `TreeInv` (below): the property speaks of the moments between two calls of the host, the invariant of every moment of a cascade |
| ContextLayerProofs | `LayersHold` | | `LayerInv` (below), by itself: what cascades do to each other |
| | `RecordsFormTree` | `ScopeTree` | `LayerInv`: that a record's scope is its own (`Placed`) only survives a cascade if no call on the stack goes on to start or stop the same record |
| | `InstancesKept` | `InstancesMatch` | `Instances` on top of it: while a start or stop is on the stack its record has the instances of a moment, and `Turned` says that only the end of that call changes them |
| | `RecordsStepLegally` | `LifeCycle` | an action property, from `LayerInv` and `Turned`: what every step does to every record |
| ContextUseProofs | `DependentsAreTold` | `DependenciesTracked` | `Tracked` and `SentinelInv`: the sentinel that will be told exists, is in the snapshot of every loop about its service that begins while the record is in the wrong state, and leaves it only when the record acts; a scope's liveness token, by which a sentinel may ignore the call, never comes back (`Ages`) |
| | `ServicesOutliveUse` | `ResidentWhileUsed` | `Users`: a record that uses a library's service is supplied by a record of that plugin, or by one whose scope is being destroyed above its own `stopRecord()`, or is about to be told of the loss. Only then is no record that erases its library used, because by `Layered` the users of a plugin stop before what unloads it goes on |
| PluginRegistryProofs | `NeverTwice` | `OneRecordEach` | `RegInv`: a manifest is filed under the name its library has (`ManifestsRight`), and only the record of an unload in progress is Disposed (`DisposedRight`), so that `pluginState()` tells whether there is a record (`RegisteredIsHas`) |
| | `NeverSilent` | `EntriesAccounted` | the same, with what each loop works through (`JobRight`) and that the plugin loaded last has a record while a library waits to be reported (`WaitingRight`) |
| | `ScansExactly` | `ScanExact` | without `NamesAgree`. The property speaks of the end of a scan; `Searching` says where a scan stands (`Progress`): it is in search path `p`, the first `f` items of `todo` reach only what `p` reaches, the paths after `p` follow, a name found is offered first by a path up to `p`, and what `p` offers of a name not found is reached from those `f` items |
| BlobChannelProofs | `PendingExact`, `LatestKept` | `PendingIffQueued`, `KeepsLatest` | `IInv`, the two together: that `post()` may skip the hook because `pending` is set needs the queue to be a gapless suffix of what was posted, and trimming keeps it only for a capacity of at least 1 |
| | `WakeupKept` | `NoLostWakeup` | adds that the hook is set (`HookSet`) |
| | `NothingLost` | `Conserved` | `Accounted`, with lemmas on how a push, a pop and the head's blobs change the sum over the stack; overflow, pumps within pumps and the late hook included |
| | `MailboxImplementsLossy` | `LatestWinsFifo` | refinement of `LossyMailbox`: `OldestPumped` says that only the outermost call pumps, and holds blobs in order that are all older than those in the mailbox |
| | `FrameReadable` | `FrameOnWire` | byte by byte what `ext` holds (`ExtWritten`); lemmas on byte arrays give that a conversion and a store are the wire order on either host |
| BookkeepingProofs | `WatchersCatchUp` | `StaleIsPending` | `WatchInv`: every loop holds watchers of its id, and for those not overtaken carries what is true of it (`LoopsFit`), no watcher but an overtaken one waits in two loops (`Apart`), and tokens are unique among registered and waiting watchers (`OneToken`). Only then does one delivery correct one watcher, and nothing older reach it later |
| | `BlocksInOnePlace` | `OnePlace` | `PoolInv`: what counting needs said without counting: lists without repetition, of blocks of their bucket's size (`ListsRight`), and of parked, referenced and held exactly one (`PlacesRight`); and what a thread's step leaves it with (`DoingRight`) |
| | `RetainedIsSum` | `RetainedExact` | the same: the sum over a set grows and shrinks by the block that comes or goes only because it is in no other bucket |
| | `HoldersHaveRoom` | `FitsRequest` | the same: a block goes back to the bucket it came from because its capacity is a power of two and `BucketExp` of a power is its exponent (`SizesRight`) |
| | `IndicesAgree` | `WheelMatches` | `WheelInv`: `WheelMatches` without counting; `RemoveFirst` leaves a slot that has no repetition without the id |
| | `StatisticsAddUp` | `StatsTruthful` | adds that the pending ids are finitely many; the expired ones are the concatenation of the due slots, without repetition |
| | `SingleClassification` | `ClassifiedOnce` | inductive on top of `WheelInv` |
| DispatchProofs | `DepthIsExact`, `HandlersInOrder` | `DepthExact`, `SubscriptionOrder` | `BusInv`: every subscribed token is below `m_nextToken`, so that appending keeps the order |
| | `HandlesMatchTables` | `SubscriptionsOwned` | `DispatchInv` adds that a token has one owner and each call its entry of released tokens: a dying scope then takes what is its own and nothing else |
| | `EveryHandlerInTurn` | `FanoutComplete` | an action property, from `DispatchInv` |
| | `ChainInOrder` | `MiddlewareOrder` | inductive: the continuation pushes the next element of its caller's copy on its caller, whose count of `next()` it raises |
| | `ChannelsRemembered` | `NoChannelForgotten` | adds that `m_pending` is set exactly while blobs wait (`ArmedExact`). A loop goes on with the *first* name after its place, so what it has not come to stays ahead of it |

**`TreeInv`.** Of the properties of `ContextProofs` only `TypeOK` is inductive, because a step of one
call depends on what other calls, suspended beneath it, rely on. `Erase` forgets a *stopped* record
only if the call it belongs to, `unload()`, still holds the position of that record; `~Context` clears a list of *stopped*
records only if nothing was added to it, or started in it, since its loop passed. `TreeInv` says
what the code relies on:

- `ListsRight`: a scope lists live records whose host it is, each once;
- `RightWatchers`, `PointersRight`: a sentinel and a suspended call name a record together with its host;
- `EraseRight`: a call that will erase a record finds it stopped, at the place it remembers, unless
  its iterator has been invalidated (`val`); then it never goes on;
- `TeardownRight`: a destructor works on a scope that is not alive, and what its loop has passed is
  Deferred or Disposed;
- `TeardownAbove`: a scope is torn down only *above* the calls that work in it: those that could
  add to its list wait for the destructor, so the list does not grow behind its loop.

`TreeInv` asks nothing of the plugins: in a tree where a plugin unloads its own parent, a call may find its
record gone and go no further (2, undefined behaviour), and `TreeInv` still holds.

**`SentinelInv`.** A sentinel's token passes through several hands: `watch()` registers the sentinel and calls
it before it returns the token, which the record gets only afterwards. Meanwhile the record may be
started, stopped and even unloaded by what that call sets off. The invariant says who has the token:

- `SentinelsRight`, `ArmRight`: a registered sentinel is waiting in the call that arms its record
  (`todo`), or its record has the token, never both;
- `TokensApart`, `TokensRight`: a token is one watcher's, and a token that a record has is one of its
  own sentinels', so that `unwatchAll()` takes no other record's;
- `RecordRight`: a record has the sentinels of the requirements its arming call has passed, of all of
  them when no call arms it, or is in the list of a scope whose destructor runs (`Doomed`);
- `DoomRight`: what that destructor's loop has passed has no token left. Only so does `DtorClear`, which
  forgets the records without looking at their tokens, leave no sentinel behind;
- `ArmsApart`: no record is armed by two calls at once. Arming calls are told apart by their height
  in the stack, which no call above them changes.

**`LayerInv`** is `TreeInv`, `Owned` and `Layers`. `TreeInv` cannot say that a waiting call finds its record as
it left it, since without a discipline it does not. `Layers` relates any two calls on the stack:

- `Within(f, A)`: all that call `f` may still touch belongs to plugins in `A`: its record, the records of the
  scope it tears down, whoever hears of the services that scope still provides, the watchers it has
  still to call, and what a host's watcher may load or unload then;
- `Apart(f, g)`: `f` runs above `g` only if it is within the plugins ranked above what `g` concerns
  (`Over`), or is the start or stop that belongs to `g`'s own `addRecord()`;
- `Good`: what each call relies on when it goes on. `apply()` has all its services and its own scope,
  `stopRecord()` a record that is no longer Active, a loop announcing a loss a service that is lost;
- `Placed`, `Held`: a record is Active exactly while it has a scope, that scope is its alone and lists
  only what the plugin loads; a scope without a record is being torn down.

The argument has one lemma for each thing the code can call (`StartLayers`, `StopLayers`, `AddLayers`,
`ProvideLayers`, `WatcherLayers`): the new call is within what its caller may touch, by `Layered` above
what all others concern, and so disturbs none of them (`NestedKept`). The actions are then these
calls from different places.

**`Turned`** is the action that comes with it: in a step a record stays as it is, starts (with all it
requires there), stops, or has its start or stop come to an end; calls below the running one stay.
`InstancesMatch` and `LifeCycle` follow from it, and `Tracked` and `Users` use it for every step.

**Recursion over data.** The library's induction theorems take an operator, which the provers
cannot instantiate. `CollectionLemmas` argues by the least counterexample instead
(`LeastNumber`, `LeastStep`: a set of naturals with no least element is empty), and uses it for
recursive functions and folds: that the function exists and unfolds (`FlatExists`, `SumExists`,
`ShiftsExist`, in `PluginRegistryProofs` also `ReachExists`) and what it computes
(`FlattenProperties`, `SumProperties`, `SumShifted`, `ShiftGrows`). The rest are facts about
`RemoveAt`, `RemoveFirst`, sequences without repetition, and stacks.

**Only model-checked** are
- the liveness properties (`EveryRequestEnds`, `Drained`, `DeadPoolDrains`, `CallsReturn`): fairness
  and `ENABLED` are beyond the prover;
- `DocumentsParsed`, `ScalarsDecoded`, `OptionsMerged`: their modules declare `RECURSIVE`
  operators, with which `tlapm` cannot work, or say what such operators compute for one input at a time.

## 6. What the checks found

Five runs end in a violation; `PROJECT.json` quotes the documents they contradict.

- **ContextFailover** (`LateBinding`). The host's watcher of `s` answers its loss by loading
  another provider. Inside that callback a new loop announces `s`; consumers that
  have not heard of the loss yet are Active and ignore it. Then the outer loop
  goes on with `nullptr` and stops them. They wait for a service that is there, until
  it changes again. The cause is that `fireWatchers()` delivers a value
  it read before the callbacks.
- **ContextUnmap** (`StoppedBeforeUnmap`). `~Context` unmaps each record's library
  immediately after stopping that record, before it has stopped the older ones. A
  consumer that was loaded before its provider is Active then, because phase 0 has
  silenced its sentinel, with a service object whose code is gone, until its own
  stop (and its `dispose()`), which comes later in the same loop.
- **DispatchStale** (`CalledWhileSubscribed`). Two scopes subscribe to one event. The handler of the
  first destroys the second (it unloads that plugin), whose connection is released as it
  should be; but `emitEvent()` calls its copy, so the handler of the dead scope runs. A subscription
  looks after itself only between events. `BlobChannel::publish()` does the same. What does hold is
  `SubscriptionsOwned`: an event emitted after the release never reaches it.

- **ContextRetire** (`SentinelsSafe`). The host's watcher of `s` answers its loss by unloading the
  consumer of `s`. `unload()` cancels the consumer's sentinel and deletes its record, but the loop that
  called the watcher works on its own copy and calls the sentinel next; the liveness token does not
  help, since it is the host scope's. The design document (section 4.8) calls the captured address safe because the
  record never moves. `CallWatcher` ends the behaviour there.
- **TrackerLost** (`LostIsUnknown`). `expireAll()` puts the ids it fails fast into the history like
  timeouts, so an answer that comes after the connection was lost is `LateAck` and counted as late; the header
  (`include/ccordis/RequestTracker.h:60`), the guide and the design document call it `Unknown`.

While modelling, these were met too. The instances above are chosen so that the
properties are checked where the code promises them, and name the restriction:

- *Registry* (`overtaken`): the failover above in small. A callback that changes the very
  id it is told about leaves the watchers that come after it with the old value: they are told the new one
  by the nested loop and the old one by the outer loop afterwards. `StaleIsPending` covers all
  others, `LateBinding` says what it does to a plugin.
- *unload().* The iterator is found before `stopRecord`. A callback of that stop that
  loads into the same scope, or unloads something before that position, invalidates it.
  `ContextNests` has such nests: the step `Erase` is then disabled (2), and `ErasesItsOwn` says what is
  true of all the others.
- *A plugin that evicts itself* from its body gets its scope destroyed while `apply()` is working in it, and
  a record unloaded while its sentinels are armed leaves `armDependencyWatchers()` in a deleted record.
  Both are in `ContextNests` and excluded by `Layered`; the model stops there.
- *Failed records.* Loading a name again after its plugin failed adds a second record; all
  queries by name find the first, failed one until it is unloaded.
- *Channel.* A handler that throws out of `publish()` loses the blobs `pump()` had already
  taken out of the mailbox (`Throwing` is empty in `Data`); `pump()` from a
  handler delivers newer blobs before older ones still held by the outer call
  (`NestedPump`); a hook installed when blobs already wait is not called until the next
  pump (`LateHook`).
- *Tracker.* `forget()` after a timeout leaves the id in the
  history. `track()` does not remove it from there either: an id that is used again
  after its timeout, and answered, has a second answer classified as late (`Reuse` is
  FALSE in `HostLoop`: a retry takes "a new id", `RequestTracker.h:71`).
- *pumpAll().* A subscriber that throws ends the loop. The channels after its own keep their
  blobs, and their hooks have fired already: unless one more drain is scheduled for another
  reason, or they are posted to after a pump, nobody pumps them (`cut`).
- *JSON.* After a high surrogate the next `\u` escape is taken with it whatever it is: `\ud800\u0041`
  is one U+FFFD and the `A` is lost (`Swallows`). Numbers are read more leniently than JSON: `01`, `+1` (a
  double), `1.`, `.5`, and `1-1`, of which the prefix `1` is the value. An integer
  outside int64 becomes a double; a double out of range is an error. A document followed by
  more characters is refused, but the output has been set by then.
- *Plugin registry.* A manifest whose name differs from its library's definition is loaded again by
  each `load()`, since the records have the other name (`LibName`, here `OwnNames`);
  `lastLoadedName()` names a nested load if a watcher loaded something meanwhile, which
  `EntriesAccounted` allows: the reported name is registered, if not always the entry's.

## 7. Not modelled

- *Lifetimes across modules.* `Context` has no subscriptions of a scope: `ScopeDispatch` has them, over
  scopes reduced to born and dead. `onBlob` would be the same over channels.
- *Middleware*: exceptions, `next()` kept beyond its `run()` (undefined), the payload.
- *blobPool()*: made once on the root and shared; the hooks and capacities of channels in `DataPlane`.
- *Context*: a record without `apply` is never tried (`Context.cpp:561`); every plugin here has one.
  `Injected` takes the required services that are there at the start; `inject()` of others, later or
  of a scope that `stopRecord()` has detached already, is left out.
- *RequestTracker*: negative timeouts; 0 is the boundary that is checked. *Plugin registry*:
  `load()` and `unload()` begin between other operations of the registry, not inside their
  callbacks. *DataPlane*: a post and its hook are one step (`BlobChannel` has them apart).
- *JSON*: the depth is an argument, not a counter that goes up and down (`Json.cpp:53-58`).
- *Watchers a plugin installs* with `watch()`: only sentinels and the host's watchers exist in
  `Context`; `ServiceWatch` has arbitrary ones, without records behind them.
- `loadConfig()`: the same loads as `loadAppConfig()`, without a report. Options, versions and the
  kinds of condition an entry may have: an entry is included or not.
- *JSON*: white space, error messages, the bits of UTF-8 and of doubles, reading files. *Value*: the
  accessors of scalars. *Frame header*: `subType` and `reserved_`. `topology()` only reads.
- *Shared libraries*: `Context` says when code is mapped, not how `dlopen` works. The ABI check is
  one of the reasons a load fails. Log, macros, build, tests and the sample plugin have no
  state the properties tell apart.
- Service instances and types, payloads of events and blobs, alignment, statistics that nothing
  reads.

## 8. Plan

Order: most important first.

1. *Context, wider*: watchers installed by plugins (each would count among those that hear of a service), `loadConfig()`, `onBlob` subscriptions in the
   composition of scopes and dispatch.
2. *Middleware* with exceptions.

## 9. Running it

```
tlc -workers 2 -config ContextTree.cfg MCContext      # each run: its .cfg and its MC module
tlapm ContextUseProofs.tla                            # and the other *Proofs modules; a module's
                                                      # run leaves out the proofs of those it EXTENDS
```

`PROJECT.json` lists the module of each configuration. The longest runs, `ContextTree` and `HostLoop`, take two to three minutes.
