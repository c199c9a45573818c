# Controller Bus in TLA+

Controller Bus connects *controllers* by *directives*. A directive states what a
caller wants; handlers answer it with resolvers; resolvers emit values; the
caller holds a reference and is told of every value. This directory holds TLA+
models of that machinery, the TLC configurations that check them on small
instances, and proofs that hold for every instance.

## 1. The system

| Part | State | Operations |
| --- | --- | --- |
| directive instance (`directive/controller/instance.go`, `resolver.go`, `resolver-handler.go`, `reference.go`, `callback.go`, `value.go`) | references, dispose timer, resolvers with their contexts and goroutines, values, `full`, `idle`, `ready`, `released`, callbacks, callback queue | `AddReference`, `Release`, `Close`, `CloseIfUnreferenced`, `Add{Idle,State,Dispose}Callback`; for resolvers `AddValue`, `RemoveValue`, `ClearValues`, `MarkIdle`, `AddResolver`, `Add{Value,Resolver}RemovedCallback` |
| directive controller (`directive/controller/controller.go`, `handler.go`) | list of handlers, list of instances | `AddDirective` (de-duplicate, supersede, ask the handlers), `AddHandler`, the release function of a handler |
| in-memory bus (`bus/inmem`) | list of controllers with their release functions | `AddController`, `ExecuteController`, `RemoveController`, `GetControllers` |
| bus helpers (`bus/oneoff.go`, `multi.go`, `watch.go`, `wait.go`, `refcount.go`, `passthru.go`, `transform.go`) | a local mutex, a broadcast, values seen | `ExecOneOff`, `ExecCollectValues`, `ExecWatch*`, `ExecWaitValue`, pass-through and transform handlers |
| loader (`controller/loader`) | retry backoff, the running controller | resolves `ExecController`: construct, run, retry, unload |
| config set controller (`controller/configset/controller`) | running controllers by key, their references, revisions and states | `PushControllerConfig`, `AddConfigSetReference`, `ApplyConfigSet` and `LookupConfigSet` resolvers, `Execute` |
| config sets (`controller/configset`, `proto`, `json`) | none | `Equal`, `MergeConfigSets`, conversions |
| controller resolver (`controller/resolver`) | factories by id, watchers | resolves `LoadFactoryByConfig`, `LoadControllerWithConfig`, `LoadConfigConstructorByID` |
| controller exec (`controller/exec`) | status by controller | `ExecuteController`, `ExecControllerRequest.Execute`: a stream of statuses |
| resolver library (`directive/*-resolver.go`) | last value, value ids, release functions | value, access, keyed getter, refcount, retry, transform, unique list and map, and watchable resolvers |
| bridge (`bus/bridge`) | a target bus, the directives seen | forwards directives to another bus |
| yaml (`yaml`) | none | `YAMLToJSON`, `JSONToYAML`: the config file formats |
| plugin compiler and loaders, bus API, CLI, examples | files, processes | |

How they interact: everything goes through the directive controller. Its one
mutex `c.mtx` guards the controller and all its instances, but it is released
whenever foreign code runs: `HandleDirective` of a handler, and every callback
(`callCallbackEventsLocked`). `Resolve` runs in a goroutine of its own without
the mutex. Callbacks call back into the same instance, and into others. On top of it
a config set becomes running controllers in four hops, each a directive of its
own: `ApplyConfigSet` (config set controller), `LoadControllerWithConfig`
(controller resolver), `ExecController` (loader), the controller on the bus. The
values travel back through reference handlers that feed resolver handlers.

What is hard here: every function named `...Locked` may unlock in the middle,
so two operations interleave inside each other's loops; a reference, a callback
or a handler is flagged as released before its release has the mutex; a dispose
timer may already have fired when it is stopped; resolvers are canceled and
restarted while their old goroutine still runs. Above the instance, mutexes are
held while callbacks run (`Bus.mtx`, `runningController.mtx`, `refsMtx`), and ids,
configurations and states are read under one lock and used under another.

## 2. What must hold

| Part | Properties that make it correct |
| --- | --- |
| directive instance | an unreferenced instance is disposed of and a referenced one is not; every reference hears of each value once, of its removal and of the end; the hard cap; resolvers stopped only while the instance is full and gone with their handler; idle state and snapshots agree with the resolvers; removed callbacks are called exactly when they should |
| directive controller | equivalent directives share one instance; the list holds the live instances in order, without two that are equivalent, while one goroutine supplies what superceeds; each handler is asked once about each instance |
| bus helpers | no lost wakeup; a value handed out is current, or its owner is told; references are released on the error paths; effects of removed values are undone |
| in-memory bus, loader | a controller that is shown is attached and open; one that was unloaded is neither; nothing is unloaded twice or forgotten |
| config set controller, config sets | the newest revision wins; a controller runs while it is referenced, and no reference that was released for `ApplyConfigSet` keeps it; what a directive shows is the state of the controller |
| controller resolver, pass-through | no factory that is added is missed; values passed through are those of the source; references are released |
| controller exec | the status reported last is the current one, or never an older one if the channels crossed it with its removal; a callback that waits for room is served |
| resolver library | every resource obtained is given back; a release wakes the resolver; what is shown is held, and is what the source holds |
| bridge | a directive is forwarded once at a time and again after it ended |
| yaml | no input leaves a stack or a slice; events nest; writing and reading a value gives the value back |

`PROJECT.json` lists under `hazards` the line at which each of these can go
wrong and the properties that would show it.

## 3. Modules and how they correspond to the code

| Module | Models | Extends / uses |
| --- | --- | --- |
| `DirectiveInstance` | one `directiveInstance` with its resolvers, references and callbacks | |
| `DirectiveInstanceProofs` | theorems about it: types, references and the dispose timer | `DirectiveInstance` |
| `InstancePromise` | refinement mapping of the instance to `ValueStream`, for one reference | `DirectiveInstance`, `ValueStream` |
| `InstanceStackProofs` | the order of the frames on the stacks: what may be left to do under what | `DirectiveInstanceProofs` |
| `InstanceResolverProofs` | theorems about resolvers, their goroutines, values, the cap, snapshots and the end | `InstanceStackProofs` |
| `InstanceCallbackProofs` | theorems about what a release leaves behind, what callbacks and references are told, the idle state, and the refinement | `InstanceResolverProofs`, `InstancePromise` |
| `MCDirectiveInstance` | instance for TLC | `InstancePromise` |
| `DirectiveController` | `AddDirective`, `AddHandler`, removal, over the slices `c.dir` and `c.hnd` | |
| `MCDirectiveController` | instance for TLC: two families of directives, each with versions that are equivalent, of which a newer one superceeds an older one | `DirectiveController` |
| `DirectiveControllerProofs` | theorems about the directive controller | `MCDirectiveController` |
| `ValueStream`, `IdleStream` | abstract: what an instance promises a `ReferenceHandler` and an idle callback | |
| `BusOneOff` | `ExecOneOff` and the functions built on it | `ValueStream`, `IdleStream` |
| `BusCollect` | `ExecCollectValues` | `ValueStream`, `IdleStream` |
| `BusCollectWatch` | `ExecCollectValuesWatch` | `ValueStream`, `IdleStream` |
| `BusSelect`, `ValueSort` | `ExecOneOffWatchSelectCb`, `slices.SortFunc` with its comparator | `ValueStream` |
| `BusWatchLatest` | `ExecOneOffWatchCb`, `ExecOneOffWatchLatestCb`, `ExecOneOffWatchCh` | `ValueStream` |
| `BusWatchEffect` | `ExecWatchTransformEffect`, `ExecOneOffWatchEffect` and their variants | `ValueStream` |
| `MCBusClients` | all bus helpers for TLC | the `Bus...` modules |
| `BusClientsProofs` | theorems about the bus helpers | `MCBusClients` |
| `ConfigSetController`, `MCConfigSet` | the config set controller, with both kinds of resolver | |
| `ConfigSets` | `Equal` and `MergeConfigSets` | |
| `ControllerLoader` | the loader on the in-memory bus | |
| `ControllerResolver` | the controller resolver with the static factory resolver and `PassThruHandler` | `ValueStream` |
| `ControllerExec` | `ExecuteController` and `ExecControllerRequest.Execute` | `ValueStream` |
| `ResourceResolvers` | `AccessResolver`, `KeyedGetterResolver`, `KeyedRefCountResolver`, `RefCountResolver`, `RetryResolver` | |
| `MirrorResolvers` | `WatchableResolver`, `WatchableTransformResolver`, `UniqueListResolver`, `UniqueMapResolver` and their Xfrm variants | |
| `TransformResolvers` | `TransformResolver`, `TypedTransformResolver` | `ValueStream` |
| `BusBridge` | `BusBridge`, `BusBridgeResolver` | `ValueStream` |
| `MCControllers` | the nine modules above for TLC, one at a time | `MCConfigSet`, instances of the others |
| `ConfigSetProofs` | the inductive invariant of the config set controller | `ConfigSetController` |
| `ControllersProofs` | theorems about the parts of `MCControllers` | `MCControllers`, `ConfigSetProofs` |
| `YamlScanner` | `scannerc.go`: characters to tokens | |
| `YamlParser` | `parserc.go`: tokens to events, and `yaml.go`: events to a value | `YamlScanner`, `YamlValues` |
| `YamlValues` | `yaml.go`: what a scalar means; JSON text of a value | |
| `YamlEmitter` | `emitterc.go`, `yaml.go`: a value to YAML | `YamlValues` |
| `YamlConvert`, `MCYaml` | the conversions put together; texts and values for TLC | the other `Yaml` modules |

### DirectiveInstance

The variables are the fields of `directiveInstance`, `resolver`, `dirRef`,
`value`, `callback` and `handler`; the comment beside each declaration names the
field. What a Go program keeps on the stack is explicit:

- `run` is the stack of frames of the goroutine that holds `c.mtx`, empty when
  the mutex is free. One step pops a frame and does what the code does between
  two points where callbacks are emitted.
- `callCallbackEventsLocked` appends to the queue `i.refCbs` and, unless somebody
  already drains it (`i.callingRefCbs`), takes the queue as a batch, unlocks,
  makes the calls and locks again to take the next batch. `calling` is that flag,
  `refCbs` the queue, `cbs` the batch, and `cont` holds the frames of the
  operation that drains, which goes on when the queue is empty (`Resume`). While
  a batch is called `run` is empty and any other operation can start; it then
  queues its callbacks and runs through.
- A flag that is set before the mutex is taken (`Release` of a reference, of a
  callback, of a handler) is a step of its own: "releasing", "flagged".
- A dispose timer is armed, fired (its goroutine waits for the mutex), stopped
  or done. `destroyTimer` is the one the instance knows of.
- `i.res` is a Go slice. A range loop keeps the array it started with while
  `removeResolverLocked` shifts that array in place; `arrs` keeps the arrays and
  loops carry the array, index and length they use.
- `executeResolver` goroutines are in `runs`: pending, waiting for the goroutine
  before them, inside `Resolve`, returned, exited; canceled or not.

`got`, `lost`, `disposed` and `told` record what callbacks were called with; they
influence nothing and the properties speak about them.

### DirectiveController

An action is what one goroutine does between two unlocks. An instance is reduced
to its directive, its released flag and the handlers with a resolver attached.
`AddDirective`'s loop over `c.dir` keeps the array and length it ranged over
while `removeLocked` shifts the array and unlocks. An index past the end sets
`panicked`, after which nothing happens.

### Bus helpers

A helper consists of the handler that the instance calls and of the goroutine
that called the helper. Each critical section of the helper's own mutex or
broadcast is one action; the wait channel taken in it is the variable `signal`.
The environment of a helper is `ValueStream` (and `IdleStream`): whatever an
instance may call. `KeepsPromise` and `IdleCbsTold` show that
`DirectiveInstance` calls nothing else, `KeepsPromise` while nobody has idle or
state callbacks (section 6 says what can happen with them).

### Config set controller, loader, resolver, exec

One step is what a goroutine does between two waits. `ConfigSetController` has a
goroutine for each running controller (`RunTop` to `RunLeave`, the loop of
`runningController.Execute`), the loop of `Controller.Execute` (`ExecWake`,
`ExecLock`, `ExecCollect`, `ExecStart`), and for each directive the goroutine of
`Resolve` and that of `waitCleanupRefs`. A mutex that is held while something else
is waited for is a variable: `mtx`, a push in progress (`todo`: the references that
were not called yet), `refsMtx` (`clean`). A configuration is named by who applied
it. `panicked` is a nil pointer that was dereferenced.

`ControllerLoader` has the goroutine of `Resolve`, somebody who ends the directive,
somebody who removes the loader from the bus, and another controller on the same
bus. `busMtx` says who holds `Bus.mtx`. In `ControllerResolver`, `ControllerExec`,
`TransformResolvers` and `BusBridge` the directive they add is a `ValueStream`, so
what they rely on is what `DirectiveInstance` is shown to keep. `ControllerExec`
has both channels with one place each and the callback that waits for room. An
instance that exists already calls back for its values inside `AddDirective`, in
the caller's own goroutine (`callback.own`): `AddDirectiveReturns` waits for these
calls, and with two values the second waits for a loop that has not started.

### Resolver library

`ResourceResolvers` numbers the resources; `relCalls` counts how often the release
function of each was called. The instance stops, restarts and removes the resolver
as `handleFullLocked`, `handleNotFullLocked` and `removeResolverLocked` do, and a
call on a handler without its context does nothing. In `MirrorResolvers` a source
changes at any time (containers) or when the last call is over (lists and maps),
and the directive may refuse any value. `TransformResolvers` keeps the map as the
code does: written under one id, read under another.

### YAML

Scanner, parser and emitter are sequential, so each is a record and operators on
it, named after the C-like functions of the source. A step of the emitter handles
one event. A step of the parser is what a production does with one token, or the
scanner fetching tokens because the parser peeks and none is ready; the points a
production reaches between two tokens are additional values of `p.state`, and the
step that emits an event also hands it to the reader in `yaml.go`. The input is a sequence of characters in which a word is one character. A
stack that is popped when empty, or an index past the end, gives the error
"panic". JSON text is modelled by what `encoding/json` writes and reads.

### What the models leave out or allow too much of

- The calls of one emission are made in any order; the code uses list order.
- A reference or a callback may be released as soon as it is listed.
- The resolvers of one handler list are attached in any order.
- In `DirectiveController` every place that may unlock always does.
- In `DirectiveInstance` handlers are asked about one instance: the copy of the
  instance list and its order are in `DirectiveController`.
- A reference without a handler (nil), the cancellation of the controller's root
  context, a nil
  `valDisposeCallback`, a caller's own `selectValue` function and the options of
  `keyed.Keyed` are not modelled. Errors are present or absent; which error it is
  is told apart only where a property needs it.
- In `BusOneOff` an idle call that comes after the end of the instance may still
  carry resolver errors. In `BusWatchLatest` the callback may reject a value at
  any call.
- `AddDirective` may fail for the helpers and for controller exec, as its interface
  says; the directive controller of the repository returns no error.
- `DirectiveInstance` looks whether a reference was released and calls its handler
  in one step; the code does so without a lock (`instance.go:171-174`), so the call
  may come after the release. `ValueStream` allows such a call: what uses it is
  checked and proved with it.
- Values are numbered as `i.valCtr` numbers them; their contents do not matter.
- In `ConfigSetController` the directive that loads a controller hands out any
  values; the wait for the context of a resolver and that for its removal are one.
- `ControllerLoader` has one controller that is constructed; backoff times are
  nondeterministic. A factory that fails to construct is retried like an error.
- In `ControllerExec` one value of a controller is there at a time, as
  `ApplyConfigSet` and `LoadControllerWithConfig` replace theirs.
- `KeyedGetterResolver` is modelled with getters that return no release function
  without a value. A `RefCount` container is external: it hands out a value, takes
  it back and tells its user by the end of the context.
- The parts of `MCControllers` are not composed with each other: each meets an
  abstract neighbour that may do more than the real one.
- YAML: comments are skipped but not kept, input is UTF-8, the emitter is used as
  `JSONToYAML` uses it (no anchors, tags or line width; flow style only for empty
  collections).

## 4. Runs

Deadlock is not checked in any run: all these systems may really stop (everything is
released, the helper has returned).

| Run | Instance | States | Shows |
| --- | --- | --- | --- |
| `refs` | 2 strong and 1 weak reference, 1 dispose callback, no resolvers; `FairSpec` | 6 thousand | no leak, no early disposal, unreferenced instances end, owners are told |
| `view` | 1 strong and 1 weak reference, 1 resolver, 2 values, immediate disposal | 2.9 million | what references are told agrees with the values; `ValueStream` is implemented |
| `cap` | 2 resolvers, one of a handler that is added late, `MaxValueCount` 1 with hard cap, 2 values, handlers used after `Resolve` returned | 1.2 million | the cap holds, `full` is right, who is stopped and restarted |
| `idle` | 1 resolver, 1 idle and 1 state callback, 1 value, cap 1 | 6.7 million | idle state agrees and is told, alternating; the cached snapshot is never stale, the skip flag is reset |
| `handlers` | resolver with sub-resolver, value and resolver removed callbacks, handler removable | 1.4 million | nothing of a removed handler stays; removed callbacks are called |
| `controller` | 2 callers, 2 versions of a directive from one of them and another directive from both, 1 handler, 3 instances | 3.2 million | lists, de-duplication, handlers asked once |
| `clients` | each helper with 3 values | 0.8 million | the properties of the bus helpers |
| `yaml` | every text of up to 6 characters over the alphabet of block structure and, behind the prefixes that lead there, of up to 4 or 5 over the alphabet of every other part of the grammar; every string of up to 3 characters (2 with the rarer ones) as document, entry, key and member; values nested twice | 1.8 million | stacks and slices are never left, events nest, the round trip |
| `controllers` | see below | 3.3 million | config sets, loading, exec, resolvers and the bridge |
| `handler_skip` | violation: 2 handlers released at the same time, one with a sub-resolver, a resolver removed callback | | a stale index in `removeHandlerLocked` |
| `superceed_panic` | violation: 2 callers, 3 versions of a directive from both | | stale index while superceding |
| `configset_deadlock` | violation | | a push of state and a release wait for each other |

`controllers` starts in one of nine parts: the config set controller with one key
and two directives (an older and a newer revision; an invalid configuration and a
newer valid one; one whose controller may fail and a lookup) and two running
controllers; three config sets merged, with two keys, revisions and configs; the
loader with two retries; the controller resolver with two versions of a factory
and three values; each resolver of the library with three resources, or two keys
with two values, or three values and four ids; exec with two controllers and three
values; the bridge with three instances of a directive. Its properties are
conjunctions of what each part promises; each conjunct is the named definition at
the end of that part's module, with the exceptions it makes.

Bounds. `NVals` bounds the values added over the life of an instance: two are
enough for one to be added while another is removed, and to go over a cap of one
and back. `MaxQueue` bounds the callbacks queued when `MarkIdle` is called, which
a resolver may call without end; no other operation needs a bound, since each
reference, callback, handler and resolver is used once. `MaxInstances` bounds the
calls of `AddDirective` that make an instance: with three a superceded instance,
its successor and one made by another goroutine are there together. The
constant `Adds` says which goroutine adds what. In `controller` one goroutine
supplies the versions of a directive that superceed each other, as the resolver of
`LoadControllerWithConfig` does for one controller (`res-load-with-config.go:74`,
whose directives are de-duplicated in turn); everybody adds the directive that
superceeds nothing. The loops of the first goroutine go on in a list that the
others shift and append to. That there is one such goroutine is how the
repository uses `ExecController`, the only directive that superceeds
(`dir-exec-controller.go:103`), and nothing enforces it: `superceed_panic` has two.
`IdModulus`
stands for 2^32 in the comparison of value ids. In `clients` three values are
enough for one to be handed out, one to replace it and one to arrive between the
checks of the helper. In `controllers` two directives are enough for every pair of
operations on one running controller to meet, a second running controller appears
when the first was collected, and three resources are the one that was released
early, the one that is shown and the next. `MaxDepth` stands for `max_flow_level`
and `max_indents`; texts are shorter, so that no run reaches it.

Several properties of the instance are checked without the callbacks that would
unlock the mutex inside a loop, because with them they do not hold: the hazards
of `instance.go:398`, `resolver.go:76`, `resolver.go:75` and `controller.go:112`
say which and what TLC finds. The theorems of section 6 state the same
conditions as hypotheses.

Fairness. `FairSpec` of `DirectiveInstance` has strong fairness for goroutines that
wait for the mutex, since a Go mutex hands over to a waiter that starves, and
weak fairness for the steps of the goroutine that holds it, for callbacks, which
"should not block", and for timers. No fairness is assumed for callers: nobody
has to release a reference, add one or close the instance. All other runs check
safety and assume no fairness; that a waiting goroutine is not forgotten is stated
as an invariant (`CallersAwake`, `NoWakeupLost`: who waits for something that is
there was woken).

## 5. Findings

1. `superceed_panic`: while two callers superceed versions of a directive, two
   equivalent instances can be listed. The next call superceeds both in one
   range loop; after the first removal the index of the second is past the end
   of the list. An unrelated instance that is removed while the loop is unlocked
   makes its indexes stale as well.
2. `configset_deadlock`: `waitCleanupRefs` holds `refsMtx` while it releases
   references, which takes the mutex of the running controller; that one pushes
   its state with its mutex held, to callbacks that take `refsMtx`.
3. `handler_skip`: `removeHandlerLocked` goes through `i.res` by index, and
   `removeResolverLocked` unlocks the mutex to call removed callbacks. If another
   handler is released in that window the list is shorter than the index assumes,
   and a resolver is skipped: it stays attached and runs after its handler is gone.

Where the code does something a reader would not expect and no run of its own
shows it, the hazard says so in its note, and the property that comes nearest
names the case it leaves out. The main ones: a state change in the middle of the
state callbacks is not reported; the idle callback of `ExecOneOff` erases
`ErrDirectiveDisposed`; an invalid configuration is never replaced; the initial
state callback may put an older state back; removing the loader from the bus waits
for itself; `TransformResolver` looks values up by the wrong id; a value that
`KeyedGetterResolver` is told to release before it stored the id stays; statuses of
controller exec may arrive in the wrong order; a request of controller exec that joins
an `ApplyConfigSet` with two values waits in `AddDirective` for its own loop until its
context ends (`exec-request.go:126`); an empty YAML list is read as null.

## 6. Proofs

`DirectiveInstanceProofs` proves, for all sets of references, resolvers, handlers
and callbacks and all options, under the assumptions named in
`DirectiveInstance` (`RefAssumption`, `ResolverAssumption`, `CallbackAssumption`,
`OptionAssumption`):

- `TypeCorrect`: `Spec => []TypeOK`. `TypeOK` alone is not inductive: loops carry
  an array, an index and a length, and queued frames refer to goroutines by
  number. `TypeInv` adds that every frame on `run` and `cont` refers to arrays,
  positions and goroutines that exist (`FramesOK`), that queued calls are well
  formed (`QueueOK`) and that a resolver's context is one of its goroutines
  (`ResOK`).
- `NoLeak`: `Spec => []UnreferencedHasTimer`, and `StrongRefs`:
  `Spec => StrongRefKeepsAlive`, an action property. Both rest on `RefInv`: `i.refs` keeps weak
  references before strong ones (`WeakFirst`), which is why looking at the last
  element is enough; a strong reference that is held is in the list; and
  `destroyTimer` is set only without strong references. The case that needs care is a
  timer that fired and waits for the mutex while a reference is added.

`InstanceStackProofs`, `InstanceResolverProofs` and `InstanceCallbackProofs` go on
from there, for the same constants. The state a step may rely on is spread over
the stacks `run` and `cont`, because an operation that is half done left frames
there. `Frames` is the set of all of them, and `StackInv` says which may be below
which (`Under`): an operation that unlocks finds the frames of others only in an
order in which the code can call one from the other. The invariants below then say
"either this relation between fields holds, or a frame that restores it is in
`Frames`", and each is preserved by a lemma per action.

Without any condition on callbacks, handlers and resolvers:

- `SkipAlwaysReset` (`SkipInv`: while `stateChangedSkip` is set the frame that resets
  it is on a stack), `HardCapAlways`, `FullAlwaysAgrees` (`FullInv`: `full` agrees
  with the count or `checkFull` is still to run), `SnapshotAlwaysFresh` (`SnapInv`),
  all from `CoreInv`, which is types, `StackInv` and `FreshInv`: `i.res` has no
  duplicates, and a resolver that a frame will attach is not attached otherwise.
- `DisposalAlwaysTold` (`DispInv`: who is still to be told of the end is in a frame,
  in the queue or in the batch), and `IdleCbsAlwaysTold` (`TellInv`: what a callback
  was told, followed by what is in the batch and in the queue for it, alternates and
  ends with `i.idle`). These two show that the drainer loses nothing and keeps the
  order.
- `IdleAlwaysAgrees` for an instance without a value cap: nothing restarts a
  resolver there. `AgreeInv` says that `i.idle` is what the resolvers' flags give
  (`IdleKnown`) or a frame still owes the update.

Under `Calm`, nobody registers idle or state callbacks: `OneRunAlways`,
`DetachedAlwaysStopped`, `StoppedAlwaysRestarted` (`RunInv`), `ViewAlwaysAgrees`
(`ViewInv`) and `PromiseKept` (`PromiseInv`), and `IdleAlwaysAgrees` for an instance
with a cap. Those callbacks are what unlocks the mutex inside `setIdleLocked`, hence
inside `updateContextLocked` and the loops of `handleFullLocked` and
`handleNotFullLocked`; `CalmInv` says which frames can then be suspended in `cont`.
The condition is not one of convenience. With an idle callback a resolver that was
removed in that window is started again, a second goroutine becomes live, and the
loop of `handleFullLocked` stops resolvers of an instance that is no longer full
(hazards of `instance.go:398` and `resolver.go:76`); and a reference that is added
between the removal of a resolver and that of its values is told of the removal of a
value it never heard of, so that `KeepsPromise` is false as well (`instance.go:911`).
With a cap `IdleAlwaysAgrees` also
needs `~UseAfterReturn`, no resolver uses its handler after `Resolve` returned: TLC
finds a counterexample when one does (hazard of `resolver.go:75`).

Under `Calm` and `NoneLate`, no handler is added after the directive:
`ReleasedAlwaysEmpty` (`EndInv`: once `released` is set either `removeLocked` still has
its loop to run or `i.res` is empty, and nothing is about to be attached) and
`RemovedCbsAlwaysCalled` (`GoneInv`).
`addHandlerLocked` does not look at `released` again after `HandleDirective`, so a
late handler can attach to an instance that has ended (hazard of `controller.go:112`).

Under these two and `OneHandler`, at most one handler is released or has resolvers
that are removed one at a time: `SubsAlwaysGone` (`HandlerInv`: what
`removeHandlerLocked` has passed is not the handler's, `LoopPassed`, and while a resolver
of a removed handler is attached the loop is still under way, `GoneOrGoing`). It is
about resolvers that came from `AddResolver`: `AddDirective` attaches those that
`HandleDirective` returned without a look at whether the handler was removed
meanwhile, so nothing of the kind holds for them.
`handler_skip` is what happens without `OneHandler`.

`PromiseKept` is the refinement: `Calm /\ Spec => KeepsPromise`, where `KeepsPromise` is
the specification `ValueStream` with the mapping of `InstancePromise`, for a
reference that is chosen arbitrarily (`ObservedAssumption`: it is one of the
references). `PromiseInv` relates, for each reference and value, the calls
still in the queue and the batch to those that were made: an "added" is before its
"removed", neither is there twice, and nothing follows the end. Each step of the
instance is then a step of the stream or leaves it as it is. The bus helpers are
proved against `ValueStream`. For a helper that adds an idle callback of its own the
link has the gap named above: it may be told of a removal it cannot place.

`DirectiveControllerProofs` proves, for any number of callers, handlers and
instances, any equivalence of directives and any relation of superceeding
(`RelationAssumption`, `EquivalenceAssumption`: symmetric and transitive where it
holds, as every `IsEquivalent` of the repository compares for equality;
`BoundAssumption`):

- `TypeCorrect`: `Spec => []TypeOK`, and `AskedOnceAlways`: `Spec => []AskedOnce`,
  both from `AskedInv`. Types need that a range loop stays in the part of its array
  that was filled when it started (`Filled`, `LoopsOK`): removal shifts and append
  writes in place, so the elements change under the loop but remain instances.
  `AskedOnce` needs who still has to ask: each pair of a handler and a listed
  instance was asked about, or is in the copy of exactly one of the caller
  (`CallerAsks`) and the handler's `AddHandler` (`HandlerAsks`); copies have no
  duplicates because `c.dir` is sorted and `c.hnd` has none (`CopiesOK`,
  `HandlersOK`).
- `NoDuplicatesAlways`: `Spec => []NoDuplicates`, whoever adds what. The property
  excepts directives that are `Contested`: two goroutines may supply versions, one
  of which superceeds another. Then each may remove the older instance and list its
  own, which is how `superceed_panic` starts. `DupInv` adds `LoopsAlone`: a loop that
  superceeds, unless it is contested, has removed the only match: all else in the
  part of the array over which it goes on is released or not equivalent, and stays so
  because no other goroutine adds an equivalent.
- `ListedIsLiveAlways`: `Spec => []ListedIsLive` if no directive is contested. The
  indexes of a loop are stale as soon as an instance is removed while it is unlocked;
  by `LoopsAlone` nothing they point at matches, so that the loop removes nothing
  with them (`LiveInv`). `NothingSuperceeds` is the
  case of a bus where no directive superceeds another: both hold, whoever adds what.

`BusClientsProofs` proves the six invariants of the run `clients` for every set of
values and every filter (`StreamAssumption`, `NoValueAssumption`,
`NoSnapshotAssumption`): `CallersAwakeAlways`, `InvalidIsToldAlways`,
`RefWithValueAlways`, `WatchIsCurrentAlways`, `LatestIsValidAlways` and
`EffectsAgreeAlways`. Each helper has an invariant of its own and `ClientsInv` says
that the helper that runs keeps its one. `OneOffInv` and `CollectInv`: the reference
is held until the goroutine decides to return. `RefWithValue` is then that `ExecOneOff`
returns the reference exactly with a value (`ReturnWhenIdle` may return neither a
value nor an error) and `ExecCollectValues` exactly without an error. `CollectWatchInv`: while the flag
is clear the snapshot being handed out, or the last, is the current one.
`WatchLatestInv` and `SelectInv`: the callback that runs, or the last one, has the
first value that is there and was not rejected. `WatchEffectInv`: the release
function of a value is with its goroutine, in the table, or with the callback that
undoes it, and with one of them only (`EffectOwner`); the effect is that of the
first listed value (`EffectList`). `SortKeeps` says what the sort of `bus/watch.go`
does to every list: its comparator, an unsigned difference, is never negative, so
nothing moves. The sort is a recursive function; the two inductions over
the length use the least counterexample (`SmallestElement`, `SetInduction`).

`ControllersProofs` proves the seven invariants of the run `controllers`, for all
keys, resolvers, values and bounds (`ConfigSetAssumption`, `NameAssumption`,
`BoundAssumption`, `RevsAssumption`, `StreamAssumption`). `PartsInv` is the
conjunction of one invariant per part; a part takes steps on its own, so that each
is shown by its own `...Init`, `...Step` and `...Gives` lemmas.

- `NothingLeaksAlways`, `ShownIsThereAlways`, `NoWakeupLostAlways`: `LoaderInv` (the
  controller is attached from `Execute` until the step that closes it), `ResourceInv`
  (the resource in the hands of `Resolve`, shown, or told to be released early: a
  release before the id was stored is excepted, the resolver misses it),
  `MirrorInv`, `TransformInv` (map entries come from different values, which are
  those that are owed), `ResolverInv` and `BridgeInv`.
- `StatusIsCurrentAlways`: `ExecInv`, with what is in the two channels and in the
  callback that waits for room related to what was reported (`ExecPipe`, `InStep`),
  also for values that crossed, of which the status reported is at least not older
  than that of the last value.
- `NewestWinsAlways`: `MergeInv` for config sets, `LatestOK` for running
  controllers: the configuration loaded is the newest or a restart is pending.
- `LivesByReferenceAlways`: `KeyedOK` and `FreshOK` (a key has the controller made
  for it, and controllers are made in order), `StoredOK`, `PersistentOK` and
  `AppliedOK` (where a reference is between its making and its release). It covers
  the references that `waitCleanupRefs` released for `ApplyConfigSet`; one of
  `LookupConfigSet` may be added again after its release, and one that the resolver
  stores after `waitCleanupRefs` ran (`apply-config-set.go:84`) is never released.
- `ValueIsStateAlways`: `PushOK`, `ApplyOK`, `HeldOK`, `ToldOK`: a reference of a
  running controller points back at it, and its value is the state unless a push
  to it is pending. The attempt to prove it without a condition failed for a
  reason: after `Execute` has returned, controllers are neither collected nor
  dropped, a persistent reference can be in two of them, and the older pushes its
  state to it. `ValueIsState` therefore speaks of the time while `Execute` runs.

`ConfigSetProofs` holds the part of this that is about `ConfigSetController`.

Only model-checked: liveness and fairness (`UnreferencedDisposed`,
`ReleasedIsTold`), which is out of the prover's reach, and the YAML modules
(`NeverPanics`, `EventsNest`, `RoundTrip`), which are recursive. The run `idle` checks
`IdleAgrees` with both kinds of callback and a cap, and `view` the refinement for a
weak reference.

## 7. Not modelled

The plugin compiler and loaders run the Go toolchain and load shared libraries;
the command line and the examples parse arguments; the bus API is an RPC front end
around `ExecControllerRequest.Execute` and generated code. None has protocol state
of its own. Generated protobuf code, the conversion of configs to protobuf and
JSON, and the comparison of config objects are conversions without state.
`FuncResolver`, `GetterResolver` and `ValueResolver` add one value and return.
`TransformHandler` is `PassThruHandler` with a function in front.

## 8. What is left

Every safety property of the runs is a theorem, except those of the YAML modules.
What would come next, in this order:

1. `IdleAgrees` with idle callbacks and a cap, which TLC finds to hold for one
   resolver: the invariant has to say what each of the suspended starts and stops
   of a resolver still does to `i.idle`.
2. The instance with two handlers that are released, in a version of
   `removeHandlerLocked` that starts its search again after each removal.
3. The parts of `MCControllers` composed with the instance instead of `ValueStream`.
