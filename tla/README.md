# KossJS in TLA+

KossJS embeds the Boa JavaScript engine behind a C ABI and adds to it what a
host or a script expects of a runtime: asynchronous I/O, timers, CommonJS and ES
modules, a sandbox, native functions (FFI and N-API), and the modules of Node,
Bun and Deno. The engine is a dependency; this directory models what KossJS
itself decides. Paths below are those of the repository (`src/src/runtime.rs` is
the main source file); every definition that models code has its lines in the
`map` of `PROJECT.json`, which also has the status of each component and a note
on what is left out of it.

## 1. The system

### Who runs what

```
 host threads ──C ABI──▶ guard (API_INSTANCES) ──▶ KossInstance, one thread at a time
                                                     │
     ┌──────────────┬───────────────┬────────────────┼───────────────────┐
  Boa context    sandbox         event loop       descriptor tables    module loader
  script, jobs   caps, audits    tasks, results   files, TCP, UDP      resolver, caches
     │              ▲                 ▲              ▲                  ▲
     │  every native function ────────┼──────────────┤                  │
     ├── shims: koss:net, fs, dgram ──┼──────────────┘                  │
     ├── timers, koss:* libraries, web APIs, require ───────────────────┘
     └── FFI, N-API ─── threads of asynchronous calls (the only other threads)
```

An instance belongs to the thread that created it. Its script runs only inside a
call of the host (`koss_eval`, `koss_run_async`, `koss_tick`,
`koss_run_module`), so nothing happens between two calls except in threads of
asynchronous native code. Inside a call the script, its microtasks, audit
functions, event listeners and native callbacks nest in each other: most of what
is hard in this code is not two threads but two activations of the same thread,
one in the middle of the other.

The shims are JavaScript. They are read in `src/src/js_shims`, or in their
compiled-in copy `src/src/embedded_stdlib.rs`.

### Components

| Component | State | Operations | What is hard | Modules |
|---|---|---|---|---|
| API guard and instance lifecycle | process-wide registry: address → owner thread, busy flag; the boxed instances | create, every `koss_*` call, destroy | stale pointers, addresses used again, calls from inside host callbacks, several threads | `ApiGuard`, `ExclusiveAccess` |
| Sandbox | capabilities, audit mask, host callback, the script's audit function, `audit_in_progress` | `authorize_operation`, `is_capability_enabled`, the setters | a decision runs the script three times (arguments, audit function, operation); policy replaced meanwhile; exceptions | `Sandbox` |
| Host functions: globals, functions, classes | the global object and what the script has done to it; class objects | `koss_set_global_*`, `koss_register_function`, `koss_register_class` | a registration is several writes, any of which the script may have made impossible | `HostGlobals` |
| Host functions: running code | `current_module_dir`, the jobs and promises that code leaves | `koss_eval`, `koss_run_*`, `koss_tick` | answers given while the code goes on; one directory for all | `HostCalls` |
| Built-in modules and flags | the caches of `require`, the files in progress | lookups and loads by `import` and `require` | files that require files, each under the same flags; a throw in the middle | `Builtins` |
| Event loop | promises with resolvers, io channel, `async_tasks`, tokio runtime | `koss_run_async`, `koss_tick`, `__koss_fetch`, destruction | results that come between two polls; deadlines; destruction with work in flight | `EventLoop` |
| Asynchronous FFI | per library: active calls, `closed`; one thread per call | `funcAsync`, its calls, `closeAsync` | a library closed under its calls; failed spawns | `EventLoop` |
| Synchronous FFI | libraries, callbacks with their data, blocks, structure instances | `func`, calls, callbacks, `freeCallback`, blocks, structure fields | a callback inside itself or freed while it runs; layouts; five conversions of the same types | `FfiTypes`, `FfiStructs`, `FfiCalls`, `FfiObjects` |
| N-API | slots behind handles, references, wrapped objects, scopes, works | create, delete, wrap, queue, complete | lifetimes; a work deleted while its thread runs | `Napi`, `NapiEnv` |
| Global timers | table of timers; one microtask per armed timer | `setTimeout`, `setInterval`, `setImmediate`, `clear*` | timers that arm and clear timers; polling keeps the microtask queue full | `PollingTimers` |
| koss:net, TCP descriptors | two tables with limits; `Socket` and `Server` objects, their intervals; bytes under way | connect, listen, accept, read, write, end, destroy, timeouts | listeners run in the middle of an operation; the object's idea of its descriptor against the table's | `NetSockets`, `ByteStreams` |
| File descriptors, fs | table with a limit; streams; calls answered later | open, read, write, close, remove, streams | failure after the side effect; descriptors used after close | `Files` |
| UDP | table with a limit; `Socket` objects, polling intervals | bind, send, receive, close | binding again; closing in the middle | `Udp` |
| ES module loader and resolver | three bounded caches, map of loaded modules | import, resolution, verification against the root | files change under the caches; caches overflow in a search; links; cycles | `ModuleLoader` |
| CommonJS `require` | `Module._cache`, `require.cache`, the saved globals of each call in progress | require, `module.exports =`, delete from the cache | cycles, exceptions at any depth, the cache replaced while modules load | `CommonJs` |
| koss:stream | buffers, flags, pipes | push, read, pipe, pause, resume, end, destroy, iterate | reentrancy from listeners | `Streams` |
| koss:events | listener lists, iterators | on, once, off, emit, `once()`, `on()` | lists changed while they are walked; nested emissions | `Events` |
| koss:timers | `activeTimers`, objects | refresh, clear, promise forms | a timer refreshed or cleared from its own function | `ShimTimers` |
| koss:buffer, koss:string_decoder | a buffer and its length; the bytes a decoder keeps | encode, decode, read, write, slice, search | characters cut by chunks; overflow; two lengths | `Codecs`, `StringDecoder`, `Buffers` |
| koss:path | none | normalize, join, resolve, relative, parse, ... | `..`, empty segments, drives | `Paths` |
| Web APIs: streams, signals, channels | queues of chunks and reads; listeners; ports and channels | pull, read, pipe, cancel; dispatch, abort; post, close | reentrancy; signals of signals; live lists | `WebStreams`, `WebSignals`, `WebChannels` |
| HTTP; web data interfaces; pure libraries; bindings; Bun, Deno and other Node shims; host interfaces | little or none | – | formatting, parsing, single system calls | not modelled (section 6) |

### What makes each component correct

* **Guard.** No two activations hold one instance; none is in a freed instance or
  on a foreign thread; a call is refused only when it must be; no flag or entry
  is left wrong by a destruction.
* **Sandbox.** The script can only restrict; the re-entry flag is up exactly
  while the audit function runs.
* **Host functions.** A registration leaves no temporary behind and changes
  nothing else; a class's instances keep their callback. An answer says what it
  should of the code that is left, and code is audited under its directory. No
  built-in module is half loaded, and none of a layer that is off.
* **Event loop and FFI threads.** A pending promise has exactly one source; a
  result is delivered once; `closeAsync` waits for the calls before it; "idle" is
  true; `koss_run_async` returns.
* **FFI and N-API values.** What is written to a field is read back, in that
  field only; an argument that fits arrives; a callback keeps its function while
  anyone may call it; a handle means what it meant when it was given.
* **Timers.** An armed timer has one ticker and fires when due; timers that end let
  `koss_run_async` return.
* **Descriptors.** What is in use stays open, what is open can be closed, what is
  closed is quiet; bytes and chunks arrive in order.
* **Modules.** Answers exist, nothing that appeared is missed, one instance per
  file, none from outside the root; a failed module is never found in the cache,
  none is evaluated twice, and each code sees its own globals.
* **Streams, events, channels.** Each chunk, event or message is delivered once
  and in order; nobody waits while there is something for him; what was cleared
  or closed is silent.
* **Data.** Text does not depend on how its bytes were cut; what was encoded is
  decoded; two ways of asking agree.

## 2. Modules and the code they model

Some operators (`ThrowKeepsEntry`, `TakeServerFree`, ...) stand just before a
definition and give it a plausible error of the code. Nothing uses them in the
models: they are kept to show that a property notices that error.

### Composition

Where components interact, they are in one model: the guard with the host's
frames, the event loop with FFI threads and libraries, the sockets with tables,
intervals and listeners, the loader with resolver and files, the streams of a
pipe, the stack of native calls and callbacks. `ApiGuard` is shown to implement
`ExclusiveAccess`.

Components that share no state are checked side by side in one run. Such a
module (`MCHost`, `MCNatives`, `MCDescriptors`, `MCLibraries` with
`ScriptLibraries`) instantiates them,
and one variable, chosen at the start and never changed, names the one that
moves; the others stay in one fixed initial state. Its states are thus the union
of the components' states, not their product, and its invariants are conjunctions
of the components' properties; where a property says nothing of a part at rest,
it is guarded by that variable.

### Boundary to the host

`ExclusiveAccess` is the promise of the C ABI: an instance is used by its
creator, by one call at a time, and a call is refused exactly when admitting it
would break that. `ApiGuard` is `API_INSTANCES` (44), `register_api_instance`
(61), `enter_api` (79), the drop of `ApiGuard`, `create_instance_internal` (3377)
and `koss_destroy` (3614). Each operation under the registry's lock is one step.
Creating is `Allocate`, `Register`; destroying is `Destroy` (enter),
`Unregister`, `FreeBox`, `DestroyReturn`. A thread has a stack of frames; it may
call again whenever its innermost frame runs host code, with any address,
allocated or not. `generation` tells an instance from the next one at its
address; it is what "use after free" is stated with. The refinement reads
`owner` and `inside` off the heap and the stacks, not off the registry, so it
says that the registry tells the truth.

`Sandbox` is `authorize_operation`, `call_js_audit`, `is_capability_enabled` and
the setters. A decision is pushed on `deciding` when it must be audited; stage
`args` is the conversion of the arguments, which runs `toString` functions of the
script, stage `js` is its audit function. In both the script may start another
operation or replace the audit function. The host changes mask and callback only
between its calls, because `ApiGuard` refuses it inside.

`HostGlobals` keeps, for the names the host writes and those a registration
passes through, what is there and whether the script has fixed it; a dotted
registration is the whole script of `koss_register_function` (5099) with every
way it can be refused.

`HostCalls` has the current directory and the pieces of code that earlier calls
left: jobs, and pieces that wait for a thread. A call is a sequence of phases that
follow the code: `koss_eval`, `koss_run_string` and `koss_run_file` run their code
and answer; a module is run by the jobs; `koss_run_async` and `koss_tick` go
through `Io` (`process_io_results`), the jobs, `Look` and the jobs once more.
`Return` writes the value as a string, which may run a `toString` of the code, and
what that leaves is in `answer.written`.

`Builtins` is the table of names with the two lookups, over all sets of flags, and
the loading of a file: `loading` is the stack of files that run, each inside the
`require` of the one before it, `Needs` what a file requires at its top, and
`Spared` what it requires in a `try`.

### Event loop, FFI, N-API

`EventLoop`: one variable holds where the host's thread is (`call`, `phase`); the
phases follow `koss_run_async` (3957) and `koss_tick`: the script, then rounds of
`process_io_results` (drive the runtime, settle the results queued) and
microtasks. FFI threads take their own steps (`ThreadReturns`, `ThreadReports`)
and touch only the channel of results and the counter. A fetch and `closeAsync`
are tokio tasks, which advance only in phase `drive`, because the runtime is
single-threaded. The second channel of the code, for callbacks of FFI threads,
stays empty for ever: no parameter that a script can declare is a callback
(`Types` of `FfiCalls`), so it is not in the model.

`FfiTypes` has an operator for each of the code's five conversions of primitive
values; a byte has `ByteValues` values. `FfiStructs` is `compute_struct_layout`
and the instances with their buffer, accessors and pointer; `FfiCalls` the way of
the arguments through `func` and `funcAsync`; `FfiObjects` one stack of native
calls and callbacks, with the libraries, callbacks and blocks a script holds. Its
blocks are those of `alloc` and memory of the engine (an array buffer, a
structure) that `addressOf` and `toPointer` make pointers to and that the engine
may collect.

`Napi` has handles and the slots behind them, calls that nest, references and
wrapped objects; `NapiEnv` scopes, instance data, exceptions and works with their
threads. The N-API functions are neither exported nor is their completion queue
drained by anyone in this repository: they are called here as their own comments
mean them to be.

### Timers and descriptors

`PollingTimers`: there is no timer queue, a timer is a microtask that looks at the
clock and queues itself again (`register_nodejs_globals`). `queue` is the
microtask queue, `left` the time until a timer is due, so that time may pass for
ever. A number that nothing holds any more is given out again, so that timers may
be armed for ever too: not only an interval, but also a timeout or an immediate
whose function arms another keeps the queue full. `ReturnsWhenTimersEnd` therefore
has two conditions, that in the end no interval is armed and that no timer
function arms a timer. `PollGone`, `PollEarly` and `PollFires` are the three
outcomes of a poll; a timer function (`firing`) may arm and clear any timer.

`NetSockets`: `Connect` ends where `connect` emits its event, with the call
pushed on `emitting`; `ConnectListenersReturn` is the rest of it; in between
anything may happen. The same holds for `listen` and `destroy`; `ListenerThrows`
unwinds. The tables have the limits of the code and `NativeClose` removes its
number from both, as `__koss_tcp_close` does. `ByteStreams` follows the bytes of
one socket: the queues of the system with their room, partial writes, the read
interval, `end`.

`Files` keeps of a file the number of its chunks; `fs` is the tree of the system,
`own` the descriptors the script has got, `readers` and `writers` the streams,
`later` the calls answered through a callback. `Udp` has the table, the sockets
of the system with what waits in each, and the `Socket` objects with their
interval.

### Modules

`ModuleLoader`: paths are sequences of components, components sequences of parts,
so that links, `..`, replaced and added extensions are what the code makes of
them. A search threads the caches through its candidates and is a set of
outcomes; `Import` is resolution (relative, absolute, bare or `node:`),
verification and the entry in `module_map`. `FileAppears` and `FileGoes` are
other programs.

`CommonJs` is the module system code of `create_instance_internal` (3278–3363). A
`require` of a path that is not cached pushes a frame with the globals it saves;
`EndRequire` and `Throw` pop it. `AssignMainExports` is the setter on the main
script's module, which replaces `Module._cache`; `published` is `require.cache`,
which stays the first object.

### Libraries of a script

`Streams` is a Readable, a Transform and a Writable joined by `pipeline`, with
the iterator; a call is a list of things to do on `agenda`, the innermost call
first. `Events` has emissions in progress as frames over a copy of the list;
`ShimTimers` the `Timeout` objects and which armed number each stands for.
`Codecs` has the encodings as operators, which `StringDecoder` uses for one
decoder fed in chunks and for reference; `Buffers` and `Paths` apply the
operations to what the script has put together so far. `WebStreams` is a source
piped through a transform, `WebSignals` a dispatch over copies of listeners with
signals made of signals and a fetch, `WebChannels` ports and broadcast channels
with deliveries by timer: a broadcast is at a place of the live list and either in
the listeners or in the `onmessage` of a channel, which is looked up again between
the two, and scripts open and close channels, or throw, in both.

## 3. What the runs check

| Run | Module | Distinct states | Shows |
|---|---|---|---|
| `api_guard` | `MCApiGuard` | 17 762 | safety of the guard, and that it implements `ExclusiveAccess` |
| `sandbox` | `MCHost` | 687 018 | sandbox; globals and classes; running code; built-ins; web streams, signals, channels |
| `sandbox_promise` | `MCSandbox` | – | finding 1 |
| `event_loop` | `MCNatives` | 882 984 | promises, threads, `closeAsync`, "idle"; structures; arguments; callbacks and blocks; N-API |
| `event_loop_live` | `EventLoop` | 5 081 | what was spawned is settled; `run_async` returns |
| `ffi_free_running` | `FfiObjects` | – | finding 2 |
| `polling_timers` | `PollingTimers` | 131 715 | one ticker, due timers fire, `run_async` returns if timers end |
| `polling_timers_deadline` | `PollingTimers` | – | finding 3 |
| `net_sockets` | `MCDescriptors` | 684 424 (up to symmetry) | sockets and servers; files; datagrams; bytes |
| `module_loader` | `MCModuleLoader` | 72 920 | answers, misses, instances |
| `module_loader_relative` | `MCModuleLoader` | – | finding 4 |
| `commonjs` | `MCLibraries` | 874 223 | CommonJS; streams; events; timers; buffers, decoders and paths |

The longest takes about two and a half minutes on two workers.

### What the composed properties say

* `GlobalsAreTheHosts` (`sandbox`): a temporary of a registration stays behind only
  if the script broke what removes it or hardened its globals, or if the path leads
  into `KossJS`; the other globals and `KossJS` stay what they were;
  an instance keeps the callback its class had.
* `CallsAnswerForTheirCode`: a module and a tick leave no job in the queue; an idle
  tick and a `koss_run_async` that answers 0 leave nothing at all, but for what the
  writing of the value leaves after that; a module that answers 0 has finished.
  (0 from `koss_eval`, `koss_run_string` and `koss_run_file` says nothing of what is
  left, and `koss_run_async` answers 0 also for a promise nobody settles.) The code
  of a call is audited under the directory of what was run. Whatever is loaded from
  the built-in modules is of a layer that is on, or of `koss:internal`, and has all
  it cannot do without; with the koss layer on no known name fails.
* `WebDelivers`: chunks leave the pipe once and in order, a read waits only when
  there is nothing for it, the output ends with the source; a fetch follows its
  signal and a composite its signals; messages are heard in order, once, and by
  the listeners and the `onmessage` of every channel that was there and is not in
  `missed`.
* `FieldsKeepTheirValues` (`event_loop`): the layout is that of C, fields do not
  overlap, and what fits in a field is read back from it, through the accessor
  and through the pointer.
* `ArgumentsArrive`: an argument that its type holds arrives at its parameter;
  `funcAsync` passes what `func` passes; a callback's result comes back.
* `HeldNativesAreThere`: the function of a callback is away exactly while it runs;
  code that runs is unloaded only by a `close()` of a callback within it, or was
  called after `close()`; a block of `alloc` goes back with its size, through
  whichever pointer it is freed.
* `AddonsKeepTheirValues`: a slot belongs to one call or reference; a work is
  completed once, by the data it was queued with.
* `DescriptorsAreHeld` (`net_sockets`): an open file has one holder, what was
  closed is never read again, a stream gives its chunks in order; the table of
  datagram sockets and the objects agree, and a bound one is polled; bytes are
  read in the order they were sent and leave as they were written, and `end`
  closes.
* `StreamsKeepTheirChunks` (`commonjs`): a chunk pushed is in a buffer, on its
  way, or delivered, and delivered once; lengths and flags agree with buffers;
  a stream closes once.
* `EventsAndTimersAnswer`: the iterator gives every value once, in order; a
  `once` listener runs once; every armed timer can be cleared, and a cleared one
  does not fire; a promise waits only for an armed timer.
* `DataSurvives`: the decoder's text is that of all bytes, however they were cut,
  and it keeps at most one character; encodings and numbers are read back;
  the searches agree with each other and with the bytes, by the two lengths a
  buffer has; slices agree, and so do the ways to a path, and a drive is kept.

### Exceptions in the properties

Where the code breaks a natural property and nothing in the repository promises
it, the property leaves out exactly those cases, and names them: `LiveIsOpen`
past `FirstServerFd` connections, streams `lost` by connecting again, objects
closed inside their own event, `OnceUntilReset` after an assignment to the main
script's exports, streams that were resumed or iterated after a push in flowing
mode, `once` listeners in nested emissions, timers that refreshed themselves
(`orphans`), base64url in chunks of other than whole triples, channels a
broadcast `missed` (passed over when one before them was closed, or cut off by an
`onmessage` that threw) and an `onmessage` that hears what its own channel sent,
memory of the engine that a script has given back to the allocator by `free()`
(`engine`), what a call leaves, which is audited under the directory of a later one
(`late`), and `koss:internal` and the bare paths of library files, which are
answered whatever the flags. The hazards in `PROJECT.json` say so at their lines.

### Why the bounds are enough

* `api_guard`: two threads and two addresses give every pattern of two instances
  nested in each other and of one address changing hands; the third instance at
  an address gives a pointer that is two generations stale.
* `sandbox`: three levels are an audit function whose operation is audited while
  the arguments of a third are converted; the five operations are the kinds the
  table of operations has. Two callbacks make a class registered again differ;
  two pieces of code are left at once, so that one waits while another goes on; all
  sixteen sets of flags are tried, with every name. Three pulled
  chunks and two reads let a read wait while another pulls; a composite of two
  signals; with three channels one closes, or throws, between two others while a
  broadcast walks, and one opens behind it; two posts are in order.
* `event_loop`: four operations are a call, a fetch and two closes, in any order.
  One round of `run_async` is enough to time out with work left. Numbers exact up
  to 64 with bytes of four values make every type overflow, and int64 lose
  precision. Two callbacks, four frames deep, call each other and themselves
  again; three slots are two arguments and a reference; two works run at once; two
  blocks are one of `alloc` and one of the engine.
* `event_loop_live`: two operations, since one may depend on the other only
  through `closeAsync`.
* `polling_timers`: one timer fires while the second is queued and the third is
  armed; a delay of 1 is early and then due. Numbers of timers are used again, so
  that functions may arm timers for ever.
* `net_sockets`: one socket is connected by the script and one accepted; three
  descriptors reach the number at which a server's descriptors begin
  (1001 in the code, 3 here), so the tables also collide. A limit of one open
  file and of two datagram sockets is reached; a queue for two units is filled by
  the second write and drained by reads of two.
* `module_loader`: nine specifiers, five files of which three change, a package, a
  link; a cache of one entry is full after each look, so it is cleared in the
  middle of every search. (`exists_cache` has four times the capacity, as in the
  code.)
* `commonjs`: a cycle of two modules and further evaluations inside it, with one
  replacement of the cache at any moment. Two chunks through three streams, so
  that one waits in each. Two emissions, one in the other. Two timer objects with
  four numbers, so that both are armed again. Texts with characters of one to
  four bytes, cut everywhere; buffers of one, three and eight bytes with `Base` 4, so
  that a number of every width fits into the longest and is out of range in the
  others; two operations, so that a buffer is cut and joined with a total of its own
  before it is searched; paths of three segments.

Bounds appear in guards or in the sets of the constants, under the names given
in the modules; none is a constraint on states. `Host`, `Natives`, `Descriptors`,
`Libraries` and `FfiFree` do not look for deadlocks: there the bounds are used up
or everything is closed, and a script that has nothing more to do simply stops,
as it may. In the other runs the deadlock check is on; where such a system may
stop, an explicit step says so.

### Fairness

Liveness is checked under `FairSpec` only.

* `WF(HostStep)`: inside a call the host's thread runs on. A script that loops
  for ever is excluded by this, as it is by any statement about a call returning.
* `SF(BeginCall("tick"))`: the host calls `koss_tick` again and again, whatever
  else it calls. The documentation asks hosts for this; nothing progresses
  otherwise.
* `WF` on a thread returning and reporting: the operating system schedules the
  threads, and native functions return.
* `SF` on a fetch or close task completing: the tasks are polled only while the
  loop is driven, so they are not continuously enabled; a fetch has a timeout and
  tokio polls what is ready.
* `WF(TimePasses)` for timers.

The script is never assumed fair: it may stop doing anything at any time.

## 4. What is proved

TLAPS checks, for every value of the constants:

* `ApiGuardProofs`: `Inductive`, and from it `TypeCorrect`, `NeverAliased`,
  `NeverUsedAfterFree`, `BusyFlagExact`, `LiveStaysRegistered`; and `Refines`,
  that `ApiGuard` implements `ExclusiveAccess`.
* `HostProofs`, of the sandbox: `Inductive`, `TypeCorrect`, `AuditFlagIsExact`,
  `ScriptNeverWidens`; of the globals `GlobalsKeepTheirPlaces`, of running code
  `CallsAnswer`, of the built-in modules `EveryNameIsAnswered`; of web streams
  `PipeDelivers`, of signals `AbortsArrive`, of channels `EverybodyHears`; and in
  the composition `HostsGlobals`, `EveryCallAnswersForItsCode` and
  `TheWebDelivers`.
* `PollingTimersProofs`: `TypeCorrect`, `TickersAreOne`.
* `NativesProofs`, of the event loop: `TypeCorrect`, `PromisesHaveSources`,
  `ActiveIsExact`, `ClosesWait`, `IdleIsTrue`; of FFI structures
  `FieldsHaveTheirPlaces`, of callbacks and memory `CallbacksAndBlocksAreHeld`, of
  N-API `OwnersKeepTheirSlots` and `WorksAreCompletedOnce`; and in the composition
  the run checks, `NativesTyped`, `FieldsAreKept`, `EveryArgumentIsPassed`,
  `EveryNativeIsHeld` and `EveryAddonKeepsItsValues`.
* `DescriptorsProofs`, of `koss:net`: `TypeCorrect`, `ConnectedIsOpen`,
  `StreamsAreOwned`, `ClosedStaysQuiet`; of UDP `DatagramsAreHeld`, of TCP streams
  `BytesInOrder`, of files `FilesAreHeld`; and in the composition
  `EveryDescriptorIsHeld` and `EveryTypeCorrect`.
* `ModuleLoaderProofs`: `ModulesAreInsideRoot`, `AnswersAreThere`,
  `NothingThereIsMissed`, `FilesAreOneModule`.
* `LibrariesProofs`, of CommonJS: `Inductive`, `TypeCorrect`, `CachedStaysLive`,
  `GlobalsAlwaysFollow`, `EvaluatedOnce`; and of `ScriptLibraries`, which has
  streams, events and timers beside it, `LibrariesInductive`, `ChunksAreKept` and
  `EventsAndTimersHold`.

`DataFacts` holds the lemmas several of them need: of queues in which each
element is once, of the smallest and greatest of a finite set, and the two
principles by which a fold is reasoned about. Assumptions: only those the modules
declare on their constants, in the component or, for a component that is used
through INSTANCE, in the module that composes it (`UdpAssumption`,
`ByteAssumption`, `ObjectsAssumption`, `StructsAssumption`, `AddonsAssumption`,
`ValuesAssumption` and so on); TLC evaluates all of them in the runs. Two of them
tell the provers what TLA+ already says. `TypesAssumption` of `MCNatives` asks that
a byte has an even number of values, 256 in the code, and has the equations of the
powers in use: the provers do not know `^`. `NamesAssumption` of
`ModuleLoader` says that the names of the code (`node_modules`, `index.js`, ...)
are parts of paths: the provers do not know that a literal is a string.

**Guard.** The properties say nothing of what a frame's phase means for the
registry, so a step of `koss_destroy` could meet a registry of any shape. `IInv`
adds it: a frame under the guard has a registered, busy address of its own
generation (`FramesAgree`), a frame outside it has an unregistered one, and an
entry is of a live instance, owned by its creator, busy only if a frame is in it
(`RegistryAgrees`). The heart of the argument is that between `Unregister` and
`DestroyReturn` nothing at the address may be touched after `FreeBox`: a "freed"
frame is in no statement, so the address may already be somebody else's. The
refinement rests on two facts about the mapping under this invariant: who is
inside an instance is exactly the thread with a frame under the guard there
(`MappedInside`), and an address has an abstract owner exactly while it is
registered (`MappedOwner`). One lemma per action then says which abstract step it
is, or that nothing abstract changes.

**Sandbox.** `IInv` adds what decisions in progress have passed: each has the
capabilities, one in stage `js` was allowed by the host, and the policy of the
host is at rest while anything is being decided. `AuditFlagExact` carries the
nesting: entering the audit function requires the flag to be down, so there is no
audit in the stack, and afterwards exactly the innermost.

**Globals.** What a dotted registration does is a fold over the prefixes of its
path, so the lemmas (`WalkGoesOn`) speak of all beginnings of that walk.
`GlobalsInv` adds that everything there has a holder that can hold it (`Held`),
that `KossJS` and what is under it are as the host made them (`KossKept`), and
that nothing else is fixed until a script does so: only then can a registration
be refused halfway.

**Web interfaces.** `PipeInv`: what a stream answered and what it has queued are,
in this order, the numbers up to what it made (`StreamRises`), so nothing can be
given twice or out of order by whoever reads; the pump waits for at most one
answer, and for none unless it is reading (`One`, `None`), which is why what it
writes follows the source (`Wrote`) although scripts read beside it.
`SignalsInv` follows a listener that matters, the one of a fetch or of a combined
signal: once its signal is aborted it is still in a list or in a dispatch on the
stack (`ListenersFit`, `FetchesFit`, `AnyFits`), at most once in each, and every
step but those that start a fetch or combine signals keeps this (`SignalsGoOn`).
`ChannelsInv` gives each message a place: on its way, in a timer or in the walk, or
arrived at every ear that is still there (`AllArrive`); an ear is the listeners or
the `onmessage` of a channel, or a port. What was heard is older than what is in a
timer. At a place the walk is one further for the listeners than for `onmessage`
(`Behind`), and who is behind it has heard the message, sent it or was missed
(`VisitedHeard`); only a sender that moved up to the place meanwhile hears itself
(`SenderMovedUp`).

**Calls and built-ins.** `CallsInv` knows of a piece that is left either that its
call has ended or that the current directory fits what it came from
(`PiecesHaveTheirHome`), since only the beginning of a call sets the directory, and
which phases follow which (`PhasesInOrder`): when the jobs of a tick or of
`koss_run_async` run for the second time and it was found idle, nothing is left.
`BuiltinsInv` follows a load down its stack (`Chain`): the file on each place was
required by the one before it, at a place of its list, and what stands before that
place in the list was found. That no file is on the stack twice, although the code
asks a cache that has unfinished files in it, is because files have ranks and
require only lower ones (`NeedsAreBelow`), so a load cannot answer with half a
module.

**Event loop.** Where the result of an operation is (with its task, its thread,
in the channel, settled) must be one place at a time: `WaitsForSource` says which
for each stage, `ChannelFits` that the channel has each result at most once and
only of operations whose source is done. `WorkersFit` and `ActiveExact` count the
threads of a library, a set whose size the proof follows one element at a time.
`CloseWaits` speaks of a close already when its report is in the channel: it was
put there with the count at zero, and calls that start later have later numbers.
`IdleLeavesNothing` holds between two calls of the host, where no FFI thread may
be left to add a result.

**Natives.** A structure is laid out one field after the other, so what is claimed
of its fields is an invariant of that (`StructsInv`). That bytes keep a number is
an induction over how many of them are added up (`BytesAddUp`, `Decodes`), and
from it every encoder and decoder agrees with the nearest value of the type
(`ReadsAsNearest`). `InstanceInv` then says that each field has the bytes of what
was written last, and that the strings whose addresses are in the buffer are still
held; the constructor, a fold over the fields, is followed from its first write to
its last (`ConstructHolds`). Of a call, `CallMade` says that none of its arguments
was refused and each has its type, which is why the two paths of `func` and
`funcAsync` give the same bytes. Callbacks nest: the functions that are taken are
those of the registered callbacks on the stack, each of which is there once
(`HeldByFrames`), which makes each return put back what its own call took. A block
that is live has its size in every pointer to it that has any, and a pointer of
another size is to the engine's memory, which is all that `free()` can give back
wrongly. A slot of the N-API heap that somebody relies on has one owner, a call or
a reference (`NoneShared`), and what it holds is what it held when it was made; a
call frees the slots of its arguments, which is why references have slots of their
own. What slots and properties hold is followed beside this (`NapiKinds`), and the
works counted are told apart by where they are, so there are no more of them than
works (`EnvTypes`).

**Timers.** `TickersPlaced`: an identifier is at most once in the queue, and not
in the queue while it is firing, also when its timer was cleared; a poll that
finds it gone drops it. Without the cleared ones the statement is not inductive,
since an identifier could be armed while an old ticker of it is queued.

**Sockets.** `TablesAgree` relates the two tables to the counters and to what
the objects remember; `EveryStreamIsOwned` is then inductive as it stands.
`EventsQuiet` ties each interval to the frames of events below: an interval may be
armed by what remains of a `connect` only if that frame is there, and an object
closed inside it is one of those the property names.

**Descriptors.** A UDP socket is polled exactly while it has an entry, and an entry
exactly one socket. Of a TCP stream the invariant is that what was read, what is
queued and what is on its way make up what was sent, in this order. A file
descriptor that was closed keeps its number for good, so it cannot come to
another file.

**Modules.** The searches of the resolver carry three caches through lists of
candidates. Each is a fold, which is a function on the subsets of the indexes
defined by recursion: `SubsetRecursion` shows that there is one (by the set of its
finite beginnings), `SubsetInduction` that a claim which each step keeps holds of
it. The claims are stated by conditions in which no cache occurs (`NoFile`,
`NoneAt`, `NoMain`, `NothingUp`, `NothingFor`), so that a search with full caches
and one with empty caches can be compared: both find something exactly if the
condition fails. The invariant `LoaderInv` says of the caches that they are small,
that a main field in them was read from the package as it is, and that paths
found or resolved are there as long as no file was removed; an absent answer may
be stale only behind a `package.json` that came later, which is the exception
`NothingIsMissed` names. `FilesAreOneModule` has the hypothesis `NoOtherNames`: no
symbolic links, and no `..` in the specifiers that are taken as they are written;
with either, one file does get two instances (`ModuleLoader` models both).

**CommonJS.** `CommonJsInv` adds `FramesNest` (each frame's instance is its own, not
loaded, and the globals it saved are those of the frame around it) and
`LiveIsCached` (until the cache is replaced, what has loaded or is loading is the
instance in the cache). The first makes restoring the globals right at any depth,
the second makes a second evaluation impossible: a path that is not cached has no
live instance.

**Events.** A wrapper of `once` is removed before its listener is called, so that
one event must not find it twice. `EmitterInv` says where a wrapper can be
(`WrappersApart`: on the list of one event at one place, or in the emissions of
that event) and what follows once it ran (`RunOnce`: it is on no list, and in no
emission unless the event was emitted inside itself). The iterator of `on` is
reasoned about by counting: the n-th answer with a value is the n-th value sent,
and the queue holds those that come after (`InOrder`, an induction over the calls
only, since the number of answers up to a place grows by one with each).

**Timers.** `TimersInv`: numbers are given out once, an entry is under the number
of the object it was made for (`NumbersFit`), an object that was cleared has no
entry (`DestroyedHasNone`), and only the object of a promise has one
(`PromisesAreMade`). A timer refreshed from its own callback loses its entry;
`orphans` names these.

**Streams.** `agenda` is what the calls in progress still have to do. `AgendaInv`
fixes what can stand there: each item fits the stream it is for; one chunk is on
its way, at the head, or all items belong to the chunks a transform had kept
(`OneMoves`); and as long as the script does not listen, its pushes and resumes
are alone and what empties a buffer comes last (`Quiet`). `CountsInv` has the
lengths beside the buffers, with the chunk that is on its way between them
(`LengthOn`), and the closes. `ChunksInv` is about where a chunk is. `Kept`: it is
queued, carried by an item, taken or dropped, or it arrived, whatever is called.
`Apart`: it is at one place. That needs `Calm`, the script does not listen and
resumes a stream once, because `resume` emits the chunks of the buffer before it
empties it, and a second one finds them again; `Live` buffers are those that no
resume has begun to empty or whose item is still to come. A chunk arrives once
because it leaves one place for another.

Only model-checked: the data of a script (`DataSurvives`: what decoders, numbers
and paths compute, by recursion over their input), the types of the libraries
(`MCLibraries`' `TypesOK`), and liveness, which the prover does not treat.
`ScriptSpec`, which the theorems are about, is the part of
the run's `SumSpec` without the decoder, buffers and paths: a step of these leaves
`libraryVars` as they are.

## 5. Findings

1. `sandbox_promise`: an audit function that answers with a promise admits the
   operation at once (`call_js_audit` takes the promise's truth value), while
   `安全与沙箱设计.md:272` says the promise is waited for and may deny.
2. `ffi_free_running`: a callback that frees itself while it runs returns into a
   trampoline that puts the function back into dropped data, against the comments
   at `callback.rs:24` and `87`, which say that freed data is never touched.
3. `polling_timers_deadline`: `koss_run_async` with an interval armed never
   returns. Its comment (`runtime.rs:3951`) promises the timeout, which is looked
   at only when the microtask queue is empty, and the interval keeps it full.
   Timeouts and immediates whose functions arm each other do the same.
4. `module_loader_relative`: an imported module is parsed from bytes and has no
   path, so its own relative imports start from the root, against
   `更新设计.md:150`.

### Seen while modelling, and not the subject of a run

The models have these as they are; file names are those of the component.

* **Modules.** After `module.exports = x` in the main script a required module is
  evaluated again, since the setter replaces `Module._cache` (`更新设计.md:345`
  promises the cached exports). A `package.json` created after its directory was
  first looked at is never read (`StaleMain`): `clear_cache` has no caller.
  `./foo.bar` is looked for as `foo.js` before `foo.bar.js` (`resolver.rs:255`);
  the skipping announced at `resolver.rs:303` is not there. A `koss:` import
  compiles a new module each time. `koss:internal` is answered to everybody
  (`更新设计.md:90` and `328` keep it from users; `test_koss_protocol.py:88` expects
  it), and the bare path of a library file (`koss_shim/io.js` and the like) whatever
  the flags. The Node, Bun and Deno layers need the koss layer: `koss:node/fs` throws
  where only `KOSS_BUILTIN_NODE` is on, since it requires `koss:io`
  (`更新设计.md:103` asks for the one flag).
* **Host.** The directory given to the audit is one field, set when a call begins,
  while `安全与沙箱设计.md:609` says that of the module that calls, also in callbacks:
  a required module is audited under the directory of the file that was run, and
  what a call left under that of a later one. `koss_eval`, `koss_run_string` and
  `koss_run_file` answer 0 without having run a job, and `koss_run_async` also for a
  promise that nobody settles. A module that waits answers 1 and goes on in later
  ticks. A registration under a dotted path replaces a function
  or class on its way, and answers "ok" when it was refused.
* **TCP.** One `__koss_tcp_close` removes its number from both tables, so after
  1000 connections the close of one object closes another's descriptor. An object
  closed inside its own `connect` or `listen` event gets its interval armed
  afterwards. The count of a partial write is ignored; what was written before
  `connect` is never sent; code units from 256 are sent as their low byte; `end`
  is never emitted.
* **Files and UDP.** `createReadStream` reads a chunk and throws it away; a
  finished write stream keeps its descriptor; the limit of open files is looked
  at after the file was created or truncated; flag `a` creates nothing (1025
  has no 64 in it, whatever its comment says).
  The UDP natives answer JSON strings where the shim looks at objects: `message`
  is never emitted and `send` throws after it has sent; a socket used after
  `close` opens a new one.
* **Streams, events, timers.** `push` in flowing mode emits a chunk and keeps it; a
  paused pipe is not resumed; `pipeline` may call back more than once. A `once`
  listener runs twice when its event is emitted inside it; the iterator loses an
  error nobody waits for. A `Timeout` refreshed from its own function can no
  longer be cleared; `clearAllTimers` leaves promises pending.
* **Buffers and paths.** `write` and `text` of latin1 differ in the decoder;
  base64 and hex decode to latin1 text; slices are copies, padded with zeros past
  the end. After `concat` with a total that is not the sum of the parts a buffer's
  length is not that of its bytes: `Buffer.compare` may be 0 and `equals` false,
  and negative offsets count from another end. `posix.resolve('/a')` gives `//a`,
  and no current directory is used; `win32.resolve` takes a leading backslash for
  relative.
* **Web.** An error raised in `pull` reads as an end; `cancel` leaves reads
  waiting; a writable stream accepts writes after its close; a signal's listener
  that throws stops the others; a broadcast passes over a channel when a listener
  closes another, and looks its place up again before it calls `onmessage`: the
  channel that moved up hears it there, be it the sender, and when there is none, or
  an `onmessage` throws, the error ends the walk and is swallowed by the timer.
* **FFI.** A parameter declared by anything but a name is dropped and later
  arguments shift; `funcAsync` functions ignore `closed`, and `closeAsync` never
  unloads, while `close` unloads under running calls; a callback's pointer passed
  to an asynchronous call runs script on that thread (`callback.rs:116`); the
  pointer of a structure outlives it, and `free()` gives the memory of a structure or
  an array buffer to the allocator like a block of `alloc`.
* **N-API.** Two functions of one C callback share their data; exceptions of an
  addon never reach the script; a reference's handle dies with it.
* **Not modelled, but read.** `koss:http` calls methods `koss:net` does not have.
  The DEFLATE decoder of the zlib shim takes nine bits for each symbol and the
  encoder's table has wrong rows, so that what `gzip` writes `gunzip` does not
  read, against `test/test_stdlib_api/test_zlib_dgram.py:23`.

`PROJECT.json` lists the hazards at their lines, with the properties that cover
them.

## 6. What is not modelled

* HTTP (a parser and writer of text over methods that do not exist), the web data
  interfaces, the pure libraries (url, querystring, util and their like): text,
  character by character, without steps.
* Bindings (console, native fs, crypto, hashes, system information): single calls
  into the system or a crate, without state; the gate before each is in
  `Sandbox`, and most of `bindings.rs` has no caller.
* The Bun and Deno shims, the other Node shims and the host interfaces: renaming
  and wrapping of what is modelled.
* Inside the modelled components: floating point numbers, nested structures,
  values of host callbacks, file metadata, `resolve` and `relative` of
  `path.win32`, stream consumers and similar, as the notes of `PROJECT.json` say
  one by one.
* The engine: how Boa runs code and its microtasks is assumed (a queue run until
  it is empty). The operating system: what an unloaded library does when called,
  what a native function does besides returning and calling back. Memory
  exhaustion and panics. Wrap-around of 32- and 64-bit counters (promise, task,
  timer and descriptor ids), which no bound here reaches.

## 7. Plan

Done, in this order: `ApiGuard` with `ExclusiveAccess`; `Sandbox`; `EventLoop`;
`PollingTimers`; `NetSockets`; `ModuleLoader`; `CommonJs`; then the host
functions and built-ins, FFI and N-API, files, datagrams and bytes, the libraries
of a script and the web APIs; proofs for the first seven, with the refinement,
then for the descriptors, FFI and N-API, everything in `MCHost`, and the libraries
in `ScriptLibraries`.

What would come next: the types of every composition as theorems; an
abstract descriptor table that the three tables implement; `closeAsync` and
`close` of a library in one model; HTTP, once it uses the methods `koss:net` has.
