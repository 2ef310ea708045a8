# The emitted runtime of js2wasm, in TLA+

js2wasm compiles TypeScript and JavaScript to WebAssembly. Most of the
repository is a sequential translator. What it *emits*, though, contains a small
operating system: a microtask queue, native promises, a timer table, an event
loop on top of WASI's `poll_oneoff`, a reactor for standard input, resume machines
for async functions and generators, hash tables, a heap, and, for hosts with Node,
a synchronous two-thread transport that evaluates dynamic code in a Worker. That
runtime is written as lists of instructions inside the compiler (mostly
`src/codegen/async-scheduler.ts`), is executed re-entrantly, and is where an order
of events nobody tested does harm. It is what this directory models.

Paths below are relative to the repository's root; `AS` is
`src/codegen/async-scheduler.ts`.

## Inventory

| Component | State | Operations | Hard behaviour | What makes it correct |
|---|---|---|---|---|
| Microtask queue (`AS` 448-854) | globals `__mt_head`, `__mt_tail`, `__mt_cap`, three parallel arrays | `__microtask_enqueue`, `__microtask_grow`, `__drain_microtasks` | jobs that enqueue, drain or throw while they are drained; growth re-bases the indices in mid-drain | it is a FIFO; no live slot is null; everything is drained |
| Native promises (`AS` 856-2315, 4290-5230, `promise-executor.ts`) | per promise: state, value, list of reactions | resolve, reject, settle, then/catch, finally, thenable jobs, executors | adoption of promises that settle later; finally callbacks that return promises; settling from callbacks and nested drains | settled once; every reaction runs once, with the outcome; adoption follows the inner promise; finally passes the outcome through |
| Unhandled rejections (`unhandled-rejection.ts`) | a list of (promise, handled) | note, mark, report at exit | reactions attached before and after the rejection; rejections consumed by adoption | a report exactly for the rejections nobody handled |
| Timer table and event loop (`AS` 2667-3558, 4200-4274, `expressions/calls.ts` 6374-6475, `wasi.ts`) | five parallel arrays, the loop's locals | setTimeout, setInterval, clear*, queueMicrotask, one pass over the table, sleep, exit | callbacks that create and clear timers during the scan; the clock moving meanwhile; rounding and 32-bit sleeps; failing polls | never early, once, never after a clear, no sleep with work pending, nothing starves |
| Standard-input reactor (`AS` 3560-4170, `process-stdin-prelude.ts`) | buffer cursors, subscription flag, reader hook, the Readable's own buffer and flags | drain, poll on fd 0 or clock, pump, read, pause, resume, destroy | callbacks that pause, read or destroy while the pump runs; a full buffer; end of file against late listeners | bytes in order, none lost or repeated, the same for every listener; `end` when nothing is held or can arrive; the loop ends |
| Program start (`codegen/index.ts` 7200-7350) | none of its own | entry function, drain or loop, report, exit on an uncaught throw | a throw anywhere below it | the tail runs, or the process ends with an error |
| Node eval Worker (`runtime-node-eval-worker.ts`) | host: stack of `request()` calls, ids, `closedError`; Worker: its loop, `hostSignal`; two message queues | request, host request, connect, time out, terminate, exit | two threads that block on each other, nested requests, deadlines against late answers, callbacks of the Worker's own event loop | answers go to their requests; nobody sleeps unanswered; every wait ends |
| Async frames and await (`async-frame.ts`, `prepared-native-async-await.ts`, `statements/control-flow.ts`) | a frame per call: STATE, MODE, ERROR, SENT, result promise | entry, await, resume, return, throw, catch and finally regions, generators' next, return, throw | frames that start and settle each other, fast paths that do not suspend, abrupt completion through a finally clause | an await delivers what it awaited; one resumption per suspended frame; every call is answered |
| Promise combinators (`promise-combinators.ts`) | per call: counter, array of results, result promise | all, allSettled, any, race of literals and of other arguments | elements that settle during the call, thenables among them, a drain in the middle of a literal | the right input decides; results in place, final and complete |
| Map and Set (`map-runtime.ts`) | entry vector, buckets, counts; iterators' cursors | get, has, set, delete, clear, size, iteration, forEach, snapshots | changes under an iterator, tombstones, rehashing, colliding keys | an insertion-ordered map with live iterators |
| Linear-memory heap (`codegen-linear/heap-allocator.ts`) | boundary tags and free lists in memory, bins, regions | alloc, calloc, free, realloc | long sequences of legal calls, a system that refuses memory, overflowing sizes | blocks tile the heap; nothing is lost or overwritten; refusal only when nothing fits |
| Reference counts and arenas (`codegen-linear/linked-arena.ts`, `export-arena.ts`) | marks in the heap | enter, leave | nesting, retained objects | nothing outlives its arena unless retained |
| Instance lifecycle and timer bridge (`src/runtime/*adapter.ts`) | host timers, instance state | arm, fire, dispose | firing after dispose | no callback into a dead instance |
| Checker, IR, code generation, linker, bundler, host imports | compile-time data | one sequential pass | none of the above | out of scope, see the end |

How they interact: the queue is called by everything; a promise's settle turns
reactions into jobs; the event loop drains the queue before and after each pass
over the timers; `_start` runs the entry function, then the loop or a single
drain, then the report of unhandled rejections. Combinators and async frames are
clients of the promise operations, and their reactions are jobs. The stdin
variant of the loop calls a hook of the injected Readable once per turn. Maps and
the heap are called by compiled code only; what makes them hard is not
concurrency but long histories and iterators. The Worker transport is
independent of the rest: it belongs to the JavaScript host.

`PROJECT.json` lists every component, and under `hazards` the lines where each
hard behaviour bites, with the properties that watch it.

## Modules

| Module | Stands for | Uses |
|---|---|---|
| `MicrotaskFifo` | the promise of the microtask queue: a FIFO of jobs | |
| `MicrotaskQueue` | the queue as emitted | `MicrotaskFifo` as its abstract specification |
| `MicrotaskQueueProofs` | theorems about it | |
| `PromiseOps` | the emitted functions on promises that other parts call | |
| `PromiseContract` | what a promise promises to its reactions | |
| `PromiseRuntime` | promises, executors, unhandled rejections, `_start` without timers | `PromiseOps`; `PromiseContract` as its abstract specification |
| `PromiseOpsProofs` | what every emitted promise function preserves | |
| `PromiseRuntimeProofs` | theorems about promises | `PromiseOpsProofs` |
| `PromiseCombinators` | all, allSettled, any, race | `PromiseOps` |
| `AsyncFrames` | async functions and generators, await | `PromiseOps` |
| `AsyncFramesProofs` | theorems about it | |
| `TimerLoop` | timer table, event loop, `_start` with timers | |
| `TimerLoopProofs` | theorems about it | |
| `StdinReactor` | the fd 0 variant of the loop and the injected Readable | |
| `StdinReactorProofs` | theorems about it | |
| `NodeEvalWorker` | both threads of the eval transport | |
| `NodeEvalWorkerProofs` | theorems about it | |
| `OrderedMap` | what a Map promises: an ordered list of entries with iterators | |
| `MapRuntime` | the hash table as emitted | `OrderedMap` as its abstract specification |
| `MapRuntimeProofs` | theorems about it | |
| `HeapAllocator` | the boundary-tag allocator of the linear backend | |

Correspondence with the code; `map` in `PROJECT.json` gives the lines.

**MicrotaskQueue.** `mt` is the record of the queue's globals; a slot of `slots`
is the triple of the three parallel arrays, an array that is still null is the
function with an empty domain. The emitted functions are operators on that
record (`Grow`, `RoomForOne`, `Store`); the actions are a call of
`__microtask_enqueue`, a call of `__drain_microtasks` and one turn of its loop
up to the `call_ref`, the loop's exit, a job's return and a job's throw. `depth`
counts activations of the loop: user code may call `__drain_microtasks()` itself
(`expressions/calls.ts` 7410), so a job can run inside a job.

**PromiseOps, PromiseRuntime.** `rt` is the runtime's state (promises, queue, list
of unhandled rejections); `Settle`, `Adopt`, `Assimilate`, `ResolveValue`, `React`,
`FinallyAfter`, `MarkHandled` are the emitted helpers, from `rt` to `rt`; the ones
that combinators and frames call too are in `PromiseOps`. `stack`
is the call stack; what a wrapper does when the callback inside it returns or
throws is the last step of that callback's frame. The queue is a sequence: that
it may be is what `MicrotaskQueueProofs` shows. The program is arbitrary: in any
frame it may make any of the calls in `Uses`, up to `MaxCalls` in a behaviour (the
last one from `LastUses`). A
reaction on a pending promise goes to the *head* of the list, as in the code, so
several reactions on one promise run in the reverse of their order; a comment in
the code says so.

**TimerLoop.** `timers` is the table, one record for the five arrays; `phase`
says where `_start` is (`main`, the first `drain`, the scan `fire`, the second
drain `settle`, `peek`, `sleep`); `now` and `index` are the locals of the loop
and of the scan. `Tick` is the clock, which may move between any two steps. An
id of the code is one less than the index here. `SleepMs` rounds up to
milliseconds and wraps to `SleepModulus`, which is 2^32 in the code.

**NodeEvalWorker.** `frames` is the stack of `request()` activations with their
program counters, `worker` the Worker's state; the two directions of the
MessagePort are FIFOs. The host sleeps at most 50 ms at a time and then looks at
its port again, so its signal needs no state; the Worker sleeps without a limit,
so `hostSignal` and the value it noted are modelled, with the note, the post and
the sleep as separate steps. Dynamic code is arbitrary: it may access bindings,
leave callbacks behind, catch what `hostRequest()` throws, end, or spin.
`hist.left` notes whether a callback was ever left behind: the documented answers
hold as long as none was, the end of every `request()` without that condition.

**PromiseCombinators.** A member of `comb` is a `$CombinatorState` record, which
all reactions of one call share. An array literal is compiled element by element,
so `open` is a stack of literals under evaluation and the program goes on between
two elements; any other argument is subscribed in one step. Jobs are the emitted
`all_fulfill`, `any_reject` and so on; the two that decide settle the result, the
four that count store and decrement. `arrived` is history: the order in which
inputs became both subscribed and settled, which is the order the reactions must
respect.

**AsyncFrames.** A member of `frame` is an `$AsyncFrame`. The number in STATE is
abstracted to what the state does (run code, deliver an await, answer that the
generator is completed), the region it lies in, and what follows. `stack` holds
the activations of resume functions above the main program or the drain; `Resume`
enters a frame, `AwaitValue` has both timings of the code (a settled operand is
taken at once, or always through a job), `Abrupt` is the emitted path of a throw
through the regions. `Raised` is an exception that comes out of a call: a finally
clause on the abrupt path that made the call stays where it is, for it may catch the
exception, and `FinallyThrows` is the other case. `awaits`, `got`, `asked` and `over`
are history.

**StdinReactor.** Four groups of variables: the peer (`written`, `closed`), the
reactor's cursors, the Readable's fields, and the place of the loop. `pump()`
calls listeners, which may call `resume()` and so `pump()` again; its activations
are on `stack` with the index of the listener loop, the local `atEof` and the
chunk. Bytes are numbered, so order, loss and repetition are visible in `out` and
`heard`. Timers and jobs are counters: `TimerLoop` has them in full.

**MapRuntime.** `m` is the `$Map` record with its entry vector and buckets; an
iterator is a cursor into the vector, parked at the largest number when it ends.
The reads (`Get`, `Has`, `Size`, `Snapshot`) are operators, the changes are
actions. A key has a content and a representation: `Hash` looks at the array
behind a string, `SameValueZero` at the content. The mapping to `OrderedMap` takes
the vector to the list, with tombstones as empty places. The two loops of the
code, the walk of a chain and the relinking after the buckets were doubled, are the
recursive functions in `Chain` and `LinkLive`.

**HeapAllocator.** `heap.mem` is memory, word by word, with headers, footers and
links in it; `Carve`, `FreeBlock`, `Absorb`, `Insert`, `Unlink`, `Find` are the
emitted functions. `live` is what the callers own and the mark they wrote into
it, `regions` (history) where each region begins and ends, so that `Walk` can
follow the headers from one end to the other.

## Runs

Passing runs:

- `microtask_queue` (two jobs, an initial capacity of 2 that grows to 8, drains
  nested twice): the array queue implements the FIFO (`ImplementsFifo`), every
  live slot holds a job (`LiveSlotsHoldJobs`), and unless a throw ends the process
  the queue is eventually drained (`EventuallyDrained`). Capacity 8 covers the
  first allocation and two growths, with and without drained slots in front.
- `promises` (three calls of every kind, and a fourth that resolves, with every
  kind of resolution): `NoReactionLost`, `AdoptionFollowsInner`,
  `FinallyPassesThrough`, `UnhandledListExact`, the refinement
  `ImplementsContract`, and under fairness `Terminates`. Three calls make a
  promise, a reaction on it and an interfering call; the fourth settles a promise
  that was pending when it was adopted or returned by a finally callback.
- `combinators` (two combinators of any methods, two elements each and three in
  all, one promise pending at the start, three calls, an element that is no promise
  counting as one): `FirstDecides`, `CollectsInOrder`, and under fairness
  `SettlesWhenDue`. Two elements are enough for one to settle while the other is
  still being evaluated, and for the same promise to occur twice; a thenable as
  element brings in an input that settles inside the drain; with two combinators
  one promise is an input of both, or the result of the first an input of the
  second, and the third call settles what they wait for.
- `async_frames` (two frames, one input, four calls): `AwaitDelivers`,
  `NeverStranded`, `CompletedRunsNothing`, and under fairness `CallsEnd`. With two
  frames one starts the other, awaits its result, or settles what it awaits, from
  inside a nested run of the machine. A finally clause on the abrupt path ends,
  throws, or returns and so overrides the exception. Calls that overlap on one generator are left
  out (`Overlap`): see below.
- `timer_loop` (two timers, one microtask, delays of 0, 1 and 2 ms of two ticks
  each, six ticks, sleeps that wrap at 2 ms): `NeverEarly` (nor twice, for a timeout),
  `ClearedNeverFires`, `IdleMeansNothingPending`, `SleepEndsInTime`, and under
  fairness `TimersFire`. Two ticks to a millisecond make rounding visible; a
  modulus of 2 makes a sleep of two milliseconds wrap to none.
- `stdin_reactor` (three bytes through a buffer of two, four calls, one timer, two
  listeners, polls that may fail): `BytesInOrder`, `EndIsLast`, `ListenersAgree`,
  and under fairness `ClosedStreamEnds` and `DestroyedExits`. Three bytes fill the
  buffer and need its reclaiming; two listeners let the first change what the
  second sees. `EndIsLast` says when `end` may be announced, and that it is the
  last thing a single `data` listener hears; a second listener may hear `end` too
  early (see below), and what does hold of it is `ListenersAgree`: it misses no
  chunk.
- `eval_worker` (four requests, four host requests, two callbacks left behind,
  code that may spin): `OwnAnswer`, `InStep`, `SleepIsAnswered`, and under
  fairness `RequestEnds` and `BindingAccessEnds`. Four requests allow a nested
  request inside a nested request and another one after a deadline; callbacks may
  leave callbacks behind in turn, so that there is no end of them.
- `map` (a vector and buckets of two that grow to four, three keys of one bucket
  of which two still collide after the growth, four entries, one iterator):
  `TableSound`, `ReadsAgree` and the refinement `ImplementsOrderedMap`. Four
  entries let the vector and the buckets grow together or apart, with and without
  tombstones, under an iterator at every position.
- `heap_allocator` (160 bytes, two regions of which the second may be refused, two
  exact and two power-of-two bins, three blocks in use): `HeapSound` (the callers'
  blocks, the tags and the bins agree), `ContentsKept`, `FindsWhatFits`. Requests
  of 8, 28, 36 and 61 bytes hit an exact bin, two sizes of one range bin and the
  refusal above the limit; blocks of 32 and 40 bytes lie in one range bin, the too
  small one in front of the one that fits, so that both the size test and the walk
  of `__heap_find` matter (without either, the run fails), and
  nodes are taken out of the middle of free lists. calloc asks for 2 or 10 times 14 bytes, and the latter product overflows the modulus of 128.

`TypeOK` is a property of its own where it is part of a proof or says something
about promises, a part of `TableSound` and `HeapSound`, and elsewhere left out:
the properties of those modules would already fail to be evaluated on a state of
another shape.

Runs that TLC refutes; each is something a comment, a test or a document of the
repository says and the code does not do (`findings` quotes the line):

- `promise_first_settle`: after `resolve(pendingPromise)` a later `reject` still
  settles the promise, because adoption leaves it open.
- `promise_false_report`: `Promise.resolve().then(() => Promise.reject(1)).catch(f)`
  ends with a report, because adoption does not mark the rejection it consumes.
- `map_sliced_keys`: a key that is a view into a longer string is hashed by the
  whole string behind it, so an equal key is not found.

Other disagreements that the models show when asked, and that have no run of
their own:

- Timers. Timers due in the same pass fire in slot order
  (`tests/issue-2632-event-loop.test.ts` 20 and 101 speak of the order of
  deadlines); a timer created by a timer callback may fire in the same pass (`AS`
  3313); `setInterval(f, 0)` fires once (the test's line 23); a microtask queued by
  a timer callback waits until all due timers of the pass have fired (153).
- Standard input. `end` is not "only after ... the stream's own buffer is fully
  delivered" (`process-stdin-prelude.ts` 238 and 346): `emitChunk` empties the
  buffer before it calls the first `data` listener (324-328), and if that listener
  calls `resume()` at the end of the input, the inner pump finds nothing buffered
  and emits `end` before the second `data` listener is given the chunk, and before
  the first has returned. `EndAfterDelivery` states what the comments say; asked
  for it as an invariant, TLC gives that behaviour. `destroy()` inside a `readable`
  listener does not keep the pump above it from emitting `data` (332, 445); a `data` listener
  added by a timer or a job is not pumped before the next turn; after the end of
  file a sleep for a timer still subscribes fd 0 (`AS` 3860); a full buffer that
  nobody reads makes the loop poll without a pause (`AS` 3766).
- Async frames. A finally clause that throws on the abrupt path leaves the result
  pending, although a comment (`async-frame.ts` 2543) says that a throw must settle
  it; `next()` after the end of a generator runs the statements behind the last
  yield again; `return p` does not adopt `p`; `await` does not assimilate a
  thenable; a generator has no queue of requests, so with `Overlap = TRUE` TLC
  refutes `AwaitDelivers`, `NeverStranded` and `CompletedRunsNothing`.
- Combinators. When an element's expression throws, the result of the abandoned
  literal may still be rejected later by the elements before it, with nobody able
  to react: a report at exit.
- Maps. A `clear()` under an iterator leaves its cursor where it was, so that the
  entries added next are skipped (`map-runtime.ts` 11 and 2186); the run leaves it
  out with `ClearWhileWalking = FALSE`.
- Worker. A callback that writes a binding while no request is open sleeps for
  ever (`docs/js-host-eval-isolation.md` 106); one that spins then is under no
  deadline (66); and after such a callback `OwnAnswer` fails, since a request
  swallowed by one is answered by the echo of a host response with the same number.

`CHECK_DEADLOCK FALSE` is used except for maps and the heap: a program that has
ended, or an evaluator that is closed, really has nothing more to do. That nothing
stops *before* that is what the liveness properties say.

## Fairness

- Emitted code that can run does run: it is single-threaded WebAssembly, and
  nothing else can block it (`WF` of `DrainStep`, `DrainTurn`, `LoopTurn`).
- Callbacks of the program end: a callback that loops for ever blocks a
  single-threaded module, and no runtime can help. They may throw or return.
- The microtask queue is drained again when no drain is active: `_start`'s tail
  and each turn of the loop do, and an embedder of a library module must.
- The clock ticks (`WF_vars(Tick)`), but polls may fail at any time, and how often
  is not assumed.
- Standard input: the program and the loop take their steps
  (`WF_vars(Program)`); a pending timer fires if it could again and again
  (`SF_vars(FireTimer)`), because the clock advances while the loop turns. The peer
  owes nothing: it may never write and never close. Polls may fail (`PollFails`),
  and no failure is owed.
- Combinators: a turn of the program ends and the drain runs
  (`WF` of `LetDrain` and `DrainStep`); nobody need settle an input or go on with
  a literal.
- Async frames: the code of a state ends, by whatever way it has, and emitted code
  runs (`WF_vars(ThrowStep \/ EndStep)`); nobody need settle what is awaited.
- Both threads of the Worker transport run and a termination takes effect.
  Nothing is assumed about dynamic code ending: under `MaySpin` it may not.

## Proofs

Every theorem is about the specification that the run of its module checks, for
every value of the constants; a theorem and the property it states:

| Component | Theorems |
|---|---|
| Microtask queue | `IndicesStayInside` (`TypeOK`), `QueueInvariant` (`LiveSlotsHoldJobs`), `QueueImplementsFifo` (`ImplementsFifo`) |
| Native promises | `RuntimeStaysTyped` (`TypeOK`), `ReactionsStay` (`NoReactionLost`), `AdoptionFollows` (`AdoptionFollowsInner`), `FinallyIsTransparent` (`FinallyPassesThrough`), `RuntimeImplementsContract` (`ImplementsContract`) |
| Unhandled rejections | `UnhandledIsExact` (`UnhandledListExact`) |
| Async frames | `AwaitsDeliver` (`AwaitDelivers`), `NoneStranded` (`NeverStranded`), `CompletedStays` (`CompletedRunsNothing`) |
| Timers and event loop | `TableStaysTyped` (`TypeOK`), `NoEarlyFiring` (`NeverEarly`), `IdleOnlyWhenDone` (`IdleMeansNothingPending`), `SleepsEndInTime` (`SleepEndsInTime`), `ClearedStaysCleared` (`ClearedNeverFires`) |
| Standard input | `NoByteLost` (`BytesInOrder`), `EndComesLast` (`EndIsLast`) |
| Map and Set | `TableIsSound` (`TableSound`), `ReadsAreOfTheList` (`ReadsAgree`), `TableIsTheList` (`ImplementsOrderedMap`) |
| Node eval Worker | `AnswersAreOwn` (`OwnAnswer`), `ThreadsKeepStep` (`InStep`), `NoLostWakeup` (`SleepIsAnswered`) |

**MicrotaskQueueProofs**, for every set of jobs, every initial capacity greater
than zero and every bound on capacity and nesting. The inductive invariant is
`TypeOK /\ LiveSlotsHoldJobs`: that the indices are ordered and inside the arrays
(`WellFormed`) is needed to know that a store or a grow touches the slots it
should, and that live slots hold jobs (`HoldsJobs`) is what makes the job taken by
the loop a job. The lemmas about `Grow`, `RoomForOne` and `Store` say what each does
to the two. The refinement mapping takes the buffer to `Jobs(mt)`, the sequence of
the slots from head to tail: a grow leaves `Jobs` alone, a store appends to it and
a turn of the loop removes its head; everything else is a stuttering step.
Assumptions: `NoTask \notin Task`, `InitialSlots \in Nat \ {0}`, `MaxDepth \in Nat`.

**PromiseOpsProofs and PromiseRuntimeProofs**, for every set of plain values and
programs of any length: any calls, from any callback, with drains nested
anywhere. None of the five invariants is inductive. `PromiseOpsProofs` states
what holds of the runtime and the history whenever user code or the drain runs
(`Sound`):

- `TypedRuntime`: promises are allocated in order, and a settled one has no list;
- `Attached`, `Placed`, `CallbacksWait`: a reaction that has not run is on the list
  of its pending source once and nowhere in the queue, or in the queue once with
  the outcome of its settled source, under a function that fits that outcome;
- `Noted`: the list of unhandled rejections, entry by entry;
- `Unstarted`: the promises that must wait (for a reaction, or for a resolving
  function that was never called) are pending, and nothing in a list or in the
  queue would settle them;
- `Restoring`: after a finally callback has returned, what is to restore the
  receiver's outcome is in one place and remembers that outcome.

`FirstDecides` stands beside them: a promise resolved by one call has the outcome
of what it was resolved with, or the one reaction that will give it that outcome
is on the list or in the queue. Every emitted function is a composition of four
steps on the runtime (a promise is settled, a reaction is listed, a job is queued,
a promise is allocated); each step is shown to keep each conjunct, and the results
are combined into one lemma per function. `PromiseRuntimeProofs` adds the call
stack: `Framed` says that while a then handler or a finally callback runs, nothing
but the end of its frame can settle the promise it stands for, and `Budget` that
promises allocated, and the ones finallys will still allocate, are paid for by the
calls made, so that allocation stays inside `Ids`. The refinement of
`PromiseContract` follows from what a step keeps (`Keeps`): a settled promise stays
as it is, and a reaction is delivered once, with the outcome of its source.
Assumptions: `MaxCalls` is a natural number, promises, objects and plain values are
told apart and null is none of them (`KindsAssumption`), and a record is not null
(`NotNullAssumption`).

**AsyncFramesProofs**, for every set of values, any number of calls, frames and
inputs, and activations nested to any depth, in programs that call no method of a
generator that is running or awaiting (`~Overlap`, a hypothesis of the theorems: with
overlapping calls TLC refutes each of the three properties, see above; the run has
`Overlap = FALSE`). None of the three is inductive: what a body receives depends on
what the job that resumes it carries, and that on which promise the frame was listed
with. The invariant `Inv` is about who will resume a frame, and with what:

- `ReactionsOK`: a reaction is on the list of a pending promise, and its frame was
  suspended at an await of that very promise (`Waits`);
- `JobsOK`: a job carries the outcome of what its frame awaits (`Matches`), and no two
  jobs have the same frame. With `ReactionsOK`, a frame has at most one resumption: the
  promise of a reaction is pending, that of a job is settled;
- `StackOK`: the main program is at the bottom and nowhere else, a frame has one
  activation, and its result promise is pending, so that nothing else has answered
  for it; no exception is left in its mode unless a finally clause is running;
- `FramesOK`: result promises are allocated, differ, and are none that the program
  can settle itself, and a generator that has ended is in its completed state;
- `Answerable`: a frame that has answered has settled its promise, and one that has
  not is on the stack or has a resumption;
- `Counted`: allocation stays inside `Ids` and lists are no longer than the calls made.

In the middle of a step one frame is about to be answered, entered or suspended;
`InvBut(e, ...)` is the invariant without `Answerable` for this frame, so that a step is
a chain of lemmas, each about one of settling, listing, queueing, taking a job,
replacing a frame record, entering and leaving. The operations of the resume
machine (`SettleReturn`, `SettleYield`, `RejectTail`, `Abrupt`, `DeliverSent`, `Dispatch`,
`Advance`, `AwaitValue`) are composed from these, and every action from the
operations. Assumptions: those about kinds of values and `MaxCalls` above, the bounds are
natural numbers with no more inputs than calls, and an object is no number, which
keeps the values the program settles promises with apart from thenables.

**TimerLoopProofs**, for every clock resolution, every set of delays, every width
of the sleep and every number of timers, jobs and ticks. None of the checked
properties is inductive: `NeverEarly` speaks of the firings so far, and says nothing
about the deadline that allows the next one. `IndInv` adds `Books`, in which each
timer has an `Account`: the deadline of a live timer is its creation plus its delay
for every firing and one delay more, a timer without an interval is live only as
long as it has not fired, and a cleared slot is cancelled. A firing then needs
`deadline <= now <= clock` (`Place`), which is exactly one delay more than the
firings before it used (`FiringBalances`). `Place` also says that a callback's slot
is in the table, and that nothing is queued behind the second drain; that a sleep
ends in time rests on `NextDeadlineIsLeast` and `SleepIsShort`, the latter being
what survives the wrap to 32 bits: the sleep may be too short, never too long.
Assumptions: a millisecond is at least one tick, delays are natural numbers, the
sleep's modulus is positive and the bounds are natural numbers.

**StdinReactorProofs**, for every size of the buffer, every number of bytes,
listeners, calls and timers. `Counted` makes one sequence of what was given out,
what the Readable holds and what the reactor holds: the numbers from 1 to the
bytes taken. What the listeners hear is harder, because a listener may call
`resume()`, and so the pump, in the middle of an emission. The argument: the first
thing a pump does leaves nothing unread, and the descriptor is read only when
nothing is on the stack (`Drained`), so that while a chunk is emitted the stream
holds nothing (`Emission`); a nested pump then finds nothing to emit, there is at
most one chunk on the stack, and a listener not yet served has heard only earlier
bytes (`Hearing`). `Ended` says that a stream that has ended is empty and its
descriptor inactive, which is what `EndIsLast` needs of the pumps that still hold
an `atEof`. `Underway` is what it needs of the listeners: an emission that has
called none of them yet is at the top of the stack and not behind `end`, since
only a listener can pump again; so the first one was given every chunk before
`end`. A second one need not have been (`EndAfterDelivery`). Assumptions: the buffer has room for a byte, sizes are natural numbers,
`All` is none, the bounds are natural numbers.

**NodeEvalWorkerProofs**, for any number of requests, host requests and callbacks.
The core is `Turns`: as long as no callback was left behind, one of seven
situations holds while a request is open and unanswered (the request is sent, its code runs, a binding access is asked,
served or answered, a nested request is swallowed, the response is on its way), in
each of which one side has the turn or one message carries it and both ports are
otherwise empty. Only the outermost request is ever executed: a nested one reaches
a Worker that waits for a binding, which it does not answer (`Stacked`: ids differ,
and an inner frame never returns with a result). After closing nothing answers any
more (`Closed`). `SleepIsAnswered` is about the note, the post and the sleep of
`hostRequest()`, which are separate steps here: `BindingAnswered` says that an answer
in the port has changed the signal or is about to.
Assumptions: the bounds are natural numbers, `MaySpin` is a Boolean.

**MapRuntimeProofs**, for every set of keys and values, every initial size of the
vector and the buckets, and any number of entries and iterators. The inductive
invariant is `SoundTable`: there is a set of linked entries that has every live
one, each chain has exactly the linked entries of its bucket, in descending order
(`Linked`), and `liveCount` counts the live ones. Tombstones are in the set until the
next rehash, which is why it is not the set of live entries. `Linked` says of any two linked
entries of a bucket that the chain does not jump over the lower one; from this the
walk of a chain meets all of them (`ChainReaches`) and ends within `entryCount` steps
(`ChainStays`), and `__map_lookup_idx` answers rightly (`LookupSound`). The rehash is
shown by its loop invariant: after n turns the chains have the live entries before n
(`LinkTurn`). With the keys distinct (`Distinct`), lookups find the one place of a key
in the list; the eager vector and the list's entries are two recursions with the same
steps (`KeepsSame`), whose length is the number of live entries (`KeepsCounts`), so
that the vector of `liveCount` slots never overflows. The refinement has one lemma per
operation. What a loop computes for every table is proved by induction on its turns;
the induction is made from the well-foundedness of the natural numbers
(`LeastNat`, `UpTo`), and `Recursion` shows that the functions so defined exist.
Assumptions: sizes and bounds are natural numbers, `InitCap` is not zero, contents are
numbers, and null is no key, entry or pair. `TableIsSound` needs nothing else. The
other two suppose that no key is a view of a longer string (`Sliced = {}`; the run
`map_sliced_keys` shows what happens otherwise), and the refinement also that no map
is cleared under an iterator that has begun, the disagreement described above, and
that the entries are fewer than the cursor of an ended iterator, 2147483647.

TLC evaluates all these assumptions in the runs.

Only model-checked:

- every liveness property: liveness under fairness is out of the prover's reach;
- `CollectsInOrder` and `FirstDecides` of `PromiseCombinators`: its jobs have other
  shapes than the reactions of `PromiseRuntime`, so that `Placed` has to be stated
  again for them, together with a count of the elements that have not come in,
  and that is not done;
- `ListenersAgree` of `StdinReactor`: that one listener has heard the end of what
  another has heard is an induction over their registrations; not done;
- the async frames of programs with overlapping calls of one generator's methods,
  for which the properties do not hold;
- `HeapSound`, `ContentsKept` and `FindsWhatFits` of `HeapAllocator`: the walk over
  the headers is a recursion whose turns depend on what memory holds, so that its
  induction is over the blocks that a split or a merge changes; not done.

## Plan

Done: the queue with its refinement and proofs, promises with their contract and
proofs, combinators, async frames with their proofs, timers, standard input and the Worker
transport with their proofs, maps with their refinement and its proof, the heap. Program start
has no module of its own: it is the frame of the queue, the promises and the
timers.

Next, in this order:

1. Proofs: the invariants of `PromiseCombinators`, along the lines of
   `AsyncFramesProofs`: who will bring an element in, and with what.
2. `HeapSound`, after a description of the blocks by the set of their addresses,
   with the induction that `MapRuntimeProofs` uses for its loops.
3. Instance lifecycle and timer bridge of the host runtime; arenas.

## Not modelled

- The compiler proper (checker, IR, code generation, linker, bundler, optimiser)
  and the host imports: sequential, and their correctness is a statement about two
  language semantics. It is by far the most of the repository, so the share of all
  lines that these modules stand for is small, however completely the emitted
  runtime is modelled.
- Values: what a job computes, what a binding holds, remote handles and their
  encoding, error messages.
- Promises to which the program has assigned a `then` of their own, the Deno
  hooks, and promises that cross the host boundary.
- Of async frames: spilled variables, for-await loops (clients of the generator's
  methods) and the host backend, whose promises are the host's.
- Of combinators: how an argument that is no literal is iterated; what results, a
  vector or a failure, is modelled.
- Of standard input: encodings, and the prologues of other descriptors.
- Of maps: `groupBy`, the set algebra and the weak collections, which add no state
  to the table.
- Of the heap: statistics, and the overflow of the doubled region size near 2^31.
- The overflow of delays at 2^63 nanoseconds, and drains called by user code from
  inside a timer callback (`PromiseRuntime` and `MicrotaskQueue` have nested
  drains).
- An endless stream of host requests, which would postpone the host's deadline
  for ever: `MaxHostRequests` bounds it.
- Instance lifecycle, timer bridge, arenas and reference counts: see the plan.
- Host signals and clocks beyond what the fairness section says.
