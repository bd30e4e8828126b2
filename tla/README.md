# nexcore: TLA+ models, model checking and proofs

nexcore is a C++20 foundation library: containers, text, chrono and utility
types, a small concurrency layer (threads, executors, promises and futures), a
logging front end with the beginnings of a pipeline, and two adapters for
documents. This directory models its core logic. Paths below are relative to
the repository; `core/` stands for `include/nex/core/` or `src/core/`, `base/`
for `include/nex/base/` or `src/base/`, `infra/` for `include/nex/infra/` or
`src/infra/`.

1. [The system](#1-the-system)
2. [What models what](#2-what-models-what)
3. [The runs](#3-the-runs)
4. [Fairness](#4-fairness)
5. [The proofs](#5-the-proofs)
6. [Where code and documents disagree](#6-where-code-and-documents-disagree)
7. [What is not modelled](#7-what-is-not-modelled)
8. [Plan](#8-plan)

## 1. The system

| Part | State | Operations | Interacts with | What is hard, and what makes it correct |
| --- | --- | --- | --- | --- |
| `Promise`, `Future`, `FutureState` (`core/async.h`) | `ready_`, value or exception, mutex, condition variable, the shared `PromiseLifetime` | set value/exception, get, isReady, copy, move, destroy | tasks of the executors | notification after unlock, several setters, destruction of the last promise. One set wins, no getter sleeps for ever, the content never changes |
| `Thread` (`core/thread.h`, `thread.cpp`) | `Impl`: `std::jthread`, a stop source of its own, `running` | start, requestStop, join, detach, move, destroy | executors, `LogWorker` | the new thread runs before its handle is stored; restarts; detached tasks. One task at a time, stop requests reach the task they are for, the destructor returns; `isRunning()` is exact unless a `start()` threw |
| `ThreadExecutor`, `ThreadPool`, `InlineExecutor` (`core/executor.h`) | task queue under a mutex, the Thread(s) | execute, start, stop, destroy | callers through `async()`, Thread, Promise | stops racing with tasks, tasks that stop their own executor, restarts. Each task at most once, in order; every future resolves |
| `async()`, `AsyncTask` (`core/async.h`) | a Promise and a function | the call, `run()` | executor, Promise | `execute()` throws after the promise is shared |
| Log statement (`base/logging.*`, `base/charconv.h`) | a line of fixed size, the errno of its beginning | construct, `<<`, submit, destroy | pipeline, any caller | truncation, null operands, errno, the most negative integer. What a caller sees of errno; texts of numbers read back |
| Logging pipeline (`infra/logging/*`) | sequence counter, `LogQueue` with an overflow policy, `LogWorker` | submit, enqueue, dequeue, start, stop, destroy | any thread that logs | a queue at its limit; order; a queue used by two threads. Records are lost only to a full queue |
| `RingBuffer` (`core/containers/`) | storage, `head_`, `tail_`, `count_` | push, pop, clear, resize, copy, iterate | - | indices around the end of the storage, resize of a wrapped window. It is a bounded double-ended queue |
| Growth policies (`base/growth.h`) | - | `grow(current, required, max)` | every growing buffer | arithmetic that wraps; growth from tiny capacities; loops that end |
| `DynamicBuffer`, `SmallBuffer`, `FixedBuffer`, `Vec`, `SmallVec`, `Array` | raw storage, size, capacity | insert, erase, resize, assign, swap, fill ... | growth policies, memory helpers | exceptions in the middle, arguments that alias, inline and heap storage. Exactly the cells below the size hold objects |
| `BitArray`, `BitSet`, `BitSpan` (`core/containers/bit_*`, `core/view/bit_span.*`) | bytes or words, a number of bits; a window | set, flip, fill, resize, `&`, `^`, `~` and "or", shifts, search, slices | - | the partial last word, bits beyond the length, ranges whose sum wraps. A container is its bits, whatever the padding holds |
| `ByteArray`, `ByteSpan` (`core/containers/byte_array.*`, `core/view/byte_span.*`) | a buffer; a pointer and a size | edit, compare, search, slice, hex and Base64 | - | arguments that are the array itself, incomplete digits. The two classes agree; encodings read back |
| Encoding (`base/encoding.*`) | - | decode, encode, validate, count, convert | text classes | malformed input. Decoding inverts encoding; conversions agree, or fail where they must |
| `BasicString` (`base/string.h`), views (`base/string_view.h`, `core/text/string_view.h`) | characters and a NUL, inline or on the heap | append, insert, erase, replace, resize ...; find, compare, cut | growth | arguments that point into the string itself. The string reads what the calls say |
| Text functions (`core/text/algorithms.*`) | - | trim, split, replace, pad, case, quoting ... | encoding | bytes taken for characters |
| Raw memory (`base/memory.h`, `block.h`, `range.h`) | bytes; an address and a size | move, set, compare, search, align, cut | - | overlapping moves, ends of ranges that wrap. A block covers what it was cut to |
| Algorithms of ranges (`base/algorithm.h`, `base/math.h`) | - | copy, move, fill, replace, remove, swap, find, count | containers | destinations that overlap, values that refer into the range |
| Chrono (`core/chrono/*`) | a time of day, a duration, a date or an instant | arithmetic, component setters, text | each other | carries, month ends, leap years, time across midnight, instants before 1970. The classes measure the same time; texts read back |
| `RepeatPattern` (`core/repeat_pattern.h`) | frequency, days, snooze, count | `with...` builders | Chrono | clamping |
| `Property` (`core/property.h`) | value and callbacks | get, set, connect | observers | a callback that changes what it observes |
| `Json`, `Xml` (`infra/parser/*`) | a document, whether one is loaded | load, typed getters, nodes | third-party parsers | failed loads, values of another type or too wide, nodes that outlive their document |
| `Version`, `Uuid` (`core/metadata/version.*`, `core/metadata/uuid.*`) | numbers and suffixes; a pointer to 16 bytes | parse, print, pack, compare; generate | stduuid | widths of fields, variant bits, shared and missing `Impl` |
| `Rect`, `EdgeRect` (`core/math/geometry.*`) | a corner and a size; four edges | move, resize, normalise, rotate, intersect, unite | - | inverted rectangles. The two representations agree |
| `Color` (`core/painting/color.h`) | four channels in one word | pack, hex, blend, subtract, scale, interpolate | - | truncation and wrap-around of channels |
| Key combinations, `Result`, `Status`, `Error`, smart pointers, synchronisation wrappers | plain data or the standard library's | parse, compare, wrap | - | see section 7 |
| Meta-programming, macros, wrappers of the standard library | none at run time | - | - | - |

Every part is listed, with its files and its status, under `components` in
`PROJECT.json`; every hazard, at its line, under `hazards`.

The threads of the system are the callers of the API, the OS thread behind each
`Thread`, and nothing else. Executors and `LogWorker` hold a `Thread` each
(`ThreadPool` several) and give it a lambda that loops until
`Thread::stopRequested()`. Callers share a queue with it, under `queueMutex_`
in the executors and under nothing in the logging pipeline. A task submitted with
`async()` carries one copy of a `Promise`, the `async()` call keeps another one
until it returns.

The repository does not compile as it stands: the lambda of
`Thread::startWithTask` (`thread.cpp:181`) uses `impl_` without capturing
`this`, and `start()` is instantiated for a few callable types only. The models
take the code as it is meant: the members of the object that `start()` was called on.
`NEX_ASSERT` is compiled out except in debug builds; it is modelled as nothing.

## 2. What models what

A comment above each definition names the code; `map` in `PROJECT.json` gives
its lines. An action is what one thread does between two points where another
one can observe it: a critical section, an atomic access, a call that
blocks. Definitions introduced with "Mutated form" are not part of a model: each
is a bug that a change to the code could introduce, used to see that a property notices it.

| Module | Code | State and actions |
| --- | --- | --- |
| `FutureState` | `core/async.h:30-540` | one shared state (`ready`, `outcome`), Promise objects (`promise`, `lifetime`, `setter`), Future objects. Each critical section of `mutex_` is an action; `notify_all()` and dropping the lifetime come after it as steps of their own. Copy and move construction, destruction, spurious wake-ups |
| `OneShot` | - | what it promises: a cell that is filled once and emptied once |
| `Thread` | `core/thread.h`, `core/thread.cpp` | one `Thread` object (`shell`, `impl`), its owner (`start` step by step, `join`, `detach`, move construction and assignment, destructor) and the tasks it has spawned, numbered. `shell = "crashed"` absorbs every use of null or freed memory; a detached task that goes on to use a freed `Impl` either reads the old bytes or crashes |
| `ThreadExecutor` | `core/executor.cpp:10-75`, `core/async.h:456-560` | callers inside `async()`, the queue, the worker loop, the owner. Of Promise and Thread it keeps what matters here: outcome and copies that owe one; stop flag and join |
| `ThreadPool` | `core/executor.cpp:76-150` | the same with several workers on one queue, start/stop as loops over `threads_` |
| `Executor` | `core/executor.h` | what both promise: a submitted task runs at most once, on at most `Width` threads, and is given up only by the destruction |
| `LogPipeline` | `infra/logging/*` | producers (`submit()` split at the atomic counter), queue with the four policies, `LogWorker` and its owner |
| `LogStatement` | `base/logging.*`, `base/charconv.h` | one statement at a time: errno, the characters in its fixed line, what was submitted; operands of every type with the ways in which each fails |
| `RingBuffer` | `core/containers/details/ring_buffer_base.h`, `ring_buffer.h` | slots, `head_`, `tail_`, `count_`, an iterator; one action per member function |
| `BoundedDeque` | - | what it promises: a sequence with a maximal length |
| `Growth` | `base/growth.h`, `base/bit.h` (`bitCeil`), `base/buffer.h` (`reserve`, `grow`, `maxSize`) | a call of `grow()` on words of `Width` bits, the loops iteration by iteration |
| `Buffer` | `base/buffer.h`, the range helpers of `base/memory.h` | two objects of one class: cells that hold a value, a moved-from value, nothing or garbage, a size, inline or heap. A call has a set of outcomes: returned, threw, `broken` (objects and size no longer agree), `freed` (freed memory was read) |
| `Vec` | `core/containers/vector.h`, `small_vec.h`, `array.h` | the members of `Vec`, `SmallVec` and `Array` over a `Buffer` |
| `BitLayout` | shared by the three bit containers | a byte is the set of the offsets of its ones; counting, searching, sizes that wrap |
| `BitArray`, `BitSet`, `BitSpan` | `core/containers/bit_array.*`, `bit_set.h`, `core/view/bit_span.*` | the bytes or words with their padding and the number of bits, or the window; one action per member that changes them. `BitSet` and `BitSpan` stop when they write or look past their memory |
| `Bytes` | `core/containers/byte_array.*`, `core/view/byte_span.*` | the bytes of an array; digits, white space and padding signs of its texts |
| `Memory` | `base/memory.h`, `block.h`, `range.h` | a few bytes with their addresses, and a block of them that is cut by one range after another |
| `Algorithms` | `base/algorithm.h`, `base/math.h` | one array; every algorithm that writes, as the loop it is, with ranges that overlap |
| `Views`, `Str` | `base/string_view.h`, `core/text/string_view.h`; `base/string.h`, `core/text/string.h` | searches and cuts of a view; two strings with inline or heap storage, and arguments that lie in the string |
| `Encoding` | `base/encoding.*` | a text in code units of one of the forms; conversions are operators that may fail |
| `TextAlgorithms` | `core/text/algorithms.*` | a line of bytes that is rewritten |
| `ChronoValues`, `ChronoText` | `std::chrono`, `chrono_base.h`; the members and the texts of the chrono classes | operators only. A text is a record of what `fromString()` tells apart |
| `Chrono` | `core/chrono/*` | one object (`class`, `value`); an action is a mutating member or reading back the object's own text |
| `Property` | `core/property.h` | the value, the observer, and the stack of `set()` calls whose callbacks run |
| `RepeatPattern` | `core/repeat_pattern.h` | the fields of a pattern; one action per modifier |
| `Metadata` | `core/metadata/version.*`, `core/metadata/uuid.*` | a version with its packed word; UUIDs and the `Impl`s they share or lack |
| `Parsers` | `infra/parser/*` | a document as a tree, `loaded`, nodes that point into a document |
| `Geometry` | `core/math/geometry.*` | a rectangle as `Rect` and as `EdgeRect` on a grid |
| `Color` | `core/painting/color.h` | a colour; other formats and mixtures are operators |
| `*Proofs` | - | theorems about the module of that name. `ContainerProofs` has those about `RingBuffer` and about `Vec` with `Buffer`; `BitProofs` those about `BitArray`, `BitSet` and `BitSpan`; `ValueProofs` those about `Growth`, `Property`, `Str`, `RepeatPattern`, the UUIDs of `Metadata` and `Geometry` |
| `MC*` | - | constants for TLC. `MCContainers` and `MCValues` hold several components of a sequential library, one of which is active in a behaviour |

Decisions a reader should know of:

- **Thread.** The owner is one thread: `start`, `join` and the others are not
  called concurrently, as the class asks for; the tasks run beside it. `MaxStarts` bounds the number of
  starts. The kinds of task are one that returns by itself, one that polls
  `stopRequested()` and one that waits on its `StopToken`. After a move the
  module follows the one `Impl`, wherever it lives; the moved-from handle is null.
  A `start()` whose OS thread cannot be created (`SpawnFails`) throws after `running` was set and leaves it set: the object is
  `failed`, and later starts are refused. The executors, the pool and the log worker start their Threads without
  this failure; with it they would have no worker, as when they are not started.
  Move assignment onto a Thread frees the old `Impl`: it asks the `jthread` to stop by the `jthread`'s own
  flag and joins it, after the other members, the stop source among them, are destroyed. A task
  that is still running then finds their memory as it was or crashes (`UseFreedImpl`). What
  `setName`/`setPriority` do to the OS thread is left out; the
  component is `partly` modelled.
- **ThreadExecutor.** A `start()` refused because the worker is still up changes
  nothing and is no step.
- **ThreadPool.** `ThreadPool(n)` with n > 0 reserves from capacity 0, which
  does not end in a release build (section 6, `growth_empty`); the pool is modelled given
  a `Vec` that works. `Reallocate` (a second `start()`) and `Destroy` under live workers end in `object = "crashed"`.
- **LogPipeline.** Queue operations are atomic in the model although nothing in
  the code makes them so (section 6): what two at once do to a standard
  container is undefined, and the properties of the
  pipeline say what holds when they happen not to overlap. `process()` and `flush()`
  are the stubs they are in the code.
- **One object at a time.** Containers and values are code of one thread and do
  not call each other (where they do, the caller's module has the callee's
  effect). `MCContainers` and `MCValues` therefore choose the active component in the
  initial state (`subject`) and leave the variables of the others alone: the runs
  are the sum of the components' state spaces, and no property is lost.
- **Buffer, Vec.** Growth may choose any capacity that suffices, up to
  `MaxCapacity`, so that the results do not depend on the policy (`Growth` has
  the arithmetic). Arguments come from outside of the container, except where a
  member itself passes one of its elements on. A call whose exception leaves
  objects and size in disagreement ends in `broken`, from where nothing more
  is asked; the properties are about all other calls.
- **Chrono.** The calendar is the real one; the day has fewer hours, minutes
  and seconds, so that every carry happens within a few hundred ticks. A millisecond
  has two ticks because the setters drop what is below it. Members whose `NEX_ASSERT` asks for a valid date are called with one.
  Widths of integers, `isToday()` and the like, and forms of text that `toString()` never writes
  (`HHMM`, other separators, shorter fractions) are left out.
- **Bits, bytes, texts.** Widths are parameters (bits of a byte, of a Base64
  digit, of a version number, of a channel) because the code's arithmetic is uniform in them: a
  two-bit byte has a partial last byte as an eight-bit byte has. Code units of texts are the real
  ones, taken from the boundaries of the encoding tables.
- **Str.** `DoubleGrowth` is the result of the loop (the least doubling that is enough, or the
  maximum), so that the module can be proved about; `Growth` has the loop itself. An inline
  capacity is at least 1 and at most the maximum (`StrAssumption`).
- **Geometry, Color.** Coordinates are integers of a grid, factors are quarters:
  numbers that `float64` represents exactly. What rounding does is not said.
- **Parsers.** The parsers underneath are external: a load comes with its outcome, a document is a tree.
- **Growth.** The golden-ratio policy is excluded from `GrowReturns`: at
  capacity 1 its 13/8 rounds to 1, and 13 x capacity may wrap.

## 3. The runs

`tlc -config X.cfg Module`; sizes are distinct states.

| Run | Module, configuration | What it asks | Bounds and why they are enough |
| --- | --- | --- | --- |
| `futures` | `FutureState`, `FutureState.cfg` | no state is abandoned (`NoAbandonedFuture`), no wake-up is lost (`NoLostWakeup`), a blocked `get()` returns (`GetReturns`), one set wins and one `get()` takes it: refinement of `OneShot` | two Promise and two Future objects, 139 867: a race needs two setters or two getters; the proofs cover any number |
| `thread` | `MCThread`, `Thread.cfg` | one task at a time, and none but detached ones outlives the object (`TasksUnderControl`), stop requests that are neither lost nor inherited, a task that knows its own id, the destructor returns | two starts, each of which may throw, 4 330: every leftover of the first (joined, detached, still running, moved over) meets the second; the proofs cover any number |
| `executor` | `ThreadExecutor`, `ThreadExecutor.cfg` | FIFO and exactly once across restarts, who may get a broken promise and who the exception of `execute()` (`TasksAccounted`), refinement of `Executor`, every future resolves once the executor is destroyed, a queued task is run while nobody stops | three tasks, one stops its own executor, 25 036: one running, one queued, one being submitted |
| `pool` | `ThreadPool`, `ThreadPool.cfg` | shared queue in order, no worker leaves for a request to another (`PoolIsConsistent`), `stop()` returns, refinement of `Executor` | two workers (so `threads_.back()` is not every Thread), three tasks, 5 724 |
| `log` | `MCLogPipeline`, `LogPipeline.cfg` | records accounted for, order per producer, lost only to a full queue, processed while the worker runs | two producers with two records, up to two places, all policies, 194 540: overtaking and overflow both happen |
| `growth` | `MCGrowth`, `Growth.cfg` | the contract of `grow()` in spite of wrap-around, and its loops end | 6-bit words, every capacity, request and element size of 2..8 bytes, 21 670 |
| `containers` | `MCContainers`, `Containers.cfg` | ring buffer: indices and iterator in step (`IndicesAgree`, `CursorInStep`), refinement of `BoundedDeque`. Buffers: objects and size agree after calls that throw (`LifetimesMatchSize`), edits, copies, moves, swaps and equality are exact (`VecCalls`), a call that adds at the end or changes the storage and throws has no effect (`StrongGuarantee`). Bit containers against sets of indices (`BitsAreExact`); `ByteArray`, `ByteSpan` and their texts (`ArrayBytes`); algorithms and raw memory against what they say of the whole range (`RangeLoops`) | 62 532. Ring: four slots, two values, every window and every resize between 1 and 4. Buffers: two objects, three cells, two of them inline. Bits: two-bit bytes, five bits, capacities 1-4, 6 and 10, spans over three bytes. Bytes: four of three values. Arrays: four cells. Memory: five bytes, addresses below 32 |
| `values` | `MCValues`, `Values.cfg` | chrono: valid values, calendar, components, spans and texts (`Times`). Strings read what the calls said (`StringIsText`). Conversions decode and agree, a version survives its text (`Conversions`). Rewritten lines (`Lines`). A property's observer knows the current value (`ObserverIsCurrent`). Derived fields of repeat patterns (`PatternAgrees`). UUIDs own their `Impl` (`UuidsAreApart`). Documents (`Documents`). Rectangles and colours (`Graphics`). Log statements (`Statements`) | 128 054. Eleven years with and without leap days, days around the epoch and 2000, a day of 352 ticks; strings of a few characters around the inline limit; texts of up to three or four code units at every boundary of the tables; a grid of five by five points; three values per channel; integers of five bits. `MCValues` names each bound |
| `thread_token` | violation | a task watching its `StopToken` sees `requestStop()`: it does not | one start |
| `growth_empty` | violation | `reserve(n)` on an empty buffer returns: it does not under `DoubleGrowth` | capacity 0 |
| `vec_insert` | violation (`MCContainers`) | an insertion in the middle reads live memory only: of a full `Vec` it does not | two cells |
| `uuid_v7` | violation (`MCValues`) | `generateV7()` yields the layout of RFC 9562: bit 62 of the lower half is left as it was drawn | one UUID |

Deadlock is checked except where the system really stops: in `thread` a task that waits
for its `StopToken` may block `join()` for ever (that is the finding of
`thread_token`; `DestructorReturns` is therefore stated for objects without
such a task alive), in `growth` a buffer at its maximum has no next request, in
`containers` nothing follows a broken buffer, a view past its memory or a `BitSet` that wrote
past its words, in `values` nothing follows a call that never returns or that reads what is gone.

Names that end a chain of conjuncts (`TasksUnderControl`, `VecCalls`, `Graphics`
and the like) are defined next to their parts, each part with a comment of its own.

## 4. Fairness

Only weak fairness, and only of steps that a running thread takes by itself:

- `FutureState`: a Promise inside a set call or a destructor finishes it, and a
  notified getter gets the mutex eventually. Nobody is obliged to
  set a promise, but every Promise object is destroyed some day: C++ scopes end. Without that a
  getter could wait for ever, and rightly so.
- `Thread`: tasks that were spawned run; the owner finishes the call it is in.
  A polling task looks at the flag again and again. A task that watches a token is promised nothing.
- `ThreadExecutor`, `ThreadPool`: a caller inside `async()`, the worker loop,
  and the owner inside `start()`/`stop()`/the destructor go on. Tasks return.
  No one is obliged to submit, start, stop or destroy anything.
- `LogPipeline`: producers inside `submit()` and the worker loop go on.
- `Growth`: the loop is executed.

## 5. The proofs

Eight modules, checked with `tlapm`; every leaf is proved. The method is the same
throughout: an inductive invariant (`IInv`, `Inv`, or a name of its component), one lemma per
group of actions, and the theorem that a property of a run follows. Each such
invariant was checked with TLC on the run's instance before it was proved.

**`FutureStateProofs`** (any sets of promises, futures, values, errors).
`IInv` is the conjunction of the type invariant, `NoAbandonedFuture`,
`NoLostWakeup`, `OneSatisfier`, `DeliveredOnce`, and two parts that make these
inductive: who holds the `PromiseLifetime` at each program point
(`LifetimeInv`), and that a true `isReady()` stays true (`PolledInv`). A promise
that is past its set but has yet to notify, and a thread inside
`~PromiseLifetime`, are the two witnesses from which the first two follow.
`RefinesOneShot` maps `ready` and the outcome to the one-shot cell: a set is
a `Fill`, a `get()` that returns a `Serve`, everything else a stutter. It is the safety part of
`ImplementsOneShot`, which also asks for liveness.

**`ThreadProofs`** (any number of starts; `TasksAreControlled` states the
property of the run). `IInv` has `RunningExact`, about objects no `start()` of which has thrown, and
`StopNotInherited`, and what they need: only the latest task can be alive
(`SpawnInv`); the `jthread` stands for it except while `start()` has yet to
assign it, and older ones were detached (`HandleInv`); a stop flag belongs to
the latest start (`StopInv`). `running` is set before the spawn and
cleared by that task alone, so that "one task at a time" survives detached
tasks and restarts. `StartDoesNotBlock` is the
fact about the assignment of the `jthread`: whatever is joined there has already ended.
Move assignment is two actions, the request with the destruction of the members and the return after the join;
from the second on the object is dead, as after `~Thread()`.

**`ThreadExecutorProofs`** (any set of tasks, any number of stops and restarts).
`TasksAccounted` is not inductive: that a task is broken only if it was never taken
depends on who still holds a copy of its Promise. `PromiseInv` says so for each point of
`async()` and each place of the task, and it is from there that a throw of `execute()` reaches the future and not a broken promise; `QueueInv` that a task is queued or
taken, not both, and pushed by its own call; `DeathInv` that nobody is inside
an executor that is gone. `RefinesExecutor` follows from the same
invariant: taking a task is a `Begin` of `Executor` with one thread, the end of its `run()`, by value or by
exception, an `End`, the destruction of the queue a `Discard`; the rest stutters.

**`ThreadPoolProofs`** (any number of workers and tasks). Every worker looks at the
stop flag of `threads_.back()` (`executor.cpp:95`), yet `NobodyLeavesEarly` holds. The reason is in
two parts of the invariant: while `start()` is adding Threads nobody has been
asked to stop (`StartInv`), and `stop()` asks in the order of
`threads_`, so that the last one is asked last (`FlagInv`). `QueueInv` is that no two workers hold one task.
`RefinesExecutor` maps the pool to `Executor` with `Capacity` threads.

**`LogPipelineProofs`** (any number of producers and records, any capacity, all
four policies). The invariant is about one sequence, the `Line`: what was processed, what
the worker holds, what is queued. Every record is with its producer, in the line or lost
(`PlaceInv`); a producer holds only the last record it made (`HeldInv`); and the
numbers of each producer ascend along the line (`Ascending`). The hard step is `DropOldest`: the front of the
queue is in the middle of the line, and taking it out must leave uniqueness and order as they are. `NoLossWhileRoom` is
the action property.

**`ContainerProofs`**, its first part on `RingBuffer` (any capacity). `head_`, `tail_`, `count_` describe one window, and the
index and distance an iterator keeps never drift apart; these are inductive with
the type invariant, on lemmas about modular arithmetic. `RefinesDeque` then shows
that the window of slots is the sequence of `BoundedDeque`: what a push, a pop, an
overwriting push of a full buffer, a `clear()` and the relocation in `resize()` do
to the window are lemmas (`Window...`), one more lemma per operation maps it.

The second part of `ContainerProofs` is about `BuffersSpec`, the buffers with the members of
`Vec`, `SmallVec` and `Array` (any elements, capacities and lengths of arguments, any element operation
throwing anywhere). The inductive invariant `BuffersInv` says that both objects are in the set `Buffers`
as long as no call was undefined or broke one: the cells below the size hold objects, the cells from
there on are raw, what is not on the heap has the inline capacity. Each operator has a
lemma (`ReserveSafe`, `EmplaceSafe`, `EraseSafe`, `SwapSafe` ...): called with a member
of `Buffers` and arguments within its precondition, each of its outcomes is a member again, unless it is
`broken` or `freed`. `LifetimesAlwaysMatchSize` follows. Loops over cells are written as what they do to
each cell, so that most lemmas are about one cell. The three loops whose steps may each throw or grow the buffer (`PushAll`,
`InsertRange`, `RemoveAllOf`) are recursive functions: `Recursion` and `RecursionWithin` show that such a
function exists and stays within given sets, both by the least index at which it would not. `ThrowingUndoesAdditions` is
the strong guarantee of `reserve`, `resize`, `append` and `shrink_to_fit`. It needs that moving an
element does not throw, which is its premise in the property too: relocation then always returns
(`RelocationHolds`), and each throw comes before the first element of the call is part of the object.

**`ValueProofs`**, on the components that work alone.
`Growth` (words of any width): two hypotheses are needed and are
stated as such, `IncrementFits` (the increment of `LinearGrowth` does not exceed
the maximum, else `threshold` wraps below zero) and `PowerFits` (a power of two at or above the maximum is representable).
`Property` (any depth of nesting): `ObserverIsCurrent` needs only that frames exist while a callback is set.
`Str` (any alphabet, inline capacity, maximum and length): `Holds` says of one string that its storage
reads its text, is terminated and owns the block it uses. Each helper of the class keeps it
(`ReserveHolds`, `CutHolds`, `AppendHolds`, `ReplaceHolds` ...). The hard case is an
argument that lies in the string that is changed: `ReadsSource` shows that its
characters are the ones the caller meant, reallocated or not, at the moment they are copied.
`RepeatPattern` (any limits of interval, count and cap): `PatternInv` says that a pattern is enabled exactly when
it has a frequency, and that a daily one has every day. Neither is established by one place of the code: each of
the eight `with...` members keeps its part, and those for days in either order give the same pattern.
`Metadata` (any number of objects and addresses, any bits): `UuidInv` says that an `Impl` in use has exactly one
owner and that the others are free; `UuidsAreAlwaysApart` adds the bytes of `generateV7()` (`SevenIsTimeOrdered`).
`Geometry` (any set of whole coordinates with 0, any rectangles to combine with): the invariants only keep
numbers whole and edges on the grid; the work is in the lemmas. `TwoRectangles` says what the points of an intersection and
a union are, `HalfTurnIsNone` and `FourTurnsAreNone` follow the corners through rotations, `SideMovesBack`
is a margin undone on one axis. `EdgesAreAlwaysPoints` and `RectsAreAlwaysEdges` name the parts
of `Graphics` that are about rectangles; the run evaluates these only where rectangles move.

**`BitProofs`** (any width of a byte, any sizes and capacities) proves the three parts of `BitsAreExact`, each under the
specification of its class (`ArraySpec`, `SpanSpec`, `SetSpec`) and then together under that of the run.
The parts compare the call with the string of the bits, so the invariants
only need to exclude what the string does not show. `ArrayInv`: as many bytes as the bits need, and a clear
padding, without which counting, comparing and growing would see bits that are not there (`PaddingIsAlwaysClear`).
`SpanInv`: a view begins at its window's first bit, inside the memory. `SetInv`: a set whose words fit has
its capacity and no bit beyond it. A call is
proved in three steps: the arithmetic of byte and offset for one bit, then that each bit of the result is
what the string says, then that nothing is set behind the last one. Three assumptions are used: the sizes that
arise are below the greatest value of their type (`ArrayAssumption`, `SpanAssumption`: more could not be
allocated), and a capacity is not zero (`SetAssumption`: `bit_set.h:44`). Of `resize()` with true bits over the end of the last byte only what the code and its documents agree on is said (`ResizesTo`). A `BitSet` whose
words do not fit is outside the theorem as it is outside the property: section 6 says what it does.

The proofs of the two executors and of the pipeline open with the lemmas they need about sequences: elements,
uniqueness and order under `Append`, `Tail` and concatenation.

Only model-checked:

- everything under fairness (`GetReturns`, `DestructorReturns`, `DestructionResolves`, `QueuedIsRun`, `StopReturns`,
  `QueuedIsProcessed`, that `grow()`'s loops end): liveness and ENABLED are out of the prover's reach;
- what the elements of a buffer are after a call that returned (`VecCalls`), the algorithms and raw memory: their loops are folds over
  the cells, and what a fold computes for every length is an induction over data;
- byte containers, encodings and lines, chrono, versions, documents,
  colours and log statements. Many of these are recursive operators or folds; those that are not are
  left for later (section 8).

## 6. Where code and documents disagree

The four violation runs, with their quotations, are in `findings`. Met while
modelling, and part of the models, but without a run of their own. The models do what the code does; the passing
properties do not assert the part that is contradicted: the bound of the log queue excepts `Grow` (`LogPipeline!TypeOK`),
`resize()` is described by `ResizesTo`, aliased values up to their cell (`LoopsAreExact`), UUIDs by what they own and not by what `==` answers on copies
(`UuidsAreApart`), `isRunning()` as long as no `start()` has thrown (`RunningExact`).

- `thread.cpp:175` says `getId()` is valid inside the task; the handle is
  assigned only after the thread was spawned (`OwnIdAfterStart` says what holds).
- `thread.cpp:176-179`: `running` is set before the OS thread is created; if that throws, `isRunning()` stays true without a task and no later `start()` is accepted.
- `thread.cpp:183` applies the priority through the same handle, so possibly to another thread.
- `thread.h:223`: a detached task uses an `Impl` that `~Thread()` frees.
- `thread.h:178-180`: a moved-from `Thread` has a null `impl_`, which the destructor dereferences.
- `executor.h:76`: `start()` soon after a task stopped its own executor is refused in silence.
- `executor.h:110`: a second `start()` of a pool reallocates `threads_` under the workers.
- `executor.cpp:80-85`: a pool has no destructor and frees queue and mutex before it joins.
- `config.h:52,55`: the `Block` policy loses records, `Grow` (`queue.h:77`) loses them too and never passes the capacity.
- `worker.h:39,58`: `flush()` does nothing; the last processed number can go back.
- `backend.cpp:86-88`: the assertion on the size after `enqueue()` fails when the worker is quick or the queue full.
- `ring_buffer_base.h:137`: `clear()` destroys the live window only; slots freed by a pop keep their old bytes.
- `config.h:54` says `DropOldest` keeps the newest entries: it drops the oldest and the new one.
- `queue.h:21` says "thread-safe queue": it has no lock, and callers have none either.
- `executor.h:60-61` says `stop()` lets the remaining tasks finish: the worker leaves at its next look at the flag (`executor.cpp:41-43`).
- `buffer.h`: `resize()` and `appendMove()` construct without a guard, and a throw leaves objects beyond the size;
  `SmallBuffer::shrinkToFit()` hands its inline storage to `operator delete` when a move throws; `remove()` with moves that throw leaves
  destroyed cells inside the size; a copy constructor that throws leaks; `swap()` is called free of exceptions and loses elements if a move throws.
- `date_time.h`: before 1970 `hour()` "(0-23)" and the others are negative, and `setMinute()` moves the date; `toString()` prints the minus signs and
  `fromString()` reads none of it. Years below 1000 are written with fewer than the four digits that are read.
- `date.h`: `-=` with "the whole-day portion of a time span" goes back by the days the span has begun: 36 hours are two.
- `timespan.cpp`: `toString()` leaves out parts that are zero, `fromString()` reads such words as seconds: "1 day" becomes one second.
- `growth.h`: the golden ratio does not enlarge a capacity of 1; `LinearGrowth` wraps when the maximum is below its increment.
- `async.h`: `setException(nullptr)` is stored as a broken promise.
- `thread.cpp:258-262`: `setName()` of a running Thread renames the thread that calls it (`pthread_self()`); `setPriority()` of a detached
  one uses an empty handle. Move assignment over a running Thread makes no `requestStop()` before the members go.
- `array.h`: the size is "fixed at compile time", but `Array()` has size 0 and `Array(n)` size n; `fill()` and list assignment write
  beyond it without changing it; `==` looks at the left size only.
- `bit_array.cpp`: `resize(n, true)` across a byte boundary leaves the rest of the old last byte false, against "fill new bits" (lines 96-98); `&=` with a shorter array keeps the
  surplus bytes; `fill(v, start, npos)` wraps and fills nothing.
- `bit_set.h:100`: `clearUnusedBits()` takes a byte index for a word index, and shifts 32-bit values; `all()` is false for capacities that
  do not fill the word; the sum in `mid()` (line 478) wraps for a huge count, and the loop then runs over it; the comment of `findFirst()` promises `Capacity`, the code returns `npos`.
- `byte_array.cpp`: appending or prepending an array to itself does nothing; Base64 reads white space as zeros; searching for nothing gives
  `npos` in `ByteArray` and the position in `ByteSpan`.
- `string_view.h`: `find("")` fails at the end although `startsWith("")` holds; `findLastOf` of an empty set returns a position beyond the end.
  `core/text/string.h:596`: `operator+(view, string)` calls itself for ever.
- `encoding.cpp`: overlong forms, surrogates and values beyond U+10FFFF are valid to `isValidUtf8()`; `countUtf8CodePoints()` never looks at
  continuation bytes; narrow conversions end at the first NUL.
- `block.h:113`: a range whose start plus length wraps passes the test, and the part is longer than its block. `range.h:120`: empty ranges may intersect.
- `core/text/algorithms.cpp`: `erase(s, "")` and `replace(s, "", r)` do not return; the ellipsis of `truncate()` is narrowed to `&`;
  `squashSpaces()` damages the second byte of "à"; `normalizeSpaces()` trims blanks only; `split()` drops an empty last piece.
- `version.*`: numbers above 65535 are cut before they are checked; `stoi` may throw in a `noexcept` function; a marker with nothing behind it
  is accepted; comparison ignores the pre-release; `fromPacked(0)` is valid where the text "0.0.0" is not.
- `uuid.h:98` compares pointers; a moved-from `Uuid` has none; the assertion of `generateV7()` (`uuid.cpp:144`) expects another version.
- `json.cpp`: a failed load keeps the old document and still says it is loaded; integers keep their low 32 bits. `xml.cpp`: a failed parse
  empties the document, an empty text leaves it.
- `geometry.h`: `canonicalRect()` takes the absolute width but keeps x, so an inverted `Rect` does not contain its own corners, and
  `normalize()`, `rotate()`, `setSize()` differ from `EdgeRect`; disjoint rectangles intersect in the point (0, 0).
- `algorithm.h`: `replace()` and `remove()` with a value that refers to a cell of the range change their meaning once it is overwritten;
  `equal(range, range, pred)` calls an overload that does not exist.
- `logging.cpp:265-268`: a null C string reaches `strlen` before the check for null; a number that does not fit leaves nothing in the line without
  a sign of it; a submitted statement restores the errno of its beginning over one that its own operands set, a disabled one restores nothing.
- `color.h:734-751`: blending two nearly transparent colours may exceed both (red 100 over red 100 with alpha 1 each: 199); `fromHex()` accepts
  what `stoul` does, signs and "0x" among it; `toHex()` drops alpha.

## 7. What is not modelled

- **No behaviour at run time.** Templates, concepts, traits, limits and macros (`base/meta.h`, `type_traits.h`, `limits.h`, `types.h`, `attributes.h`,
  `compiler.h` ...): the compiler decides them. The largest file of the repository, `thirdparty/nlohmann/json.hpp` (25 526 lines), and `stduuid` are
  other people's. Together with thin wrappers of the standard library (`pair`, `tuple`, `span`, `iterator`, smart
  pointers, mutexes, atomics) they are the greater part of the lines; `map` covers an eighth of all lines, and most of what is
  left has no state or control to model.
- **No defined behaviour.** Key combinations: the parser keeps views of temporary strings, and `fromString(StringView)` calls itself.
  The counting functions and rotations of `bit.h` call the constant `NumericLimits::digits` like a function; `Growth` takes `bitCeil()` as it is meant.
  `Result`: several accessors do not compile when they are instantiated, and nothing changes its state but assignment of the variant underneath.
- **Not representable.** Colour spaces, vectors, matrices and rotations in floating point; `isToday()`, `now()`, time stamps and random bits are inputs.
- **One operation per field.** `Point`, `Size`, the getters of every class, the label of a pattern: a model would repeat the code line by line.
- **Empty or unused in the code.** `config.cpp`, `formatter.*`, `logger.*`, `sink.*`, `backend.h` of the logging component; `LogCommand`; the stubs of
  the regular expressions.
- **Left for later** (section 8): names and priorities of threads, forms of date texts that `toString()` never writes, `Vec`'s searches.

Part by part, with the reason, in the notes under `components`.

## 8. Plan

Done: the concurrency layer, logging with its front end, ring buffer, growth, buffers and
vectors, chrono; bit and byte containers, strings, views, encodings, text functions,
algorithms; `Property`, `RepeatPattern`, versions, UUIDs, documents, rectangles, colours.

Proved: the futures, `Thread`, both executors with their refinement, the logging
pipeline, the ring buffer with its refinement, the lifetimes in the buffers and vectors and their strong guarantee,
growth, `Property`, strings, repeat patterns, UUIDs, rectangles, bit arrays, sets and spans.

What could follow, in this order:

1. The parts of `VecCalls` that are not folds: copies, moves and swaps.
2. `Bytes`: the edits of `ByteArray`; its texts use folds and stay with TLC.
3. Model: the items left for later above.
