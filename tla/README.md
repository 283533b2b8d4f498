# A verification project for ts-aot

ts-aot compiles TypeScript and JavaScript ahead of time, through an intermediate representation (HIR)
and LLVM, to a native program linked with a runtime library.  What is hard to get right is
a moving garbage collector under code that keeps raw pointers, promises whose `await` pumps the event
loop on the native stack, collections that are changed while they are walked, and a stack of `setjmp`
handlers that compiled code has to keep balanced across break, return, yield and exceptions.  The project models those parts in TLA+, checks them
with TLC on small instances, and proves the central properties with TLAPS.  Paths are relative to `src/`.

## The system

### Components

| Component (code) | State | Operations | What makes it correct | Status |
|---|---|---|---|---|
| Garbage collector (`src/runtime/src/TsGC.cpp`, `GCRoots.cpp`, `StackMap.cpp`) | nursery with size/pin/mark prefixes and fragments, old generation blocks and bitmaps, forwarding table, root, scanner and fixup lists, card table | `ts_gc_alloc`, `ts_gc_alloc_old_gen`, full and minor collection, write barrier, registrations | nothing live is freed, no stale pointer, one copy per object, invisible to the program | `GCHeap`, `ObjectGraph` |
| Weak references, finalizers (`TsGC.cpp:1149-1274`, `TsWeakRef.cpp`) | weak locations, finalizer entries, pending callbacks | registration, processing in the full collection, callbacks | cleared when and only when the target died; a held value stays alive | planned |
| Promises (`TsPromise.cpp`) | per promise: state, value, handled flag, callbacks | construction, `then`, resolve, reject, adoption, `await` | reactions once and in order, settled for good, adoption | `PromiseJobs` |
| Combinators (`TsPromise.cpp:2453-3424`) | count of elements, results, called-flags | `all`, `race`, `any`, `allSettled`, their helper functions | finished once, when all have answered, with a result for each | `Combinator`, `Join` |
| Generators (`TsPromise.cpp:300-1520`, `HIRToLLVM_ControlFlow.cpp`, `HIRToLLVM_Functions.cpp`) | resumption state, request queue, delegate, completion | `next`, `return`, `throw`; `yield`, `yield*`, return and throw of the body | requests answered in order, each once; handlers balanced | `Generator` |
| Event loop (`EventLoop.cpp`) | microtask vector and drain position, live timers, libuv's loop | queueing, draining, timers, `ts_loop_run` | FIFO, nothing lost in nested drains; timers closed once | queue: `PromiseJobs`; timers planned |
| Exceptions (`Core.cpp`) | stack of `setjmp` buffers, pending exception | push, pop, `ts_throw` | unwinds to the right frame | `PromiseJobs`, `Generator`, `Statements`, each for its frames |
| Lowering of statements (`ASTToHIR_Statements.cpp`) | depths of try and with, stacks of finally blocks, loops and iterators; per try an allocated completion | `try`, loops, `switch`, `with`; `break`, `continue`, `return`, `throw` | finally blocks run, handlers and scopes are those of the place reached | `Statements`, `Completions` |
| Hash table, Map, Set (`TsHashTable.h`, `TsMap.cpp`, `TsSet.cpp`) | control bytes, entries, counters, insertion numbers | set, delete, clear, rehash, live cursor, `forEach` | an ordered map, whatever its layout | `HashTable`, `OrderedMap`, `MapForEach` |
| Object model, Proxy, closures, arrays, strings, numbers, dates, RegExp, JSON, Temporal | values | library functions | language semantics | not modelled: data rather than control, covered by test262 |
| Built-in iterators, event emitter, module cache (`TsIterator.cpp`, `TsEventEmitter.cpp`, `TsObject_Module.cpp`) | cursors, listener lists, exports in progress | `next`; `on`, `once`, `emit`; `require` | changes during a walk, cycles | planned |
| Interpreter for `eval` (`interp/`) | environments | evaluation | language semantics | not modelled |
| Parser, AST, analyzer, monomorphizer, module resolver, lowering of expressions, HIR passes, code generation, linker, driver (`src/compiler/`) | trees | translation | meaning preserved | not modelled: no protocol to check, and program semantics are out of TLC's reach |
| Node modules (`extensions/node/`: streams, net, http, http2, fetch, fs, zlib, crypto, child_process, cluster, ...) | libuv handles, buffers | callbacks of libuv | order of data, end, error, close; backpressure | planned: streams; the rest is thin or pure I/O |

### How they interact

Compiled code calls the runtime directly; there is one thread.  Every allocation may run a minor
collection, which moves nursery objects; runtime structures that hold pointers outside the heap
(microtask queue, timers, pending promises, handle tables) register a scanner and a minor fixup
with the collector.  Promises put jobs on the microtask queue; the loop drains it and polls libuv; an
`await` does the same in a loop of its own (`ts_promise_await`) below which the waiting function stays
on the stack.  An exception is a `longjmp` to the topmost handler, wherever on the stack that is; the
compiler emits the pushes and pops, for try statements, for the bodies of for-of loops and for each
invocation of an async generator.  A generator's body is a function that returns at a yield and is called
again by a request; the runtime queues the requests of async generators and answers them with promises.
A hash table lives in the old generation; keys that are objects are hashed by their address.

### What is hard, and where it is checked

`PROJECT.json` lists every hazard at its line.  The groups:

* *a moving collector* - pointers on the stack cannot be rewritten, holders in five kinds of places
  must be, a promotion may fail half-way (`gc_heap`);
* *jobs inside jobs* - an await pumps the queue inside a job, and exceptions leave such pumps
  and the jobs below them (`promise_jobs`, `promise_unwind`);
* *once and in order* - reactions registered before, while and after a promise settles
  (`promise_jobs`), adoption racing with a second settlement and user code that runs in the middle
  of resolving a promise (`promise_once`), elements that answer a
  combinator early, twice or never (`combinator`), requests made while a generator runs (`generator`);
* *a stack of handlers* - balanced by the compiler across suspensions (`generator`) and jumps
  (`statements`, `statements_break`, `statements_finally`);
* *something must happen* - reactions of a settled promise (`promise_jobs`);
* *limits* - tombstones, growth and compaction (`hash_table`);
* *stale views* - hashes of moved keys (`set_moved`), slots collected before a callback (`map_foreach`).

## Modules

| Module | Models |
|---|---|
| `ObjectGraph` | the promise of the memory manager: a graph of objects without addresses |
| `GCHeap` | the generational collector, phase by phase; implements `ObjectGraph` |
| `GCHeapProofs` | its inductive invariant and theorems |
| `GCGraphProofs` | the refinement of `ObjectGraph` |
| `PromiseJobs` | promises, microtasks, the loop and await on one native stack |
| `PromiseProofs` | its inductive invariant and theorems |
| `Join` | the promise of a combinator: members answer, the last one or a single one decides |
| `Combinator` | the four combinators on their three paths; implements `Join` |
| `CombinatorProofs` | its inductive invariant, theorems and the refinement |
| `Generator` | a generator, its requests and its handlers |
| `GeneratorProofs` | its inductive invariant and theorems |
| `Completions` | the promise of statements: completions pass finally blocks on the way to their target |
| `Statements` | lowered statements, executed; implements `Completions` |
| `StatementsProofs` | its inductive invariant and theorems |
| `CompletionsProofs` | the refinement of `Completions` |
| `OrderedMap` | the promise of Map and Set: a list of keys and a walk along it |
| `HashTable` | the open-addressing table and the `forEach` of Set; implements `OrderedMap` |
| `HashTableProofs` | its inductive invariant, theorems and the refinement |
| `MapForEach` | the `forEach` of Map, on `HashTable` |
| `MCGCHeap`, `MCPromiseJobs`, `MCHashTable`, `MCMapForEach` | instances for TLC |

### GCHeap

A heap is a set of cells, `Nursery` and `OldGen`; `live` is what the allocator considers used, `ref` the
contents, `owner` a ghost identity that travels with the contents when an object is copied.
Words are the native `Stack`, the locations given to `ts_gc_register_root` (`Global`) and words of
runtime structures with scanner and fixup callbacks (`Registry`).  `phase` says which part of
the collector runs next; the mutator runs in phase `"mutator"` only, as the collector stops it.

| Action | Code |
|---|---|
| `AllocNursery`, `AllocOldGen` | `ts_gc_alloc`, `ts_gc_alloc_old_gen`; the collections they trigger are enabled at any time |
| `Store` | a store with its `ts_gc_write_barrier` (which only dirties a card) |
| `FullCollect`, `Mark`, `Sweep` | `gc_mark_phase`, its worklist loop, `gc_sweep_phase` |
| `PinStack` | Phase 0, `gc_pin_nursery_stack_roots` |
| `MarkMinorRoots`, `MinorMark`, `StartPromotion` | Phase 0b, `gc_mark_nursery_live` |
| `Promote`, `PromoteFails`, `FixPromoted`, `FixPinned`, `FixOldGen`, `FixGlobals`, `FixRegistries` | Phases 1, 1 out of memory, 2, 2b, 3 and 3b, 4, 4b |
| `ResetNursery` | Phases 6 and 7 |

Abstractions: sizes, size classes, blocks and fragments (a cell is an object); cards (every scan in the
code is a full one); conservative scanning is kept, as a set of spurious marks or pins, for the roots of both
collections and for the words of the old generation a minor one scans.  Fields hold references only: a data word that looks like
an address of the nursery, and that a fixup would rewrite, is left out.
Assumption: the scans of Phase 0 see every stack word and register that holds a reference.
The code itself tenures object literals, closures and cells because it does not trust this
(`TsFlatObject.cpp:84-89`); the model says what follows when it holds.  `INV1` is the check the
code performs itself in Phase 5v.

### PromiseJobs

`state`, `value`, `handled`, `callbacks` are the fields of `TsPromise`; `queue` is the part of `microtasks`
that has not run (the drain position separates it from what has).  `stack` is the native stack: a `pump` frame is
a drain-and-poll loop, the bottom one `ts_loop_run` and the others `ts_promise_await`; a `reactions` frame is
`ts_promise_settle_microtask` or `ts_promise_callback_microtask` in the middle of its work; a `user` frame is
JavaScript, which may create, chain, settle and await promises, return and throw in any order.
`ThrowUncaught` is `ts_throw` where no handler of the runtime is in between: it unwinds to the async
function whose await pumps, or ends the process.

Resolving a promise with another object, or with a promise whose prototype is its own (`Derived`), looks up
its "then", and an accessor runs user code there, between the check that the promise is pending and
the lines that settle it.  So `ResolveInternal` ends with a `lookup` frame, in which user code may do all that it may
do elsewhere, and `EndLookup` goes on from there without a second check, as the code does: a function found is called by a job of its
own, a promise without one is adopted, another object becomes the value.  An exception of an object's accessor rejects the promise (`ThrowLookup`);
the lookup in a promise has no handler, so its exception goes to the caller of the resolving function
(`ThrowToCaller`), or, where a handler's result is looked into, through the job (`ThrowThroughReactions`).

The loop of the settle job walks the promise's own vector of callbacks, which nobody changes while it is settled
once: a settled promise gets reaction jobs.  The frame therefore has a copy, `left`.  An overwritten promise has a second
settle job, which an await in a reaction may run inside the first: it walks the same elements and clears the vector,
and the first loop goes on over what it was given.

`registered`, `ran`, `first`, `again`, `overwritten`, `cut` are history: the last two name the promises that a lookup
settled although they were settled, and those whose reactions such an exception cut off.
Adopting a promise is a reaction without handlers whose derived promise is the adopter; the two helper
functions of the code have that effect, and nobody holds the promise derived from them.

### Combinator

One call of one combinator.  `path` tells the three implementations apart: `ts_promise_combinator_spec` for
receivers other than the builtin Promise, `ts_promise_all` and its three companions for arrays, and the
drain of `ts_promise_any` for other iterables.  `handed` counts the elements whose functions have been given away,
`remaining` is the code's counter, `called` the flags of `SpecElemCtx` (and, on the other paths,
the elements counted, as history).  The iteration is a sequence of calls of user code, so `Call`, a function
of an element being called, may happen between any two of its steps and inside an element's `then`.
An element that is a promise calls one function, later; a `Thenable` one calls what it likes as often as it likes.
`OverriddenResolve` is a user who replaced `Promise.resolve` by a function that returns thenables, which
reaches the unguarded helper of the drain; the run and the theorems assume it is not so.

### Generator

`handlers` is the runtime's handler stack from the caller's handler on, `scopes` the try statements around the
place where the body is, `point` the state number in `AsyncContext`, reduced to what the code
branches on: start, a plain yield, a `yield*`.  `queue`, `at`, `executing` are the request queue of
`agen_enqueue_request` and its drain; `current` is `pendingNextPromise`.  `answers` is history.

| Action | Code |
|---|---|
| `Request` | `next`, `return`, `throw`: `TsGenerator::next`, `Generator_return`, `Generator_throw`, `AsyncGenerator_*` with `agen_enqueue_request` and `agen_drive_request` |
| `DrainNext`, `EndDrain` | the loop of `agen_enqueue_request` |
| `EnterTry`, `LeaveTry`, `BodyThrows`, `Yield`, `BodyReturns` | the body: `lowerSetupTry`, `lowerPopHandler`, `ts_throw`, `lowerYield`, `lowerReturn` |
| `DelegateTo`, `Delegate...` | `lowerYieldStar` and `ts_agen_delegate_step`, `ts_agen_delegate_resume`, `ts_gen_delegate_resume` |

Requests are possible whenever code other than the runtime runs, also from the body and its delegate.
Assumption: the caller of a sync generator that is left by an exception has a handler of its own again.

### Statements

A state is a place in some program: `nest` lists the constructs around the statement that runs, each with the
variables the compiler allocates for it (`disc`, `val` of `FinallyContext`, `exc` for the pending exception, and the
state of a for-of's iterator).  The lowering's counters (`tryDepth_`, `withDepth_`, `finallyStack_`,
`forofIterStack_`) are functions of `nest`; the emitted pops, pushes and branches are the actions.
`Open`, `Complete` and `StatementThrows` are enabled at every statement, so the runs cover every
program of at most `MaxNest` nested constructs.  `FinallyContext` numbers the targets of jumps; the model names the construct itself.
`Tidy` are the jumps after which the code is in order: `AllJumps = FALSE` restricts the program to them,
since a direct break of a loop inside a try loses the handler at once (`statements_break`), and everything
after it is about handlers of dead frames.  Labels of blocks that are no loops, and generators, are left out.
A return closes the iterators of the loops it leaves while their handlers are still pushed (`CloseOne`), so an exception of an
iterator's own `return` reaches the loop's handler, which calls it again (`Catch`, `ThrowClose`); the model does the same, and no property
is about how often an iterator is closed.
`Completions` lets a completion leave any number of constructs in a step, and differs from the language in one
place, named in `Stops`: the exception of a catch block passes the finally of its statement, which is the finding of `statements_finally`.

### HashTable

`slots` holds control byte, key and insertion number of each slot; `hash` the hash of each key, which the
key's home slot and control byte come from; values and attributes are written with the key and stay
with it, so they are left out, as are lookups, which change nothing (`find_slot` is an operator, and
`LookupExact` is about it).  `rehash` is a recursive function over the old slots, in their order.
`cursor` is the insertion number a running `TsSet::ForEach` has reached; its callback may change the table.
The list of `OrderedMap` is made up of the live entries in the order of their numbers (`KeysBelow`), and a walk
is past those below the cursor (`Past`).
`MapForEach` adds the slot list of `TsHashTable::ForEach`.
`MovingSpec` adds `Relocate`, a minor collection that promotes the object of a key.

## Runs

| Run | Result | Shows |
|---|---|---|
| `gc_heap` | holds, 301,326 states | type correctness; no dangling reference; INV-1; one copy of each object; the stack is never rewritten; the collector implements `ObjectGraph` |
| `promise_jobs` | holds, 1,336,751 states | each reaction runs once, in order of registration, through nested pumps and exceptions that unwind them; one settle job per settled promise; every unhandled rejection is reported before the loop idles; adopted outcomes are kept unless settled again; settled for good but for a lookup that ends too late; reactions run, unless the process ended or some await waits for ever. Promises that were overwritten may run reactions twice, though they lose none; those cut off may lose them |
| `combinator` | holds, 9,131 states | the count finishes the call exactly once, when all have answered; no hole and no overwritten result; the combinators implement `Join` |
| `generator` | holds, 64,902 states | handlers balanced across every way in and out of the body; requests answered once and in order, none forgotten; no value after the end |
| `statements` | holds, 365,497 states | handlers and with scopes are those of the place reached; no iterator is left open but those a finally held back; the lowered code implements `Completions` |
| `hash_table` | holds, 163,110 states | exact counters; an empty slot always remains; every key is found; the table and `TsSet::ForEach` implement `OrderedMap` |
| `promise_once` | violated | the Pending check does not give resolving functions once-semantics: a promise settled while "then" is looked up is settled again |
| `promise_unwind` | violated | an await can end although its promise is pending |
| `statements_break` | violated | a break of a loop inside a try pops the handler of the try |
| `statements_finally` | violated | an exception of a catch block skips the finally block |
| `set_moved` | violated | a member whose object moves is not found any more |
| `map_foreach` | violated | Map's `forEach` visits deleted entries |

Every property of a passing run has a mutant, an operator next to the definition it replaces, that
reproduces a plausible bug at that place and breaks the property.

Deadlock is checked where the system cannot stop.  The promise runs switch it off, because an uncaught
exception ends the process; so do `combinator`, `generator` and `statements`, where the call, the requests or the
function end.  `hash_table` and `gc_heap` never stop.

### Bounds

* `gc_heap`: two nursery cells, so that one can be pinned while the other is promoted; two old cells, so that a
  promotion may find room or none; one field (cycles, chains and sharing included), two stack words, one
  global, one registry word; three identities, fewer than cells, so identities are reused.
* `promise_*`: three promises (adopter, adopted and one derived from either), one of them with a prototype of its own, one
  plain value, one object whose "then" is looked up, `MaxOps` operations of user code and events (5, and 3 in `promise_once`,
  where they make the shortest counterexample the one with a lookup), `MaxAwaits` pumps on the stack at once.  Two
  nested awaits suffice for a job inside a job inside a job, and five operations for an overwritten promise whose
  reaction awaits.  Two of the promises are interchangeable: the constraint `InOrder` has them created in order.  It is
  used in place of a symmetry set, which liveness does not allow; it cuts no step that fairness is about, since only
  user code creates promises.
* `combinator`: four elements, two of them thenables, two values; an element before, between and after others of its kind.
* `generator`: four requests (one running, two queued, one after the end), two nested try statements.
* `statements`: four nested constructs of any kind, so that a finally can lie between two loops inside another; one value returned. Three in the violation runs.
* `hash_table`: capacity 8, the smallest the code creates, and eight keys, one more than its load limit.
  All collide in control byte and start at the last two slots, so that they wrap around the end.  `First` fixes the
  order of the first seven insertions (keys of one hash are interchangeable), `MaxSeq` bounds insertions, `MaxGone` deletions: four allow
  the compaction at the same capacity, fewer the growth to 32.
* The violation runs use the same instances, or smaller ones.

### Fairness

Only `ReactionsRun` needs fairness.  `promise_jobs` assumes weak fairness of the runtime's own steps (the loop does not
stop while it has work) and of user functions and accessors returning (JavaScript runs to completion; a function that
loops for ever stops everything, in any engine).  Nothing is assumed about events, or about what user code does.
An await is a loop on the stack that ends only when its promise settles, so a reaction whose
settle job stands below it waits for that promise.  Nothing in the code promises otherwise (the ticket
`docs/tickets/GEN-001-suspendable-generators.md` describes the limitation), so the property says exactly this:
the reactions run, or from some time on some await always waits.  Promises that were cut off are excepted: their reactions are gone.

## Findings

1. `OnceSemantics` (`TsPromise.cpp:1902-1904`, `1943`, `2021`, `2043-2049`).  The Pending check is all that resolve and reject
   look at.  It is made before "then" is looked up and not after it: `resolve(o)` with an accessor `o.then` that
   settles the same promise and yields no function settles it twice, also from rejected to fulfilled, and queues a second settle
   job, which runs reactions again that the first one has not cleared yet.  And adopting leaves a promise Pending,
   so a later call of the resolving functions wins over the adopted outcome.
   The property fails in both ways, the run shows the first.
2. `AwaitUntilSettled` (`TsPromise.cpp:2396`, `EventLoop.cpp:196`).  Callbacks of `process.nextTick` and timers run without a
   handler; their exception unwinds to the async function whose await happens to pump them.
   The lookup of "then" in a promise with a prototype of its own has no handler either (`TsPromise.cpp:1970`; that of objects
   has one, `2010-2030`), and the one of the job is popped before a handler's result is looked into (`1806`).  When an
   accessor of such a promise (`TsObject.cpp:2021-2048`) throws there, the exception leaves the drain, although `1790-1791` says that
   it must not; the derived promise stays pending and the reactions behind it are lost.
3. `MembershipSurvives` (`tests/gc/programs/set_object_members.js:1`, `TsHashTable.h:54`).  Object keys are hashed by
   address and the table is not rehashed when a minor collection moves them.  The test passes
   because object literals are tenured; arrays, Maps and Sets are not.
4. `HandlersMatch` in `statements_break` (`ASTToHIR_Statements.cpp:1036-1038`, `1093-1095`; `ASTToHIR.h:239-240`).  A break or continue
   that crosses no finally pops all handlers of the function, those outside of the loop too, and the
   pops at the ends of those try blocks then take the caller's.
5. `FinallyAlwaysRuns` (`ASTToHIR_Statements.cpp:1554-1606`; `ASTToHIR.h:299-301`).  The catch block of try/catch/finally is lowered without
   a handler, so an exception in it skips the finally block.
6. `VisitsLiveEntries` (`TsHashTable.h:228-235`, `TsMap.cpp:306-320`).  Map's `forEach` works on a snapshot of slot
   indices.  The recorded test262 results agree (`tests/test262/tmp_p54.jsonl:7884`, `:7891`).

## Proofs

`GCHeapProofs` proves, for every heap, every number of words and fields and whatever is scanned
conservatively, that the type invariant, `NoDangling`, `INV1`, `UniqueHome` and `StackStable` hold.  The only assumption is
`HeapAssumption`: the two generations and the three kinds of words are disjoint and `Null` is not a cell.

None of the properties is inductive: that nothing refers to a freed cell after `ResetNursery` depends on what every
phase before it did.  The inductive invariant `IInv` is a conjunction of named parts: `IdleInv` (which collector
structures are empty when), `MarkInv` and `MinorMarkInv` (the two tri-colour invariants: what a marked cell that is not
grey refers to is marked; for the minor collection the old generation counts as black), `PinInv` (what the
stack refers to is pinned), `FwdInv` (the forwarding table is injective, leads from marked unpinned objects to their copies, and is complete
when copying ends), `FixedInv` (holders of phases that have run refer to pinned nursery cells only) and `CopyInv`
(two cells have the same owner only when one is forwarded to the other).  There is one lemma per
action, and `INV1` falls out at the end of the chain of fixups.

`GCGraphProofs` proves the refinement `Graph!Spec` from that invariant and two facts more: a live cell holds an object
(`Owned`), and cells of one object name the same objects (`SameNames`).  The second is what a collection in progress needs: original
and copy may differ in addresses, one of them fixed and the other not, but never in what they refer to, so
that every step of the collector is a stutter of the graph (`RenameStep`, `PromoteGraph`) until a sweep or reset, which is a
`Reclaim` (`FreeStep`, from `NoDangling`).  A store of the mutator is one on the graph because of `UniqueHome`.

`CombinatorProofs` proves all five properties of `Combinator`, the refinement `J!Spec` included, for any number of elements, any
set of thenables and any values, under the assumption that `Promise.resolve` is not replaced.  Its invariant
has five parts: `CountInv` (`remaining` is the hold of the iteration plus the elements handed over and not yet
counted; this is what makes the decrement to zero mean that all have answered), `CalledInv` (which elements have been counted: those of the flag, or those
whose reaction has run), `PathInv` (what each path can reach), `ResultInv` (an element that
has been counted has its result, and on the path that pushes errors in order the filled slots are the first ones), and the type invariant.
The refinement follows action by action: a step that counts is an answer, the one that counts to zero also the decision.

`GeneratorProofs` proves all seven properties of `Generator`, for any number of requests and any depth of try
statements (`GeneratorAssumption` says no more than that both are natural numbers).  A group of lemmas describes the handler stack of a running
body, `Stack(n)`, by its length and elements: a push, a pop and the pops of a suspension lead from one such stack to another,
and on this rests `HandlersBalanced`.  The others need the parts of `IInv` about the service: `ServiceInv` (an async generator is
executing exactly until its drain has ended, a sync one counts as completed while it runs, a request is current exactly
while the body runs), `ArrivalInv` (answered, current and queued requests are the numbers from 1 on without a gap;
this is why the drain answers in order and leaves nothing), `SyncInv` (its counterpart for sync
generators) and `EndInv` (an ending answer marks the generator, so that no value follows it).

`PromiseProofs` proves all properties of the run `promise_jobs` but `NoneLost` and the liveness property, `AdoptionKept` under the hypothesis that nothing was cut off, for any promises and values, any
number of operations and any nesting of awaits.  It has three inductive invariants, each of which uses the one before.

* `IInv` is about jobs, and gives `TypeOK`, `SettledForGood`, `SettleScheduled` and `UnhandledReported`.
  `Operated` says what all the operations have in common: settled promises stay as they
  are, but for those a lookup overwrites, which become fulfilled, and a settle job is queued for a promise exactly in
  the step that settles or overwrites it.  To that the invariant
  adds that there is never a second job, except for an overwritten promise (`OneJob`), that reactions in a settled promise have one
  unless they were cut off (`OnItsWay`), that an unhandled
  rejection is reported or has one (`ReportInv`), and `FrameInv`: a function whose exceptions nobody catches stands on the pump
  that called it, so that `ThrowUncaught` takes off these two and no frame with reactions.  Only `ThrowThroughReactions`
  does that, and `cut` records it.
* `HistoryInv` is about single reactions, those of `Whole` promises: neither overwritten nor cut off.  It gives
  `ReactionsOnce` and `ReactionsInOrder`.  `At(p, s, n)` says that the reaction
  with number n is at place s: in a frame, in the queue, in the promise itself, or among those that have run.
  `PlacedOnce` says that each number has exactly one place, and that of two reactions of a promise the one that is
  earlier in the same frame, list or queue is the older one, as is one that is not in the queue beside one that is.  It needs `JobInv` (the settle job of
  a promise comes before all that runs its reactions) and `ShapeInv` (a frame of reactions is at the top or
  under a function).  A step either leaves reactions where they are and adds at most the youngest (`Filed`), or
  moves them without changing their order (`Moved`, `ReactionMoves`).  Counting places instead of
  speaking of them takes a lemma on cardinalities (`OnePlace`).
* `HeadInv` is about who can settle a promise, and gives `AdoptionKept`, as long as no promise was overwritten or cut off
  (`Undamaged`; a reaction that runs twice passes its outcome on twice).  As long as user code has not resolved it, a promise
  has one head at most: its resolving functions, a function on the stack that answers for it, or one
  reaction still to run (`Unresolved`).  From then on only the reaction on the promise it was resolved
  with is left (`Resolved`), because resolving uses the head up; `HistoryInv` is needed to know that a reaction that has
  run is not kept anywhere any more.  What remains are the promise's resolving functions, which is what `again` records.

`AwaitInv` (a pump on the stack waits for a promise that exists) limits finding 2:
`LeftWhenSettled` says that an await ends when its promise is settled and not before, or by one of the two exceptions
that nobody catches, `ThrowUncaught` and `ThrowThroughReactions`.

`StatementsProofs` proves `TypeOK`, `HandlersMatch`, `ScopesMatch` and `IteratorsClosed` of `Statements`, for every depth of nesting and any
values (`NestAssumption` says that `MaxNest` is a natural number).  The hypothesis of these theorems is `~AllJumps`, as in the run `statements`: the jumps
that are not `Tidy` are those of the finding of `statements_break`, with which `HandlersMatch` is false.
The lowering counts handlers and scopes ahead of time, so the invariant counts too: `BalanceInv` says that the
handlers are those of the armed constructs among the first `Level`, outermost first, each with the number of scopes outside of its
construct; `Level` is one less than the number of constructs while a for-of loop is between two rounds or is being left.
`ScopesInv` does the same for with scopes, `NestInv` says that what a finally block keeps has its target
still around it, and `GoingInv` that while iterators are closed on the way of a jump, those that are not left to be closed are not open.
Three lemmas carry `BalanceInv` over every step: `Cut` (the pops that end in a construct), `Grow` (a push) and
`TopHandler` (the top handler is that of the innermost armed construct, which is where `ts_throw` goes).
`OnlyCatchPasses` limits the finding of `statements_finally`: a step that leaves a try statement past its finally block is the
exception of its catch block, and there is no other; jumps stop at the innermost finally block on their way
(`JumpPasses`) and an exception leaves only constructs that have no handler pushed (`CatchLeaves`).

`CompletionsProofs` proves the refinement `Language!Spec` from this invariant.  `Leave` of `Completions` is split into its three ways
out (`Flies`, `Lands`, `Exits`); `LeaveToFinally` and `LeaveToTarget` are the two ways on for a jump or a completion a finally block sends on.
A jump is invisible until it departs, closing iterators included; an exception passes nothing that would stop it because of `TopHandler`.

`HashTableProofs` proves all five properties of the run `hash_table`, the refinement `Ordered!Spec` included, for any keys, any hash function, any
bounds and any initial capacity from eight on (`TableAssumption`); `First` and the two bounds only restrict what the
environment does.  `IInv` has three parts.  `Sound` is about a table: its slots have their types (`Table`), a live slot has the
control byte of its key (`Coded`), no slot a probe passes on the way to a key is empty (`Reached`), and no key or number is there twice
(`Distinct`).  `NumberInv` bounds the numbers in use, and `LoadInv` says that the counters are exact and that entries and tombstones
stay below the threshold, or at it after an insertion, so that an empty slot remains.  Two facts carry it: a probe
sequence covers all slots (`ProbeCovers`, modular arithmetic for every capacity), so the loop of `insert_entry`
ends at a free one and that of `find_slot` at the key; and a deleted slot becomes a tombstone, never empty, so `Reached` is kept.
`Rehashes` says what the recursive function `Rehashed` yields, a sound table with the same entries and no tombstones.
`KeysBelow` is recursive too.  What such functions yield is proved without the library's induction theorems, by the least
number for which the claim fails (`LeastNumber`, `Inductive`, `Recursion`).  In the refinement a new key has the largest number and becomes the last
of the list (`Listed`), a deleted one leaves the keys below and above as they were (`Removed`), a rehash changes nothing, and the
entry with the least number from the cursor on is the next one of the list (`Visits`).
`MembersStay` is the counterpart of finding 3: without `Relocate`, members are never lost.  With it, that is for `MovingSpec`, the same invariant
holds (`MovingInvariance`), because `Coded`, `Reached` and the half of `Distinct` about keys speak only of the keys in `Kept`, those that hash as they
did when they were inserted; without moves these are all keys (`AllKept`).  So the damage of a move is limited: every
other key is found where it is (`OthersAreFound`), and although a moved key can be inserted a second time the counters stay exact and
an empty slot remains, so that every probe ends (`MovedCountersAgree`, `MovedProbesEnd`).
`KindCallback` limits finding 6 in the same way: the slots the forEach of Map has collected stay live
while its callback inserts without a rehash or deletes entries that are not still to visit.

Only model-checked: `ReactionsRun`, as liveness is out of the prover's reach; `NoneLost` for overwritten promises (for all others it
follows from `ReactionsOnce`); `AdoptionKept` in behaviours that cut reactions off; and the counterexamples of the violation runs.

## Plan

Done: the collector, promises and microtasks, combinators, generators, statements, the hash table; the
safety of all of them and the four refinements proved.  Next, in this order:

1. `GCWeak` (extends `GCHeap`): weak references, finalizers, pending callbacks and allocation that runs them.  Until
   then what the collector's runs and theorems say is about programs without `WeakRef` and `FinalizationRegistry`.
2. `Timers`: handles of `EventLoop.cpp`, cleared by their own callback, by others and after they fired.
3. `Streams`, `EventEmitter`, the module cache: changes during a walk, ends and errors in any order.
4. Theorems about these modules as they are written.

## Not modelled

The value libraries (strings, numbers, dates, RegExp, JSON, Temporal) and the object model are functions over data without
interleaving; the repository runs them against test262.  The parser, the analyzer and the passes of the
compiler translate trees, and what is right about them is the meaning of programs, which TLC cannot
enumerate; the lowering of statements is the exception, because it has a protocol with the runtime.
The node modules are mostly wrappers of libuv; the streams among them are in the plan.
Generators the compiler does not make suspendable run eagerly, in one call, and have no protocol either.
