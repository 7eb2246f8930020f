# Verification of Estela and its strela HAL driver

Estela runs neural networks on the STRELA CGRA. It is an IREE compiler plugin
(`compiler/src/estela`) that turns dispatches into CGRA kernels and the memory
programs of the CGRA's columns, and an IREE HAL driver (`runtime/src/estela/hal/
drivers/strela`) that loads and runs them through the library libstrela. An
older VM module (`runtime/src/estela/modules`) drives the CGRA for matrix
products without the HAL, for convolutions that an older pass fuses.

This directory holds TLA+ specifications of that code, the TLC configurations
that check them and proofs that TLAPS checks. IREE and libstrela are git
submodules whose contents are not in the repository: what the code relies on of
them is modelled from its uses and marked external in `PROJECT.json`.

## Inventory

| Component | State it keeps | Operations | What is hard |
|---|---|---|---|
| Direct command buffer (`command_buffer.c`), cache maintenance (`buffer.c`) | none of its own between commands; the CPU's cache, STRELA memory, one libstrela job | fill, update, copy, flush_buffer, invalidate_buffer, dispatch | the CGRA does not snoop the CPU's cache; lines are fetched and evicted at any time and hold words of several tensors; libstrela fails at every call |
| Queue operations (`device.c`) | nothing: they run on the caller's thread | alloca, dealloca, execute, and fill, update, copy, host_call, dispatch emulated through it | several threads; partial signalling; failure propagation |
| Semaphores (`semaphore.c`) | timeline value, failure, timepoints (IREE's) | signal, fail, query, wait | a waiter between the advance and the dispatch of timepoints; two-load query |
| Allocator and buffers (`allocator.c`, `buffer.c`) | libstrela buffers | allocate, release, map, flush, invalidate | undo paths; errors of frees |
| Executables (`executable.c`) | flatbuffer, libstrela kernels | verify, load, destroy | failure at the n-th kernel |
| Sticky error (`strela_driver_module.c`) | one error per device, in libstrela | look at, clear | shared by all calls of all threads |
| Column resolution (`command_buffer.c:242-308`) | none | verify, resolve, round to lines | offset arithmetic modulo 2^32 and 2^64, `IREE_HAL_WHOLE_BUFFER` |
| Device (`device.c:62-313`), driver and factory | references, the libstrela device, the topology axis; the driver its options | create, replace, assign, destroy | failure at every step of creation; the application dropping shared objects, or the driver |
| Topology and transfer wrapping (`AssignTopologyPass.cpp`, `TransferWrapPass.cpp`) | the IR of a function | link devices, pin the ABI, wrap operations | a wrap rewires what other wraps look at; sizes must be defined before they are used; links decide which transfers stay |
| Kernel conversion (`KernelMatchers.cpp`, `ConvertLinalgToStrelaPass.cpp`), dialect (`StrelaOps.cpp`) | the IR | match, rewrite, verify | a match that is too wide; a match before wrapping that is none after it |
| Translation (`ResolveWorkgroupCountPass.cpp`, `MaterializeBindingsPass.cpp`, `LinkExecutablesPass.cpp`, `StrelaTarget.cpp`) | the IR of the executables, the binary | workgroup counts, columns, linking, serialisation | what the compiler writes must mean to the runtime what the source meant; ordinals change |
| Convolution fusion (`FuseConv2DPass.cpp`) | globals and initialisers of a module | fuse, in any order | layouts of the filter; one name for many globals |
| VM module (`strela_module.cc`) | kernel handles | InitAccelerator, MyCenteredGemm | remainders of the three lanes, a job that fails halfway |
| Rescale normalisation, executable cache, registration, tools | none | -- | -- |

Components call each other synchronously: the queue operation waits on
semaphores, replays a deferred command buffer into a direct one, which calls
libstrela on the calling thread. They share the timeline semaphores, the sticky
error, STRELA memory and the CPU's cache. The CGRA and its kernel driver run
concurrently with the thread that waits for them. Compiler and runtime meet in
the executable: columns, kernels and ordinals.

## Modules

| Module | Models | Used by |
|---|---|---|
| `StrelaMemory` | words, lines, the write-back cache, libstrela's flush and inval (external) | `StrelaDispatch` |
| `StrelaDispatch` | the direct command buffer, the CGRA's job, other host threads | `MCStrelaDispatch`, `StrelaDispatch_proofs` |
| `CoherentMemory` | the promise: one memory without caches, one kernel at a time | refinement of `StrelaDispatch` |
| `StrelaDispatch_proofs` | theorems | |
| `StrelaSemaphore` | a timeline semaphore and its timepoints | `StrelaQueue` |
| `StrelaQueue` | threads running programs of queue operations, host waits, signals, queries | `MCStrelaQueue`, `StrelaQueue_proofs` |
| `QueueOrder` | the promise: calls ordered by the points they wait for and provide | refinement of `StrelaQueue` |
| `StrelaQueue_proofs` | theorems | |
| `StrelaResources` | libstrela handles and the sticky error | `MCStrelaResources`, `StrelaResources_proofs` |
| `StrelaResources_proofs` | theorems | |
| `StrelaBindings` | the compiler's side of a column | `StrelaAddressing` |
| `StrelaColumn` | the runtime's side: verify, resolve, lines | `StrelaAddressing` |
| `StrelaAddressing` | one column from source to synchronised lines | `MCStrelaAddressing`, `StrelaAddressing_proofs` |
| `StrelaAddressing_proofs` | theorems | |
| `StrelaDevice` | life cycle of device and driver | `MCStrelaDevice`, `StrelaDevice_proofs` |
| `StrelaDevice_proofs` | theorems | |
| `StrelaKernels` | the matchers, the rewrites, what operations and kernels compute | `StrelaPlacement`, `StrelaTranslation` |
| `StrelaPlacement` | topology and transfer wrapping of a function | `StrelaCompiler` |
| `StrelaPlacement_proofs` | theorems | |
| `StrelaTranslation` | the passes over executables, linking, serialisation | `StrelaCompiler` |
| `StrelaCompiler` | the composition, with IREE's dispatch formation between the two | `MCStrelaCompiler`, `StrelaPlacement_proofs` |
| `StrelaCompiler_proofs` | theorems | |
| `StrelaGemm` | the job loop of MyCenteredGemm | `StrelaConv` |
| `StrelaConv` | fusion of convolutions, loading and running the module | `MCStrelaConv`, `StrelaConv_proofs` |
| `StrelaConv_proofs` | theorems | |

Operators named `X_Suffix` before a definition `X` are mutants: `X` with a
plausible bug. `PROJECT.json` says which property finds each of them.

### StrelaDispatch

`dispatch` (`command_buffer.c:310-408`) is a sequence of steps: `Dispatch`
resolves all columns or fails; `FlushInput` and `FlushOutput` are the loop at
348-359; `ConfigFails`, `SubmitFails`, `Submit` and `Wait` are the three libstrela
calls at 374-377, whose errors the code looks at once, at 378; `Poll`; `Free`, `FreeAfterError` and `FreeFails`
(393-396); `InvalidateClean` and `InvalidateDiscard` are the two calls
of `invalidate_range` (`buffer.c:189-190`) in the loop at 399-405. `pc` is where
the thread is, `op` the resolved columns, `col` the loop variable, `status` the
`iree_status_t` in hand. `FlushBuffer` and `InvalidateBuffer` are the explicit
maintenance commands; the latter takes the same two steps. Transfers store
through a mapping; IREE writes back what it stored only when the memory is not
HOST_COHERENT, so both happen; a transfer whose mapping is refused (`buffer.c:123-136`)
fails and changes nothing.

Between any two steps: the cache fetches or evicts any line (`CacheStep`), the
CGRA writes an output word, the job ends or is cancelled (`DeviceStep`), a job
that could not be freed writes a word (`StrayWrite`), another
host thread stores to a word beside the command's (`HostStoreApart`).

A free that succeeds stops a job that is still pending (the wait can return early
with an error, and the dispatch returns after the free). One that fails
leaves it running, and the dispatch returns all the same: `stray` are the words it
has still to write, within the bound `StrayWords`.

Two history variables are needed to say what is promised. `launched`: the CGRA
was given `op` and the dispatch has not returned, so its outputs are the CGRA's.
`loose`: outputs of dispatches that returned an error after submission and were
not written or synchronised since. The code invalidates only on success, so of
those words nothing can be said.

Taken for granted: other threads do not store to a line that holds an output
of the command in progress (IREE aligns slices to 64 bytes, `StrelaTarget.cpp:
294`; see "Also observed" for what happens without); a libstrela call made while an error is pending
does nothing (`executable.c:210-212` relies on it).

Data is one value per word; the kernel is an arbitrary function of the inputs as
they are in memory.

### StrelaQueue, StrelaSemaphore and QueueOrder

Every thread runs a program, a sequence of calls chosen at the start. A call
checks and registers its wait list entry by entry (`AcquireNext`), waits
(`WaitReached`, `WaitFailed`, for host waits `WaitTimesOut`), runs its commands
(`Work`, `WorkFails`) and signals entry by entry (`Signal`, `Resolve`:
`semaphore.c:117-121` and `123-124`). If any of these fails all of the signal list is
failed (`Fail`, `Poison`). A query is two loads (`semaphore.c:90` and `98`) and two steps.
Acquiring a timepoint checks and registers in one step, under the semaphore's lock. A
semaphore that failed after it reached the value may be taken either way.

`QueueOrder` knows no threads, wait lists or timepoints: a call runs once, when
all it waits for is reached; a timeline moves only by what a call that has run
provides; a call is over when all it provides is reached or all of it has
failed. `OrderSpec` says that `StrelaQueue` implements it.

### StrelaResources

Each thread allocates, synchronises and releases buffers, creates and destroys an
executable. Every libstrela call may fail, and setting, seeing and clearing the
sticky error are separate steps, so that two threads interleave between them.
`reg` holds the handles of the object that is made or destroyed, zeroed as in
`executable.c:201-204`. A creation may also be given up before libstrela is called
(`AllocateRefused`, `CreateRefused`). `active`, the threads that take part, and `freesFail`,
whether libstrela may fail to free a live handle, are chosen at the start and stay.
History: `own` says that something in the current call failed, `astray` that the
last status returned did not agree with it. `NothingDangles` is claimed of all
behaviours, `ObjectsValid` of those with one thread (`Solitary`), where a free that
fails leaves its error for the next call, which must not hand out anything. With two
threads the code does not keep it: one may clear the other's error. `NothingLeaks` and
`StatusIsOwn` are claimed where frees succeed as well (`Undisturbed`): a free that fails
leaks what it was to free, and returns its error as another call's.

### StrelaBindings, StrelaColumn, StrelaAddressing

`MatchBindingOffset` classifies a byte offset by the four forms that
`MaterializeBindingsPass.cpp:67-74` names, `BindingOp` the operation the pass
creates, `VerifyBindingOffsets` what `StrelaOps.cpp` accepts. `GetColumn` is what
`StrelaTarget.cpp` serialises, `ColumnVerify` what `executable.c` accepts, `ResolveStatus` and
`ColumnResolve` what `column_resolve` does with it, check by check in the order
of the code, `BufferLines` the rounding. `StrelaAddressing` sends one column
through them. Its other starting points are columns that some other compiler
wrote and explicit maintenance of a range. The properties compare the words the
CGRA moves with the bytes of the slice of the source tensor, computed in bytes
without any of the operators above.

Integers wrap where the code's do: `Radix` stands for 2^32, `DeviceMod` for 2^64
and `SizeMod` for the range of `size_t`, to which `buffer.c:171-172` truncates the first
word and the number of words of a range. A binding may lie outside of the list or
have no buffer (`command_buffer.c:258`). Sources, slices and host bindings are
the constants of a run.

### StrelaDevice

One action per block of `device_create` and `device_destroy`, and
reference counts of the shared objects, with an application that
drops and regains them at any time. A replacement is two steps: the new object is
retained (`incoming` holds it), then the old one is released and the field set. The new one
may be the one the device holds already, and the application may have no reference of its own
to it. Release and assignment are one step: only the thread that replaces looks
at the field in between. The factory makes a driver of one name
(`TryCreateDriver`), devices are made through it (`CreateDeviceById`), and it may
go before they do. IREE assigns a topology to a device that has none, which is a
guard here (`~axis`). A failed creation destroys the device and hands out the pointer to
it (`device.c:127`), which is listed as a hazard; nobody reads it in the model.

### StrelaKernels, StrelaPlacement, StrelaTranslation, StrelaCompiler

A `linalg.generic` is the statement of its body, the arguments it uses and an
indexing map per operand; a `linalg.batch_matmul` its sizes. The matchers
(`IsStrelaLinalgAdd`, `...Relu`, `...Matvec`) are predicates over those, check by
check. `LinalgResult` says which words of which input are combined into a word of
the result, as the indexing maps say, and `ColumnResult` which words the CGRA combines
when it runs a bitstream over columns: neither uses the matchers, so that the
comparison of the two is about them.

`StrelaPlacement` is one function, a block of nodes, and the preprocessing passes
in the order of `PluginRegistration.cpp`. `GatherCandidates` looks for all
operations before the first is wrapped and pins the ABI; `Wrap` rewrites the
block for one of them (`WrapInTransfers`: sizes of the result, transfers of the
inputs that are no immediates, the transfer back, all uses of the result). The sizes that a transfer of
an input names are those of the input itself, and are left out.

`FormDispatches` stands for IREE's part between: operations that were placed are
outlined, splats are folded into the bodies, equal bodies share an executable
and transfers over transparent links are elided. It also brings along executables that
some module wrote by hand. `StrelaTranslation` has one action per pass of the target
backend (`StrelaTarget.cpp:152-175`): `Convert`, `ResolveWorkgroupCount`,
`MaterializeBindings`, each on one executable in any order, `LinkExecutables` when
they are through, which renumbers ordinals, and `SerializeExecutable`. A pass that
gives up ends the compilation with its name in `failure`: a product has to load its left
operand, whose rows it counts; a missing function (`ResolveWorkgroupCountPass.cpp:91-94`)
cannot happen to the exports IREE makes. Operands are whole tensors at offset 0 here, so
the checks of slices and binding offsets in `MaterializeBindingsPass.cpp` are in
`StrelaBindings`. `VerifyKernelOp` checks of a product's shape what linalg has not
verified before: the result's shape is linalg's.

A job computes `FeaturesPerJob` features; the last one of a row
starts early enough to compute as many, over those of the job before it
(`tests/resolve_workgroup_count.mlir:49-50`). `GridCoversResult` says that all
elements are computed and that no job is superfluous.

### StrelaGemm and StrelaConv

`Fuse` is one application of the pattern to one convolution, in any order: its
conditions (`IsMatmulEquivalent`), the collapsed shapes, a global and an
initialiser. Loading runs the initialisers, running calls `MyCenteredGemm` for
each fused convolution. The job loop works over symbolic contents: a result word
records which row of X and which row of W, and how many terms, went into it; the
terms are compared with those of the convolution over the filter as it was before it was
transposed. Taken for granted: a job computes the dot product of the columns it
is given although the channel count in the bitstream is not the patched one (the
finding `conv_zero_points` is about the constant, not about libstrela); the
handles of kernels are one space for all modules on the device.

## Runs

| Run | Question | Bounds and why they are enough |
|---|---|---|
| `dispatch` | Does each side see what the other wrote? Is it one coherent memory? Does every command return? | four words, two lines, two columns, three kernels: two inputs and an output, an in-place kernel, an output on the line of an input and of a bystander. Every way for words to share a line or not occurs. Two values: a stale copy differs from memory. A job whose free fails has at most one word left to write (`StrayWords`), the one that shares its line with an input and a bystander. |
| `dispatch_after_error` | finding 1 | as `dispatch` |
| `queue` | ordering, no lost wake-up, settled results, monotone queries, termination, implementation of `QueueOrder` | three threads, two timelines up to 2, six programs: a join of two results, a race of two signallers, host waits with timeouts and queries, a signal that may come late, one timeline signalled twice by one list and one point by two calls, a chain back and forth |
| `resources` | leaks, half-made objects, misreported errors with one thread; use of freed handles with two | one buffer, two kernels, two exports: enough for a failure before and after the first kernel, and for threads to compete. Threads are symmetric. |
| `addressing` | right bytes, in range, exact synchronisation, no stage refuses what the one before accepts, maintenance | words of two bytes, lines of four words, push constants below 32; an allocation two bytes short of a whole line, buffers at and inside it, bound ranges with and without a length; every offset form, slices accepted and refused, strides 0, 1, 3 |
| `addressing_whole` | finding 2 | the same, maintenance of whole buffers |
| `addressing_slice` | finding 3 | one slice: the leading columns of a matrix |
| `device` | reference counts, registrations, lifetimes | two allocators, two providers, one pool, one tracker, two names: replacement by itself and by another |
| `compiler` | Is data flow kept, an operation placed whole, its memory the right one, and what the loaded export computes the operation? | functions of one and two operations over 2x2, 1x2 and 2x3 tensors, both results of two exported so that the first has another reader, columns of at most 4 words: what fits, what does not. All operand combinations of tensors and constants, five machines (two STRELA devices in either order, none, no default, a topology present), of which the four unusual ones only with a function of one operation that has a kernel, since what they change does not depend on what else is in the function; workloads 0, 1, 3, products of 2, 3, 4 and 6 features; hand-written executables with two targets, no body, two bodies |
| `compiler_relu` | finding 5 | as `compiler`, with a transposing maximum of a square matrix |
| `conv` | Is a fused convolution a convolution, with its own kernel, and does it end? | three lanes; features 1, 2, 3, 4 and 7, so every remainder and none, one and two whole jobs; batches 0 to 2; channels up to one more than the pass takes; all 24 layouts of the filter; images and filters of more than one point; modules of one to three convolutions |
| `conv_zero_points` | finding 4 | as `conv` |

Deadlock is checked where the system does not stop (`dispatch`, `resources`).
Programs end in `queue`, a column is done in `addressing*`, compilation and
invocation end in `compiler*` and `conv*`, and an application that has dropped
the proactor pool creates no device in `device`.

The `compiler` run leaves out square maxima that transpose, which
`compiler_relu` shows to be computed wrongly; that of a single row, for which
transposing changes no word, is in.

### Findings

1. `allocator.c:121-123` says that every dispatch invalidates its outputs, so the
   CPU never sees anything stale. A dispatch that fails after submission does not
   (`command_buffer.c:399`), and the outputs the CGRA has written by then may be hidden
   by cached copies.
2. `flush_buffer` and `invalidate_buffer` pass the length of the reference on as it
   is. `IREE_HAL_WHOLE_BUFFER` is 2^64-1: the end of the range wraps around to at
   or before its start, and the count is 0 or huge. `column_resolve` does
   resolve it (`command_buffer.c:282`).
3. `coversWholeTensor` looks at offsets and strides and not at sizes: a slice
   of the leading columns of a matrix is taken for a dense tensor, and the column
   moves the first words of the matrix instead.
4. `FuseConv2DPass` patches a copy of the bitstream with the zero points and the
   number of channels and then makes the constant of the original
   (`FuseConv2DPass.cpp:201`): every fused convolution runs with zero points of -1.
5. The matcher of relu asks nothing of the indexing maps
   (`KernelMatchers.cpp:84`): a maximum with zero that also transposes becomes a
   kernel that copies word by word.

Also observed, and not runs of their own:

- Cleaning and dropping a line are two calls (`buffer.c:189-190`); what another
  thread stores to an edge line in between is lost. IREE's alignment of slices
  keeps threads off such lines, and the model takes that for granted.
- A job whose free fails (`command_buffer.c:394-395`) may go on writing its outputs after
  the dispatch has returned. The properties exclude them (`loose`), like those of every dispatch
  that fails after submission.
- Nobody looks at the error after a buffer was freed (`buffer.c:244`,
  `allocator.c:206`): the next call is skipped and returns it. With two threads one may
  see or clear the other's error and hand out an invalid handle.
- A thread that submits a call before the one it waits for waits for ever
  (`device.c:756`), so `AllCallsReturn` is claimed for programs in which no call
  comes before one it waits for.
- An addition with an immediate, and a product that is placed, do not compile:
  no kernel adds an immediate, and the backend does not serialise matrix products yet
  (`StrelaTarget.cpp:81-85`). Both are loud; `PlacedOpsCompile` names them
  (`MayFail`) and claims the rest. A product whose right-hand side is a splat has
  no binding for it and fails as loudly.
- The comment at `FuseConv2DPass.cpp:94-101` takes for matrix products filters
  whose channels are not last in memory as well; they collapse to another shape and
  `MyCenteredGemm` refuses them when it runs.
- The pass admits 65535 channels, of which one column can move 16383.
- `FuseConv2DPass` is nested on functions and inserts into the module
  (`FuseConv2DPass.cpp:305`).
- Every early return of `MyCenteredGemm` leaks its buffers, as the source
  says (`strela_module.cc:163`), and the libstrela device it opens is never closed.
- A driver always lists one device, however many libstrela has.
- `Passes.td` says of the rescale pass that it splits double rounding; the code
  replaces it by single rounding.
- Allocators, buffers and executables keep the pointer of the libstrela device
  past its destruction.

## Fairness

- `StrelaDispatch`: weak fairness of `CommandStep`, the calling thread runs on, and
  of `DeviceStep`, the CGRA or the driver's timeout ends a job
  (`command_buffer.c:376`). No fairness for the cache, other threads or new commands.
- `StrelaQueue`: weak fairness of each thread's `Step`; none for timeouts.
- `StrelaConv`: weak fairness of the one thread that compiles, loads and runs; a
  job it waits for ends or fails by the driver's timeout.
- The other specifications state no liveness: `StrelaResources`, `StrelaDevice`
  and `StrelaAddressing` wait for nothing, and the compiler's passes are loops over finite
  lists.

## Proofs

`StrelaDispatch_proofs` proves for every set of words and lines, every number of
columns, every kernel and every value set:

- `Invariance`: `Spec => []IInv`, with `TypeCorrect`, `DeviceReadsFreshTheorem`,
  `NoWriteBackTheorem`, `NothingStaleTheorem` from it;
- `NothingLostTheorem` and `OutputsSurviveTheorem`, the two action properties;
- `Refinement`: `Spec` implements `CoherentMemory`.

The properties are not inductive alone. That the CGRA reads what the CPU wrote
holds at submission only because each column was flushed when the loop passed it
and *stays* flushed while the other columns are, though the cache may fetch and
evict its lines and neighbours share them. `IInv` is the conjunction of

- `ControlInv`: how `pc`, `job`, `launched`, `todo` and `status` hang together; in
  particular a dispatch without an error that gets to `free` has a finished job;
- `InputInv`: the inputs of the columns passed agree between memory and CPU;
- `OutputInv`: no line of a flushed output is dirty, from its flush to the return;
- `InvalidatedInv`: an output that was invalidated agrees too, unless an earlier job that
  could not be freed still writes to it (`stray`, which `ControlInv` says is within `loose`);
- `CpuSeesNothingStale`: clean copies of settled words agree with memory.

Steps are proved word by word: lemmas say what each maintenance call does to one
word, which is enough since every conjunct speaks of one word at a time.

`StrelaDevice_proofs` proves for any allocators, channel providers and driver
names:

- `DeviceInvariance`: `Spec => []IInv`;
- `RefsBalancedTheorem`, `FieldsAliveTheorem` and `OpenWhileDeviceTheorem` from it.

That the counts are balanced is not inductive alone: `DestroyReferences` sets
fields to Null that were released, and `CreateAllocator` sets a field without
looking at what was in it, so both are right only because of what the stage
says of the fields. `StageInv` says which are set in which stage, when the libstrela
device is open, and that the axis is registered exactly while there is a
tracker. The proof has one lemma per group of actions; retaining and releasing
are lemmas about one object's count (`RetainOne`, `ReleaseOne`), and that no
object is in two fields is `FieldsApart`. Half-way through a replacement the new object has
two counts to its name, in `incoming` and perhaps in the field as well (`RetainSteps`).

`StrelaQueue_proofs` proves for any threads, semaphores, values and programs:

- `QueueInvariance`: `Spec => []IInv`, and from it `QueueTypeCorrectness`,
  `CommandsFollowTheirWaits`, `WaitersAreTold` and `ResultsAreTrue`;
- `QueriesNeverGoBack`, the action property;
- `QueueRefinement`: `Spec` implements `QueueOrder`.

What a thread relies on is local (`ThreadInv`): where it is in its call, how far its
loops have got, which points it still waits for. It survives the steps of other
threads because a timeline only moves forward, a failure stays, and a timepoint
disappears only when it was reached or its thread was told of a failure; the
lemma `OtherThreads` says so once for all actions. That commands follow those
they wait for needs `ProvidedInv` as well: a timeline is at a value only because the
host, or a call whose commands have run, provided it. The refinement is proved
action by action; a thread's steps through its wait list are stutters, its
signals, one entry at a time, are steps of the abstract timelines.

`StrelaResources_proofs` proves for any threads and any numbers of handles:

- `ResourceInvariance`: `Spec => []IInv`, and `ResourceTypeCorrectness`;
- `HandlesStayAlive` for any number of threads and failing frees;
- `ObjectsAreValid` for one thread, frees that fail included;
- `FailuresLeakNothing` and `ErrorsDoNotLinger` for one thread
  on a device whose frees succeed. The properties state these conditions themselves.

The argument is ownership. `OwnInv`: every handle in use is alive and has one owner,
a HAL buffer, an executable or the call that makes or destroys one. `SolitaryInv` follows
the handles in hand through each call of a thread that is alone, and says which of them
are valid. `AloneInv` adds, for frees that succeed, which error is pending
and that it is the call's own.

`StrelaConv_proofs` proves for any modules of convolutions and any number of lanes:

- `ConvInvariance`: `Spec => []IInv`;
- `JobsStayInside`, `OwnKernels` and `FusionIsSound`.

The job loops have a loop invariant (`GemmInv`): exactly the elements before
`(i, j)` in row order hold their dot products, and the rest holds nothing. That
it is the convolution rests on one fact about layouts (`CallInv`): a call
whose operands agree in their inner size has a filter with its channels last in
memory, or one channel. Globals and handles are numbered; `GlobalsDiffer` and
`LoadInv` say that a global is written by the initialiser of its own call.

`StrelaAddressing_proofs` proves for words, lines and integers of any width:

- `AddressingInvariance`: `Spec => []IInv`, and `AddressingTypes`;
- `ColumnsAreAccepted`: no stage refuses what the one before accepts;
- `LinesAreExact` and `RangeIsKept`, for dispatches that satisfy `NothingWraps`;
- `SlicesAreMoved`, which also needs `WholeRows`;
- `MaintenanceReaches`, for ranges that satisfy `RangesHaveLengths`.

The three conditions are stated as hypotheses because the code does not
guarantee them. `NothingWraps`: no span of a column exceeds `size_t` and no end
exceeds 2^64 (`command_buffer.c:277-284`; the hazards name both lines). `WholeRows` and
`RangesHaveLengths` exclude just what findings 3 and 2 are about. TLC evaluates all
three for the constants of the `addressing` run. The invariant says where the
column came from and what each stage found out about it; the work is in lemmas
about the operators: quotients and remainders, rounding to lines (`LinesCover`,
`LinesInside`), the forms of an offset (`CompiledColumn`, `OffsetIsTheSources`), the
span of a strided column (`MovedBytes`).

`StrelaPlacement_proofs` proves for any function, any devices in any order, with or
without a default affinity or a topology of the module's own:

- `PlacementInvariance`: `Spec => []IInv`;
- `DefinitionsPrecedeUses`, `PlacedWholeOrNot`, `WrappingKeepsTheDataFlow` and
  `StrelaReadsItsMemory`, the four properties of placement.

A wrap rewires what the wraps before it have added, so a block in the middle of it is
hard to describe step by step. The invariant describes it whole: `NodesInv` says what
each node is, as a function of the source and of which operations have been wrapped so
far, `IdsInv` which nodes there are, and `OrderInv` in which order (an operation's sizes, its
transfers in, itself, its transfer back, then what follows it in the source). `CandidatesInv`
says that what is still to be wrapped is an operation that has not been. The lemmas on one
wrap (`WrapShape`, `WrapIs`) say which node is where afterwards, and the theorems follow
from the invariant without looking at a step. `Origin` and `Memory` are recursive
functions over the block, and what they compute is proved without induction: the
invariant leaves at most two transfers between a value and where it comes from
(`TransferDepth`), so both have an explicit form (`OriginIs`, `MemoryIs`).

`StrelaCompiler_proofs` goes on from there to the executables, and proves for any functions,
any sizes, any executables brought along and any values of the sizes known only at run time:

- `CompilerInvariance`: `Spec => []TInv`;
- `GridsCoverResults`, `PlacedOperationsCompile` and `CallsComputeTheirOperations`, the
  three properties of translation, the last if `RelusReadInPlace`.

`TInv` is the invariant of placement and three more parts. `OpsInv`: an operation is
still what it was in the source, and only operations with a kernel are wrapped.
`ExecutablesInv`: what executables, stages and binary look like, and that a binary is what its
executable was serialised to. `CallsInv` is the heart: every call finds, by target and
ordinal, `At(b, stage)`, what the passes up to that stage make of a body `b`, and `b` is
one of four things that formation makes of an operation with a kernel (`IsOneOf`): a matrix
product, a sum of two tensors, a sum that lost an operand to folding, or a relu of one
tensor, in each case on the tensors that the call passes. The proof for formation
(`FormKeeps`) goes through what folding does to the bodies the matchers accept; a pass
(`PassKeeps`) turns `At(b, stage)` into `At(b, next)` for all calls that share the executable;
linking (`LinkKeeps`) moves exports behind each other and calls after them. What the recursive
`MovedExports` puts where is proved by a least counterexample among the numbers
(`LeastFails`, `JoinedIs`): what was moved once stays where it is however much is
moved behind it. The theorems then look at single bodies: `ProductIsCovered` (with a
ceiling division each feature is in a job and each job has a feature of its own: `JobCount`,
`RowIsCovered`), `BodyFits`, `SumComputes` and `ReluComputes`
(each word of the result is written by one point of the iteration space).

`RelusReadInPlace` says that a relu which the dialect accepts reads every word where it writes
it, which the matcher does not ask for: it excludes what finding 5 is about and nothing else.
`MCStrelaCompiler` has TLC evaluate it for the `compiler` run.

Assumptions: `LayoutAssumption` (each word is on a line, and there is a value) and
`DispatchAssumption` (the kernels name words, the ranges are sets of words, a
kernel's results are values); `DeviceAssumption` (the kinds of objects are apart,
and Null is none of them); `SemaphoreAssumption` and the `ProgramAssumption` of
`StrelaQueue` (types of the initial values and the programs); `ResourceAssumption` (counts are numbers, an
executable has an export); `GemmAssumption` (there is a lane) and `ConvAssumption`
(the types of a module); `WidthAssumption` (lines are of whole words, 2^64 of whole
lines, a push constant is half of 64 bits) and `AddressingAssumption` (the types of
sources, columns and bindings; a bound range is inside of its buffer, a buffer inside of
its allocation, and an allocation padded to lines stays below `AllocationLimit`, as it must
for its words to have been counted in `size_t` and to exist; the base of an
allocation is on a line; a column's words fit 32 bits); the `ProgramAssumption` of
`StrelaPlacement` (a function defines each value once and before its uses, an operation of
linalg has an init and nothing is transferred yet, which the IR's verifier and the order of
the passes give; a default affinity, if there is one, is not a STRELA device, as
`TransferWrapPass.cpp:116-117` says); `TranslationAssumption` (a column moves at least a word
and a job computes at least a feature) and `CompilerAssumption` (the operations are what
linalg's verifiers accept, and what is brought along are executables of whatever content).
TLC evaluates them in every run of their module.

Only model-checked: liveness (`CommandsReturn`, `AllCallsReturn`, `InvocationEnds`), which
is beyond the prover. Every invariant and every action property of the passing runs, and both
refinements, are proved, under the hypotheses named above.

## Not modelled

- Diagnostics, tracing, statistics, profiling, entry points that return
  UNIMPLEMENTED, the flatbuffer encoding, the contents of bitstreams other than zero
  points and channel count, the dump of device information.
- `queue_read` and `queue_write`, which hand a file to IREE's streaming.
- The raw device pointer that buffers and executables keep: IREE's convention that
  they do not outlive their device is taken for granted.
- Columns that wrap around (`command_buffer.c:278` on ARMv7, `command_buffer.c:284`):
  the arithmetic of the model does, but the constants of the runs stay below it and the
  theorems assume so.
- `NormalizeRescalePass`: a local rewrite of one operation, without state, order or
  failure. What it changes is the rounding of `tosa.rescale`, whose meaning is
  defined outside of the repository, so there is nothing here to compare it with.
- The executable cache, which holds no state, and registration tables.

## Plan

Done: the command buffer, queue and semaphores, resources, addressing, device
and driver, convolution fusion and GEMM, and the compiler from placement to
serialisation, each with the theorems its properties allow.

Next: the composition of queue and dispatch, several threads with one sticky error and one
CGRA, and `queue_alloca` with the buffers it hands out. The composed specification
should be shown to implement `QueueOrder` and `CoherentMemory` at once.
