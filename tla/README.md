# UnifiedTaskProgramming: a verification project

UnifiedTaskProgramming (UTP) runs block operations on matrices (`gemm`, `syrk`,
`trsm`, `potrf`, `dot`) as graphs of tasks. A program submits one operation; the
operation's *split* makes sub-tasks on the blocks of its data; a chain of
schedulers (DuctTeip between processes, SuperGlue or StarPU between threads, BLAS
at the bottom) runs them, each splitting the tasks of the one above. The
repository has the design twice: `static_binding/` composes the schedulers with
templates, `dispatcher/` and the `*_scheduler/` directories load them at run time.
A third, `non_utp_tests/`, has the same products written on the libraries by hand.

The modules here model what makes that design hard: counters shared by threads
that create and finish sub-tasks at the same time, completion that travels up the
chain, orders between tasks that are kept by data versions across processes and by
access queues across threads, splits whose loops must leave the right value in
every block whatever the workers do in parallel, memory handed down a tree of
blocks by whichever scheduler is told last, and objects that two processes name by
their position in a list.

## 1. Inventory

| component | state | operations | with whom | hard behaviour | correct when |
|---|---|---|---|---|---|
| `PathDispatch` (static) `dispatcher.hpp:159-287`, `operation.hpp` | `child_count` and parent of each task | `submit`, `ready`, `finished` per level | calls the schedulers' static methods; called by their threads | the engine raises the count while workers lower it; the zero may come mid-split | count exact; a completion is never lost; nothing outstanding when `utp_finalize` returns |
| `EdgeDispatch`, `NodeDispatch`, `ForkDispatch` | none | the same, one level | the same | what the end of a task is differs by scheduler; GPU kernels are asynchronous | order of the program; `utp_finalize` waits for all |
| DuctTeip wrapper (static) `sch_ductteip.hpp` | versions of the data, the DTTask of each task | constructor, `runKernel`, `setFinished` | DuctTeip engine (external); several processes | each process builds all tasks at its pace; equality of versions | tasks in conflict in program order; no task waits for ever |
| SuperGlue wrapper (static) `sch_superglue.hpp` | handle of each block | `submit`, `run`, `finished`, memory of blocks | SuperGlue workers (external) | leaves of different parents on one block | leaves in conflict in program order |
| StarPU wrapper `sch_spu.hpp` | handle of each block, codelet of each task | `submit`, `run`, `run_cuda`, `finished`, `register_mem` | StarPU (external) | asynchronous codelets; memory set after registration | order kept; registered memory is the block's |
| block operations `ugemm/usyrk/utrsm/upotrf.hpp`, `ublas/src` | none | split, kernel | submit to the dispatcher | loops over blocks whose order carries the dependences | the sub-tasks compute the operation |
| dynamic dispatcher `Dispatcher.cpp`, `GTask.cpp` | chain of schedulers; owner, parent, `task_count` of each task | `initialize`, `submit_task`, `dispatch_next`, `run_task`, `finished_task`, `finalize` | loads schedulers | attributes set after submission; only the first scheduler finalized | each task runs once, in order; completion reaches the owner |
| `DTWrapper`, `SGWrapper`, `CPUBLAS` | guests of tasks and data | `submitTask`, `runTask`, `finishedTask` | engine and worker threads | non-atomic decrement against atomic increment; guest set after the task is runnable | no lost completion, no null task |
| hand-written products `non_utp_tests/` | `child_count` of a GEMM task | constructor, kernel, destructor | DuctTeip, SuperGlue, cblas | count at zero while the kernel still makes tasks | as the framework |
| `GData`, `GPartitioner` | tree of blocks, memory, guest | construction, `set_next`, `set_partition`, `set_memory`, fills, `print` | tells the schedulers of new data, they call back | four formulas for the place of a block; the last broadcast wins | blocks tile the memory; kernels read what was filled in |
| memory manager | pool of items | `getNewMemory`, `freeMemoryItem`, growth | data | growth of an empty pool | no item handed out twice |
| message queue scheduler `MQWrapper.cpp` | lists of data and partitioners, queues | callbacks, `run_rpc` | another process | what is applied is broadcast again; fields found by counting | fields are what they are taken for; keys resolve; keys agree |
| event log `GLog.cpp` | current record, list per thread | `<<`, `flush` | all threads | shared current record | not modelled |
| command line, drivers, scripts | parameters | `getCmdLine`, the programs | all | which combination of schedulers, cuts and fills they make | inputs of the other models |

DuctTeip, SuperGlue, StarPU, MPI, the message broker and BLAS are libraries outside
the repository. They are modelled by the way the code calls them, and marked
external in the map.

## 2. Modules

`TaskOrder` - the abstract specification: what a scheduler promises to the one who
submits. Tasks are accepted one by one; a task starts when the earlier ones it
conflicts with (one writes what the other accesses) have finished. Every chain
below is shown to implement it.

### Static chains

`PathDispatch` - the chain DuctTeip -> SuperGlue -> BLAS, in two builds. With
`SHORTCUT=0` (or the macro undefined, which is the same) every kernel tells the
dispatcher when it is over. The makefiles `dsb` and `dsb_release` set `SHORTCUT=1`:
the schedulers then call `split` and `run` themselves, `Gemm::run` leaves
`Dispatcher::finished` out (`ugemm.hpp:58-60`), and the code of `SGTask::run` and of
its destructor that would lower the count instead is commented out
(`sch_superglue.hpp:65-97`). The variable `shortcut` is the build, `Reports(c)` says
whether the kernel of leaf c reports. Three kinds of thread:

| action | code |
|---|---|
| `Submit` | a turn of the root split's loop: the task's constructor (`set_parent` raises the root's count), then `DT::submit` constructs the DTTask, which resets the task's own count |
| `FinalizeEngine`, `Barrier` | the two waits of `utp_finalize` |
| `RunKernel` | DuctTeip calls `DTTask::runKernel`, which enters the split; `isFinished` returns early |
| `CreateLeaf`, `SubmitLeaf` | a turn of the split's loop, in the two steps another thread can come between: the constructor's atomic increase, then `SG::submit` |
| `ReturnKernel` | the split's loops are over |
| `RunLeaf` | a worker runs `SGTask::run` and the BLAS kernel |
| `DecreaseCount` | a kernel that reports: `PathDispatch::finished(second)`, `decrease_nv` and the test of the value it returned |
| `ReturnUnreported` | a product with `SHORTCUT=1`: the kernel and `SGTask::run` return, the count stays |
| `FinishParent` | `DT::finished`: `setFinished(true)` |
| `ReleaseLeaf` | `run` returns, SuperGlue releases the handles |

`DTVersions` - how the constructor of DTTask orders the tasks: every process
constructs every task and moves its own read and write versions of the data; the
host of the data written registers the task with the versions it requires; the
engine runs it when the run-time versions *equal* them.

`EdgeDispatch` - extends DTVersions to the programs of one level: DuctTeip over
several ranks (each with its program and its engine), SuperGlue, StarPU with CPU
and GPU codelets (a GPU worker queues the kernel and is free again), and BLAS
alone, where `submit` runs the kernel. The chain is chosen in the initial state.

`PathDispatchProof`, `DTVersionsProof`, `EdgeDispatchProof` - proofs.
`MCPathDispatch`, `MCEdgeDispatch` - instances on the task graphs of the splits.

### Dynamic chains and hand-written products

`DynamicChain` - `Dispatcher`, `GTask`, `DTWrapper`, `SGWrapper` and `CPUBLAS`. The
chain is what the command line asks for (`Configs`), and the program exits if
`load` does not know a name. A submission is several steps (`NewTask`,
`SubmitToSuperGlue` or `AddTask` and twice `SetGuests`, `SetAttributes`), because an
engine or a worker may come between them; `task_count--` is a load (`LoadCount`),
a store (`StoreCount`) and a second read (`TestCount`) under a lock that
`set_parent` does not take.

The wrappers do not register the accesses an operation declares (`packAxs`).
`SGWrapper.cpp:152` and `DTWrapper.cpp:60` test `args[i]->axs`, a field of `GData`
(`GData.hpp:20`) that no code writes; what was declared is in `args->axs`, which they
do not read. What stands in the memory of a datum thus decides, for the whole run,
whether its tasks are all registered as readers (the value of `In`, 1) or all as
writers (any other value, so also zeroed memory). `Conflict` is what is declared
(from `Reads` and `Writes`), `Registered(held)` what is registered if `held` are the
data in whose field `In` stands. The initial state draws `held` from `HoldIn`, and
`Blockers` and `DataReady` go by `registered`. The products of `non_utp_tests`
register what they declare.

`HandWritten` - extends it with the four products of `non_utp_tests`: `dsb_gemm`
(DuctTeip and SuperGlue; the constructor and the destructor of a GemmTask count),
`db_gemm`, `sg_gemm` and `bo_gemm` (cblas alone). `HandWrittenProof` - the proofs
about both modules.

### Operations

`UblasSplits`, `UnifiedSplits` - the sequences of sub-tasks of every split of the
static and the dynamic operations, as pure operators.

`TiledOperation` - a split's sub-tasks run by the abstract scheduler (`TaskOrder`,
by INSTANCE), with values: a block holds the bag of the symbolic terms added up in
it, a kernel reads its arguments when it starts and writes the last one when it
finishes. `MCTiledOperation` states what each operation computes on the whole.
`TiledOperationProof` - its proof.

### Data

`BlockTree` - the arithmetic of blocks and elements. `DataTree` - GData of both
variants with the schedulers that are told of it: each action is the body of one
function, which replaces itself in `calls` by the calls it makes, in their order.
`Drivers` - the data of every program of the repository, the chain it is bound to,
its fills; `CommandLine` - `getCmdLine`, from which the sizes come. `MCDataTree`
puts them together; `DataTreeProof` - the proofs.

`MessageQueue` - two processes whose `MQWrapper`s are cross-connected: the main
thread of one makes data and partitioners, each callback puts a message, the io
thread of the other applies it by calling the same constructors, which put
messages in their turn. The program holds pointers: it names its objects by the
order it made them in (`mine`), and which key each has depends on the race with the
io thread. `MCMessageQueue` has the program of `ugemm_app.cpp`;
`MessageQueueProof` - the proof.

`MemoryPool`, `MemoryPoolProof` - the memory manager.

### How they compose

PathDispatch and DynamicChain take `DataReady` from what EdgeDispatch shows of the
versions (both implement TaskOrder for the same conflicts). TiledOperation builds
on TaskOrder alone, so what it shows holds under each chain that implements it. The
splits of UblasSplits are the programs of the dispatch models. DataTree shows that
two tasks on different blocks have different memory and that one block is one
handle, which is what the other models take when they speak of blocks.

Operators marked *Fault* are mistakes the code could have made, kept to see each
property fail on one.

## 3. Runs

| run | instance | shows |
|---|---|---|
| `path_safety` | 2 tasks (potrf of 4 leaves, trsm of 6, 2 of them products), both builds, 2 workers; 963 826 states | `CountIsExact`, `NoLostCompletion`, `LostForGood`, `LeafOrder`, `FinalizeComplete`, the inductive invariant, `ImplementsTaskOrder`, `Termination` |
| `edge_chains` | trsm then potrf of 2 x 2 blocks, 10 tasks, on the four chains; DuctTeip on 2 ranks; 2 CPU workers; 151 659 states | `NoVersionSkipped`, `FinalizeComplete`, `ImplementsTaskOrder`, `ProgramsReturn` |
| `dyn_chain` | the configurations of `run_tests.sh` and the four products; 1 or 2 tasks of 2 sub-tasks each, three choices of what is registered, 2 workers; 354 232 states | `CountsKept`, `CompletionKept`, `KernelOrder`, `FinalizeCompleteOfTwo`, `ImplementsTaskOrder`, `Termination` |
| `tiled_mixed` | one program of potrf (3 x 3), utrsm of a vector, udot (3 parts), copy, then potrf, utrsm, gemm and syrk (2 x 2); 95 421 states | `ComputesOperation`, `OperandsAreSequential`, `OperandsAreStable` |
| `data_tree` | all drivers over all combinations of schedulers, 5 shapes; 103 792 states | `GuestOfScheduler`, `BlocksTileMemory`, `NoWildPointer`, `RegisteredAtMemory`, `KernelsSeeTheFill`, `PrintShowsTheFill` |
| `mq_wire` | three data, 1 x 1 cuts, at most 8 objects of a kind per process; 1 633 148 states | `ReadsItsFields`, `KeysResolve` |
| `memory_pool` | 5 users, pools built with 0 to 3 items; 6 665 states | `OneUser`, `NoLeak`, `OnlyEmptyPoolFails`, `GrowsOnDemand` |
| `tiled_trsm` | static trsm, 2 x 2 blocks | *violation*: blocks are solved before they are updated |
| `dyn_alpha` | SuperGlue over BLAS | *violation*: a kernel reads alpha before it is set |
| `dyn_finalize` | three schedulers | *violation*: `utp_finalize` returns with kernels queued |
| `data_hilbert` | `main_cholesky` without DuctTeip | *violation*: the kernels read another matrix than the one filled in |
| `mq_keys` | as `mq_wire`, 2 x 2 cuts | *violation*: the assertion of `CreatePartition` |

Bounds and why they are enough.

* Two workers and two tasks let a worker see a zero while the split goes on, two
  workers finish children of one parent together, and leaves of two tasks meet on
  one block. For PathDispatch, DynamicChain and HandWritten the proofs remove the
  bound.
* `SHORTCUT` is a macro of the headers, and the program the two makefiles build with
  1 is a product (`main_DT_SG_BLAS.cpp`), whose leaves are all products. The run puts
  it on the Cholesky graph, where leaves that report and leaves that do not have one
  parent: a task can then be flagged by a zero from before its first product, or
  never. With products only it is always the second.
* `HoldIn` in `dyn_chain`: `In` stands in the field of no datum (all accesses are
  registered as writes), of the data that are only read (what is declared is
  registered), or of the blocks the program's tasks write (the order of the tasks is
  lost, that of the sub-tasks is kept). The proofs have any set of data.
* Two ranks: each rank's versions depend on the program only, so a third adds only
  interleavings. The ten tasks of `edge_chains` write blocks others have read
  (potrf overwrites what the solve reads), across ranks. The proofs remove the
  bounds on ranks, tasks, data and workers.
* In `tiled_mixed` each of the three parts waits for the one before at the block
  that holds its last result, so that their interleavings add up rather than
  multiply; the proofs remove the bound for the order of the operands. 3 x 3
  blocks are the least at which potrf has a chain through all its loops; 3 parts
  the least at which the tree of sums has an odd level; the later operations
  overlap in the blocks they write.
* `data_tree`: the drivers make each matrix independently, so one matrix at a time
  is enough; the shapes have rectangular matrices, blocks and grids, single
  elements and a vector, where the formulas that confuse rows and columns differ.
  The proofs remove the bound on the shapes and on the programs.
* `memory_pool`: five users make a pool of one grow twice. The proofs remove it.
* `mq_wire`: with B1 = 1 the first echoes come back before the program is through;
  `MaxObjects` stops the two processes from answering each other for ever. The run
  has no deadlock check because a process may stop at that bound or at the
  assertion. `memory_pool` has none because a crashed pool stops. The proofs remove
  the bounds on the program, the cuts and the objects.
* `ShapesAssumption`: cuts divide the matrix, as in the scripts (the code
  truncates).

Fairness. Weak fairness of the program's thread, of the engine's loop and of each
worker: nothing in the code blocks a thread that has a step to take, and a worker
takes any task that is ready. In `PathDispatch` less is enough, that some thread with
a step to take takes it: there are finitely many steps. In `EdgeDispatch` it is asked
of each rank's program and engine and of the workers together. `TaskOrder`,
`TiledOperation`, `DataTree`, `MessageQueue` and `MemoryPool` need none.

Assumptions about the libraries. DuctTeip runs one kernel at a time on its engine
thread and its `finalize` returns when every registered task is finished and no
kernel is running; an access advances a datum's read version and a write brings the
write version up to it (`IData::incrementVersion`); `createSuperGlueHandles`
returns the handles of the data itself. SuperGlue's tasks wait for earlier
conflicting accesses of the same handle that are not released; it destroys a task
after that release; `barrier` returns when no task is left. StarPU keeps the tasks
of a handle in submission order. The broker keeps the order of each queue. In
`PathDispatch`, `DynamicChain` and `HandWritten` all tasks belong to one process.

## 4. What the violations say

* `tiled_trsm`: the static `Trsm::split` submits `trsm(A(i,i),B(j,i))` before the
  `gemm`s that update `B(j,i)`; the dynamic one has them in the other order.
* `dyn_alpha`: `ugemm_dec` and `utrsm` set Alpha on a task that `submit_task` has
  already handed to the scheduler; a worker may run its kernel with the default.
* `dyn_finalize`: `Dispatcher::finalize` finalizes the first scheduler only. With
  DuctTeip over SuperGlue the count of a task comes to zero while its operation
  still submits, DuctTeip takes the task for finished, and `utp_finalize` returns
  with sub-tasks queued. (The static `utp_finalize` also waits for SuperGlue.)
* `data_hilbert`: `fill_hilbert` stores by columns of the whole matrix, the other
  fills block by block, as the kernels read.
* `mq_keys`: MQWrapper is the first scheduler of both processes and its callbacks
  do not distinguish an object made by the program from one made for a message:
  everything is echoed, the echo of the first partitioner makes a second one, and
  the assertion that its key is the sender's stops the process.

Two things hold only in part, and the properties say for which part.

* The build with `SHORTCUT=1` hangs. `Termination` of PathDispatch allows for it by name
  (`Lost`): a task of which a product has been constructed and that has not been
  flagged by then is never flagged (`LostForGood`), so that `dtEngine.finalize` does not
  return and `main_DT_SG_BLAS.cpp:31-33` prints no "Finished". `NoLostCompletion` is
  about tasks whose leaves all report.
* The order of kernels in DynamicChain is that of what is registered (`KernelOrder`),
  not of what the operations declare. The two agree, or more is ordered than
  declared, if `In` stands in the field of no datum that somebody writes
  (`KeptUnlessHeld`); `ImplementsTaskOrder` has the hypothesis `Kept` that no declared
  conflict is missing. With zeroed memory it holds, and tasks that only read a
  block run one after the other; otherwise two kernels may write one block at
  the same time, and nothing in the code would notice.

What holds although it looks doubtful: in PathDispatch, DynamicChain and `dsb_gemm` a
task may be flagged finished with sub-tasks outstanding. Inside one process the
sub-tasks still run in the registered order, because they have all been registered
with SuperGlue by the time the engine enters the next operation. Increases of
`task_count` are lost in DTWrapper, but an update is only ever lost towards a lower
count, so that no completion is lost. Keys of the two processes of the message queue
drift apart, but no message to the application names a key it does not have, whatever
the program (proved). For the other direction this is only true of a program that cuts
its data early enough (`FirstCutEarly`; proved), like `ugemm_app`, which cuts its
first datum first: the io thread of the application broadcasts an echo some time after
constructing it, and meanwhile the main thread can broadcast a later object that names
it. A program that makes two data and cuts the second one first stops the server in a
run of TLC.

## 5. Proofs

`PathDispatchProof` holds for every number of tasks, leaves and workers and every
choice of data accesses with `SizesAssumption` (a split makes at least one leaf) and
`SplitAssumption` (leaves of two tasks conflict only if the tasks do).

The properties are not inductive as they stand. `IndInv` adds to `TypeOK` and
`CountIsExact`:

* `SplitProgress`: what is submitted follows the engine's place in the loops;
* `TasksInOrder`: a started task found its earlier conflicting ones flagged;
* `ZeroIsSeen`: the step NoLostCompletion misses - from the first leaf on, whenever
  no leaf is counted somebody has seen, or is about to act on, the zero (a product
  that does not report stays counted, `Counted`);
* `LeavesWait`: a leaf waits for the earlier ones it conflicts with, or found them
  done. Across tasks it rests on `TasksInOrder` (the earlier task is flagged, so its
  split has begun, and the engine, busy with this one, is not in it: all its
  leaves are submitted), which is why a premature flag does no harm here;
* `FinalizeWaits`: what the program has waited for.

Each part has a lemma that every step keeps it, with one step per action.
Theorems: `TypeCorrect`, `Inductive`, `CountCorrect`, `CompletionCorrect` (where the
kernels report), `LossCorrect` (where they do not: the count of a lost task is the
number of leaves still counted, never zero again), `LeafOrderCorrect`,
`FinalizeCorrect`, and `Refinement` (PathDispatch implements TaskOrder). They hold of
both builds and every choice of the leaves that are products.

`DTVersionsProof` and `EdgeDispatchProof`: any number of ranks, tasks, data and
workers, with the assumptions of the modules: the sizes are numbers, the arguments are
data, no task names one data twice when it writes it (`NoAliasAssumption`: no split
makes one; it would wait for itself), and a task writes data of one host only
(`OneHostAssumption`: every split writes its last argument and nothing else).

* `DTVersionsProof` is about one step of a program or an engine. `DTInv` says what
  the numbers mean: a version a rank's program holds is the number of accesses by the
  tasks it has built so far, the version a task requires is the number of accesses by
  the tasks before it, a run-time version is the number of accesses by the finished
  tasks. The tasks that have changed a run-time version are then among those the
  required version counts (`NoVersionSkipped` in the strong form: nobody overtakes),
  and a set of accesses included in another of the same size is that other: versions
  that are *equal* mean that every earlier access has been made (`ReadyInOrder`).
* `EdgeInv` adds what the chains do with it: `Ordered` (a started task found its
  earlier conflicting ones finished), `Accepted` (what has started has been
  accepted), `OneProcess` and `WaitsCover` for the chains of one process (a task
  of SuperGlue or StarPU waits for the earlier ones it conflicts with unless they
  were over when it was submitted), `OneAtATime` for an engine and for BLAS,
  `GpuOfStarPU`, and `ProgramOver` for what each rank's program has waited for.
  Theorems: `EdgeInductive`, `EdgeTypes`, `VersionsNotSkipped`, `EdgeFinalize`, and
  `EdgeRefinement`: each chain implements TaskOrder, where the tasks accepted are
  those the furthest rank has built.

`TiledOperationProof`: for every program of sub-tasks, no kernel writes what a
running one works on (`StableOperands`; the invariant is the order of conflicting
tasks, `Ordered`, with `OperandsAreStable`), each kernel starts on what the
sequential run of the program has in its operands (`SequentialReads`) and the
blocks end as in the sequential run (`SequentialResult`): the data of a task are
touched only by tasks it conflicts with, so that what has finished of them is what
comes before it in the program. That the sequential values, a function defined by
recursion on the tasks, satisfy their equations is proved by a least
counterexample rather than by the library's induction theorem.
`ParallelComputes`: if the sequential run computes the operation, every parallel
run does. The hypothesis is a property of the loops, which `tiled_mixed` checks (the
sequential run is one of its behaviours) and `tiled_trsm` finds false of the static
trsm.

`MemoryPoolProof`, for any number of users and any initial size: `PoolTypes`,
`PoolOneUser` (no item has two users), `PoolNoLeak` (an item marked in use has its
user), `PoolFails` (only a pool built empty dereferences null) and
`PoolGrowth` (a grown pool is at most half as large again as the items once held
together). The invariant adds that the items held are in use and counts them; the
growth needs that a pool expands only when all are held.

`HandWrittenProof`, for the programs of DynamicChain and the products of HandWritten:
any number of tasks, sub-tasks and workers, every configuration `ChainAssumption`
allows (a chain the scripts ask for, or one `load` refuses), with
`ProductsAssumption` and `BlocksAssumption` (by the declared accesses, sub-tasks of two
tasks conflict only if the tasks do; only `DeclaredOrder` needs it), and any set of data
in whose unwritten field `In` may stand. `HandInv` has two halves, because some thirty
handlers touch the tasks in only eight ways, and few of them touch a count.

* `OrderInv`: what a step does to a task is one of eight *effects* (it is handed over,
  its submission goes on, the engine takes or leaves it, a worker takes it or goes on
  with it, the program runs it itself, the program ends), and each keeps the order of
  what is registered, which `Ordered` says of two kernels: they are registered in
  conflict, and so are their parents if they differ. The steps behind it: a sub-task
  is made by the operation of its parent (`Submission`), all of them are registered
  when the engine leaves it (`SplitDone`), the engine is in one task at a time
  (`EngineAtWork`) and enters a task after the earlier conflicting ones are flagged
  (`FlagsInOrder`). With three schedulers a flag may come too early (`Flags`), but not
  before the operation has begun; so the next operation the engine enters finds the
  sub-tasks of the earlier one registered, and SuperGlue makes its own wait for them
  (`Covered`, `KernelsInOrder`). A program `load` made exit does nothing (`Blank`).
* `CountInv` for DTWrapper's `task_count--`: neither the count nor what a worker has
  loaded of it is above the number of sub-tasks counted, because the store can drop
  increases made since the load and nothing else; and as long as a task is not
  flagged its count is at least one, except before the first sub-task and between
  the store of a worker and its test (`NotFlagged`). The zero is thus always in the
  hands of a worker that is about to see it. `HandCountInv` for the products, whose
  counting is atomic: the count is the number of GemmTasks alive, and the destructor
  of the last one flags the task.

Theorems: `HandInductive`, `HandTypes` (with the range of the count),
`CountsCorrect`, `CompletionsCorrect`, `KernelsCorrect`, `FinalizeOfTwoCorrect`
(with two schedulers `utp_finalize` waits for all; with three it does not, see
`dyn_finalize`), and `ChainRefinement`: under `Kept` every program implements TaskOrder
on the declared conflicts, where the tasks accepted are those handed to the first
scheduler. `DeclaredOrder` is the order of kernels by declared accesses under `Kept`,
and `KeptUnlessHeld` says when that is the case. They are a prefix of the
program, so that their number says which they are.

`MessageQueueProof`: for every program that makes data and partitioners, links them
and cuts data (`ProgramAssumption`), with no bound on the cuts, on the objects
or on the messages on their way (`MaxObjects` can be any number). `MQInv` has six parts.

* `Typed`; `ObjectsOK` (a datum is made after its parent; what objects and the
  program's pointers refer to is there); `CallsOK` (what a pending call names is
  there when it is its turn, save the child of a parent cut again, at which
  `set_partition` stops).
* `MessagesOK`: the fields of each message are where `run_rpc` looks for them. It
  rests on the lemmas on the layouts of a partitioner and of a datum, the second
  with the group of four fields that is there when the datum has been cut and the
  one field that is there when it has not.
* `InOrder` and `AllSent`. The server has one thread, so it broadcasts an object
  before it makes the next: each of its objects is pending (the callback is that
  thread's next call) or its creation is on its way or has been applied. Hence
  the creations reach the application in the order of their keys and before any
  message that names them, and as the application makes at least one object for each
  of them it has that key by then. Objects it makes by itself only help.

To the server the application, with its two threads, broadcasts objects in another
order than it constructs them, so that a message can name an object whose creation
comes after it. `ServerInv` shows why the server has it all the same. It counts:

* `ServerHas(n)` is how many data the server has at least when it has taken n
  messages: those it has, one it is about to construct, one for each creation on its
  way, and one more if it has cut nothing yet and is told to (a cut has a block at
  least). `Counted`: the application has at most that many, save those it has
  constructed and not broadcast (`Unsent`, one for each thread) and with one to
  spare once the server is told of a cut. `DataKnown`: the datum a message names
  is below `ServerHas` when the server comes to it.
* Once there has been a cut (`EverCut`) the one to spare makes up for the other
  thread's object: what the thread that broadcasts names is older than its own
  object. Before the first cut there is none to spare. Then what the io thread
  constructs answers data of the server (`GoodOfIo`, `Answers`), and what the main
  thread names is the first datum of all or older than another of the program
  (`GoodOfMain`, `Older`), which is where `FirstCutEarly` comes in: the datum that is
  cut first is the first one made, or another one has been made after it.
* `OfProgram`, `Increasing` and `FirstIsMine` tie the calls that are pending to the
  program's text, and the program's pointers to keys.
* `PartsKnown` and `LinksSent`: a partitioner is broadcast before anything points at
  it. The server may stop at the assertion of `CreatePartition` (`mq_keys`) before it
  has one (`Doomed`); then it comes to no later message.

Theorems: `MQInductive`, `FieldsCorrect` (`ReadsItsFields`), `AppKeysCorrect`
(`KeysResolveAt("app")`, for every program), `KeysCorrect` (`KeysResolve`, for every
program with `FirstCutEarly`, which `MCMessageQueue` evaluates for the program of its
run).

`DataTreeProof`, for every program `ProgramsAssumption` allows (the chains there are
and a program that sets no memory in the dynamic variant), every shape whose cuts
divide it (`ShapesAssumption`) and every set of blocks a rank holds. One thread runs
all calls, so the hard part is what the calls that are still to be made leave
half done.

* `Tree`: the pending calls come in the order of `Rank` (StarPU is told of memory, memory
  is set, the schedulers are told of the new data, its siblings are made, the
  schedulers are told of the cut, the children are cut). It follows what each call
  relies on when its turn comes (`CallOK`): a child is made after its parent and once,
  a data is cut once, memory is set of data whose children are all there or not
  begun, at a place within its buffer. `Allocated`: in the dynamic variant SuperGlue,
  which adds to the parent's memory without a check, finds some.
* `Registering`: StarPU knows a block by its memory, or is about to be told.
* `Guesting`: a block has the guest of its scheduler, or the broadcast that leaves it
  is pending; no child of the root is made after DuctTeip has linked its blocks.
* `Sharing`: a block has its part of its parent's memory, or a call is pending that ends
  in its being set (`Shared`). For `set_memory`, which overwrites what is below, this
  needs that all pending settings of one data agree (`OneValue`), that one that is
  pending below another has the memory that is there already (`SetAbove`) and is the
  right part of it (`Handing`). `Relinking` is about the second call of DuctTeip,
  which sets the memory of a block again when its children are there: it is what
  gives a block's children their memory without SuperGlue. The root is left out
  while DuctTeip's blocks have memory of their own (`Tied`), and a program whose
  schedulers allocate nothing has none to share (`NothingYet`). That the parts
  tile the memory is the arithmetic of `Parts`.
* `FillingInv`, for the elements. The fills come last (`OnlyFills`): they find the
  tree finished and the memory of the whole handed down (`RootCut`, `Linked`, `Written`).
  `setElement` finds a place by `ElementOffset`, a sum of four products; it gives each
  element of the whole one place (`StoredOnce`) and leaves no place out
  (`StoredInWhole`), for every cut that divides the matrix. So when nothing is pending
  each place holds what was meant for it (`FilledAll` for the fill with one value, which
  goes down to the blocks, `FilledEach` for the fills by elements), and on top of
  `MemoryTiled` the readers find it.

Theorems: `TreeInductive`, `TypeCorrect`, `NullStaysNull` (`NoWildPointer`),
`StarPUInformed` (`RegisteredAtMemory`), `GuestsAreTheirs` (`GuestOfScheduler`),
`MemoryTiled` (`BlocksTileMemory`), `KernelsReadTheFill` (`KernelsSeeTheFill`) and
`PrintReadsTheFill` (`PrintShowsTheFill`). The last two have a hypothesis on the
programs, `FilledForKernels` and `FilledForPrint`: a fill by elements writes through the
memory of the whole and follows its cut only, so kernels and print read it if the whole
has the blocks' memory and the blocks are not cut again, or if all elements are the
same. `MCDataTree` evaluates both for every program of its run; the program left out,
Cholesky without DuctTeip, fills by the columns of the whole and is what `data_hilbert`
shows.

Model-checked only: `Termination` and `ProgramsReturn` (liveness is out of the
prover's reach); `ComputesOperation` without the hypothesis above (what the loops of
one operation compute is found by running them).

## 6. Not modelled

* Signs, scaling and transposition of the kernels, and the GPU kernels. Reading
  them shows differences a symbolic value without sides cannot: `utrsm.hpp:58`
  solves from another side than line 37; `ugemm.hpp:96` takes neither alpha, beta
  nor `trans_b`; `trans_b` is unset outside the split of syrk and read all the
  same (`ugemm.hpp:48`), which `UblasSplits` marks.
* The memory of data that another rank hosts: DTTask's constructor allocates it and
  sets it on the block (`sch_ductteip.hpp:113-122`) while the tasks are submitted,
  after the tree of DataTree is finished. DataTree has the blocks of a rank that holds
  no memory for them, up to that call.
* Data cut differently from each other (all drivers cut them alike): the loops of
  gemm then take the wrong count (`ugemm.hpp:146`, `unified_gemm.cpp:27`).
* `ForkDispatch`: it calls a `finished` of one argument that it does not have, and
  its build defines the dispatcher twice. `EdgeDispatch::finished(second)` and
  `PathDispatch::finished(third)` are reached by no chain that is built. The tasks
  of a `DT_SPU_BLAS` program; its data are in DataTree.
* Sub-tasks of `utrsm` in the dynamic variant: `unified_trsm.cpp:35-39` submits
  them without a parent, so that they start at the first scheduler. The programs of
  DynamicChain are products; the split itself is in `tiled_mixed`.
* Tasks in MessageQueue. The constructor of GTask assigns its parameter `key`, so
  the member is never initialised; after `CreateTask` the parent is unset; a
  handle's key is written as eight bytes and read as four. What a message of a task
  does is thus not determined by the code. The registration of an object is one
  step although the two threads of a process race on the lists (a hazard);
  `CreatePartition` exchanges x and y, which square cuts do not show. `import_all`
  and `export_all` exist in the LOCAL_DEV build only and nothing calls them.
* The cuBLAS back ends: `load` has the dynamic one commented out (`dyn_chain` has
  the configuration that asks for it: the program exits), the static one wraps one
  library call. `simpleCUBLAS.cpp` is a vendor's example.
* Event log: no decision reads it. `EchoScheduler`, `add_scheduler`, `is_owner`,
  files marked deprecated, `lupp/main.cpp` (does not compile), `test_MQ` (prints
  one line): dead code. `atomic.hpp` is SuperGlue's.
* Nothing in the repository builds a `MemoryManager`: the model's users are whoever
  would.
* StarPU's rejection of a task (`ENODEV` is printed and ignored), and blocks of more
  than 2000 x 2000 elements, which are not registered. The leading dimension: the
  kernels use the block's own rows, as `register_mem` does.

## 7. Plan

The model covers the chains that are built, the operations, the data and the
message queue; the safety of all of them is proved but for what section 5 lists as
model-checked. What is left, in this order:

1. Products on data cut differently, with the splits as they are in the code.
