----------------------------- MODULE DynamicChain -----------------------------
(***************************************************************************)
(* The dynamically bound framework: Dispatcher and its chain of schedulers *)
(* DuctTeip, SuperGlue and the CPU BLAS, chosen on the command line.       *)
(*                                                                         *)
(* The program submits the sub-tasks of an operation to the first          *)
(* scheduler.  A task owned by the scheduler before the last one runs its  *)
(* kernel in BLAS; any other task runs its operation, which submits        *)
(* sub-tasks with that task as parent to the next scheduler.  Three kinds  *)
(* of thread take part: the program, DuctTeip's engine, SuperGlue's        *)
(* workers.                                                                *)
(*                                                                         *)
(* DuctTeip and SuperGlue are libraries outside the repository: they       *)
(* appear through the calls the code makes to them.                        *)
(***************************************************************************)
EXTENDS Integers, Sequences, FiniteSets

CONSTANTS
    Configs,     \* what --scheduler1, 2 and 3 may be on the command line, "" if
                 \* they are not given
    NTop,        \* tasks the program may submit
    Arity,       \* Arity[p]: sub-tasks the operation of task p submits
    NWorkers,    \* SuperGlue workers
    Reads,       \* Reads[t]: the data packAxs declares In for task t
    Writes,      \* Writes[t]: those it declares Out or InOut
    HoldIn       \* the sets of data in whose GData::axs the value of In may stand

Tops == {<<p>> : p \in 1..NTop}
Subs == UNION {{p} \X (1..Arity[p]) : p \in 1..NTop}
Tasks == Tops \cup Subs
NoTask == <<>>

-------------------------------------------------------------------------------
(* utp_initialize *)

\* load makes the three; it knows UTP_MQ as well (see MessageQueue), and no
\* other name.
Loads(name) == name \in {"DuctTeip", "SuperGlue", "cpuBLAS"}

\* Dispatcher::initialize: the schedulers given, each linked to the one before.
Chain(c) == SelectSeq(<<c.sch1, c.sch2, c.sch3>>, LAMBDA name : name # "")

\* The program exits unless a first scheduler is given and load knows all.
Starts(c) == c.sch1 # "" /\ \A i \in DOMAIN Chain(c) : Loads(Chain(c)[i])

\* The chains the scripts of the repository ask for; a chain of one scheduler,
\* or one that does not end in a BLAS, has no scheduler to run a kernel.
ASSUME ChainAssumption ==
    /\ \A c \in Configs : Starts(c) =>
          Chain(c) \in {<<"DuctTeip", "SuperGlue", "cpuBLAS">>,
                        <<"DuctTeip", "cpuBLAS">>, <<"SuperGlue", "cpuBLAS">>}
    /\ NTop \in Nat \ {0}
    /\ NWorkers \in Nat \ {0}
    /\ Arity \in [1..NTop -> Nat \ {0}]

Args(t) == Reads[t] \cup Writes[t]

\* The tasks of which one writes, by the declared accesses, what the other uses.
Conflict ==
    {e \in Tasks \X Tasks : /\ e[1] # e[2]
                           /\ \/ Writes[e[1]] \cap Args(e[2]) # {}
                              \/ Writes[e[2]] \cap Reads[e[1]] # {}}

\* A sub-task accesses blocks of its parent's data.
ASSUME BlocksAssumption ==
    \A c, d \in Subs :
        c[1] # d[1] /\ <<c, d>> \in Conflict => <<<<c[1]>>, <<d[1]>>>> \in Conflict

\* The wrappers do not look at the declared accesses.  They test the field axs of
\* each argument's GData, which is never written: a datum in whose memory In
\* happened to stand is registered as read by all its tasks, any other as written
\* by all.  These tasks conflict for SuperGlue and DuctTeip if "held" are the data
\* of the first kind.
Registered(held) ==
    {e \in Tasks \X Tasks :
        e[1] # e[2] /\ (Args(e[1]) \cap Args(e[2])) \ held # {}}

VARIABLES
    chain,       \* the schedulers, from the first to the last
    registered,  \* the pairs of tasks that are registered in conflict
    length,      \* how many tasks the program submits
    prog,        \* what the program does
    stage,       \* stage[t]: how far the submission of t has come
    run,         \* run[t]: how far its execution has come
    isFinished,  \* setFinished(true) has been called on t's DuctTeip task
    engine,      \* the task whose runKernels the engine is in, or NoTask
    task_count,  \* GTask::task_count
    lock,        \* the task whose worker holds DTWrapper::thread_lock, or NoTask
    loaded,      \* loaded[t]: the value of task_count the worker of t has loaded
    waits,       \* waits[t]: the tasks SuperGlue makes t wait for
    sawAlpha     \* sawAlpha[t]: t's kernel has read the alpha the caller chose

vars == <<chain, registered, length, prog, stage, run, isFinished, engine, task_count,
          lock, loaded, waits, sawAlpha>>

Stages == {"none", "built", "queued", "linked", "mapped", "returned"}
RunStates == {"idle", "operation", "kernel", "count", "stored", "release",
              "over"}

TypeOK ==
    /\ registered \subseteq Tasks \X Tasks
    /\ length \in 1..NTop
    /\ prog \in {"submit", "finalize", "done", "exited"}
    /\ stage \in [Tasks -> Stages]
    /\ run \in [Tasks -> RunStates]
    /\ isFinished \in [Tops -> BOOLEAN]
    /\ engine \in Tops \cup {NoTask}
    /\ task_count \in [Tops -> Int]
    /\ \A p \in Tops : task_count[p] \in -Cardinality(Subs)..Cardinality(Subs)
    /\ lock \in Subs \cup {NoTask}
    /\ loaded \in [Tasks -> Int]
    /\ waits \in [Tasks -> SUBSET Tasks]
    /\ sawAlpha \in [Tasks -> BOOLEAN]

\* A program with the given chain and conflicts, before its first task.
InitOf(schedulers, conflicts) ==
    /\ chain = schedulers
    /\ registered = conflicts
    /\ length \in 1..NTop
    /\ stage = [t \in Tasks |-> "none"]
    /\ run = [t \in Tasks |-> "idle"]
    /\ isFinished = [t \in Tops |-> FALSE]
    /\ engine = NoTask
    /\ task_count = [t \in Tops |-> 0]
    /\ lock = NoTask
    /\ loaded = [t \in Tasks |-> 0]
    /\ waits = [t \in Tasks |-> {}]
    /\ sawAlpha = [t \in Tasks |-> TRUE]

Init ==
    \E c \in Configs, held \in HoldIn :
        /\ InitOf(Chain(c), Registered(held))
        /\ prog = IF Starts(c) THEN "submit" ELSE "exited"
-------------------------------------------------------------------------------
(* The chain *)

\* Tree::find: the place of a scheduler in the chain.
Find(s) == CHOOSE i \in 1..Len(chain) : chain[i] = s

Parent(t) == IF t \in Subs THEN <<t[1]>> ELSE NoTask

\* dispatch_next: a task without a parent goes to the first scheduler, any
\* other to the one after its parent's owner.
Owner(t) == IF Parent(t) = NoTask THEN chain[1] ELSE chain[Find(chain[1]) + 1]

\* run_task and finished_task: the scheduler after the owner is the last.
BeforeLast(t) == Find(Owner(t)) + 1 = Len(chain)
-------------------------------------------------------------------------------
(* Submission: by the program, and by the engine for the sub-tasks of the   *)
(* task whose operation it runs                                             *)

\* The order in which a thread submits: one task after the other.
Earlier(t) ==
    IF t \in Tops THEN {<<q>> : q \in 1..t[1] - 1} ELSE {t[1]} \X (1..t[2] - 1)

Submitting(t) ==
    /\ \A u \in Earlier(t) : stage[u] = "returned"
    /\ IF t \in Tops THEN prog = "submit" /\ t[1] <= length
       ELSE engine = Parent(t) /\ run[engine] = "operation"

\* The constructor of GTask: the task has the default attributes, no parent yet
\* and no scheduler.
Construct(t) == stage[t] = "none" /\ stage' = [stage EXCEPT ![t] = "built"]

\* set_parent: the parent's task_count is increased in one step.
SetParent(t) ==
    IF t \in Subs
    THEN task_count' = [task_count EXCEPT ![Parent(t)] = @ + 1]
    ELSE UNCHANGED task_count

\* submit_task, up to dispatch_next.
NewTask(t) ==
    /\ Submitting(t)
    /\ Construct(t)
    /\ SetParent(t)
    /\ UNCHANGED <<prog, run, isFinished, engine, lock, loaded, waits, sawAlpha>>

\* Fault: a task that runs is not waited for.
BlockersIdle(t) ==
    {u \in Tasks : /\ Owner(u) = "SuperGlue" /\ stage[u] \notin {"none", "built"}
                   /\ run[u] = "idle" /\ <<u, t>> \in registered}

\* Tasks of SuperGlue registered in conflict with t that are not over.
Blockers(t) ==
    {u \in Tasks : /\ Owner(u) = "SuperGlue" /\ stage[u] \notin {"none", "built"}
                   /\ run[u] # "over"
                   /\ <<u, t>> \in registered}

\* SGWrapper::submitTask: SGGenTask registers an access for every argument and
\* SuperGlue takes the task.
SubmitToSuperGlue(t) ==
    /\ Submitting(t)
    /\ stage[t] = "built" /\ Owner(t) = "SuperGlue"
    /\ stage' = [stage EXCEPT ![t] = "mapped"]
    /\ waits' = [waits EXCEPT ![t] = Blockers(t)]
    /\ UNCHANGED <<prog, run, isFinished, engine, task_count, lock, loaded, sawAlpha>>

\* DTWrapper::submitTask up to addTask: the versions of the data are taken
\* (see DTVersions) and the engine has the task.
AddTask(t) ==
    /\ Submitting(t)
    /\ stage[t] = "built" /\ Owner(t) = "DuctTeip"
    /\ stage' = [stage EXCEPT ![t] = "queued"]
    /\ UNCHANGED <<prog, run, isFinished, engine, task_count, lock, loaded,
                   waits, sawAlpha>>

\* dt->set_guest(t), then t->set_guest(dt).
SetGuests(t) ==
    /\ stage[t] \in {"queued", "linked"}
    /\ stage' = [stage EXCEPT ![t] = IF stage[t] = "queued" THEN "linked" ELSE "mapped"]
    /\ UNCHANGED <<prog, run, isFinished, engine, task_count, lock, loaded,
                   waits, sawAlpha>>

\* submit_task returns and the caller sets attributes (Alpha, Beta ...) on a
\* task that may be running by now.
SetAttributes(t) ==
    /\ stage[t] = "mapped"
    /\ stage' = [stage EXCEPT ![t] = "returned"]
    /\ UNCHANGED <<prog, run, isFinished, engine, task_count, lock, loaded,
                   waits, sawAlpha>>

SubmitStep(t) ==
    NewTask(t) \/ SubmitToSuperGlue(t) \/ AddTask(t) \/ SetGuests(t) \/ SetAttributes(t)
-------------------------------------------------------------------------------
(* DuctTeip's engine *)

\* Fault: a task waits for the earlier ones to be submitted only.
DataReadyOnSubmit(t) ==
    \A u \in Earlier(t) : <<u, t>> \in registered => stage[u] = "returned"

\* What the versions in the DataAccess list of DTWrapper::submitTask wait for.
DataReady(t) ==
    \A u \in Earlier(t) : <<u, t>> \in registered => isFinished[u]

\* GenAlgorithm::runKernels reads the guest of the DuctTeip task and passes it
\* to run_task.  An engine that took a task up before SetGuests would find what
\* the allocator left there: the model assumes it does not.
RunKernels(t) ==
    /\ engine = NoTask
    /\ Owner(t) = "DuctTeip"
    /\ stage[t] \in {"mapped", "returned"}
    /\ run[t] = "idle" /\ DataReady(t)
    /\ engine' = t
    /\ run' = [run EXCEPT ![t] = IF BeforeLast(t) THEN "kernel" ELSE "operation"]
    /\ sawAlpha' = [sawAlpha EXCEPT ![t] = stage[t] = "returned" \/ ~BeforeLast(t)]
    /\ UNCHANGED <<prog, stage, isFinished, task_count, lock, loaded, waits>>

\* The operation's loops are over.
ReturnOperation(t) ==
    /\ engine = t /\ run[t] = "operation"
    /\ \A c \in Subs : Parent(c) = t => stage[c] = "returned"
    /\ run' = [run EXCEPT ![t] = "over"]
    /\ engine' = NoTask
    /\ UNCHANGED <<prog, stage, isFinished, task_count, lock, loaded, waits, sawAlpha>>

\* Chain DuctTeip -> BLAS: the kernel is over, finished_task comes back to
\* DuctTeip, which finds the task its own.
FinishMine(t) ==
    /\ engine = t /\ run[t] = "kernel" /\ Owner(t) = "DuctTeip"
    /\ isFinished' = [isFinished EXCEPT ![t] = TRUE]
    /\ run' = [run EXCEPT ![t] = "over"]
    /\ engine' = NoTask
    /\ UNCHANGED <<prog, stage, task_count, lock, loaded, waits, sawAlpha>>
-------------------------------------------------------------------------------
(* SuperGlue's workers *)

InWorker(t) ==
    Owner(t) = "SuperGlue" /\ run[t] \in {"kernel", "count", "stored", "release"}

\* SGGenTask::run -> run_task -> CPUBLAS::runTask.
RunOnWorker(t) ==
    /\ Owner(t) = "SuperGlue" /\ stage[t] \in {"mapped", "returned"}
    /\ run[t] = "idle"
    /\ \A u \in waits[t] : run[u] = "over"
    /\ Cardinality({u \in Tasks : InWorker(u)}) < NWorkers
    /\ run' = [run EXCEPT ![t] = "kernel"]
    /\ sawAlpha' = [sawAlpha EXCEPT ![t] = stage[t] = "returned"]
    /\ UNCHANGED <<prog, stage, isFinished, engine, task_count, lock, loaded, waits>>

\* Fault: the decrement is not done under the lock.
LoadCountUnlocked(t) ==
    /\ run[t] = "kernel" /\ Owner(t) = "SuperGlue"
    /\ IF Parent(t) = NoTask
       THEN run' = [run EXCEPT ![t] = "release"] /\ UNCHANGED loaded
       ELSE /\ run' = [run EXCEPT ![t] = "count"]
            /\ loaded' = [loaded EXCEPT ![t] = task_count[Parent(t)]]
    /\ UNCHANGED <<prog, stage, isFinished, engine, task_count, lock, waits, sawAlpha>>

\* The kernel is over; finished_task: SuperGlue's finishedTask does nothing.
\* With no scheduler before it that is all, else DTWrapper::finishedTask.
\* The lock is taken and task_count-- loads the count.
LoadCount(t) ==
    /\ run[t] = "kernel" /\ Owner(t) = "SuperGlue"
    /\ IF Parent(t) = NoTask
       THEN /\ run' = [run EXCEPT ![t] = "release"]
            /\ UNCHANGED <<lock, loaded>>
       ELSE /\ lock = NoTask
            /\ lock' = t
            /\ loaded' = [loaded EXCEPT ![t] = task_count[Parent(t)]]
            /\ run' = [run EXCEPT ![t] = "count"]
    /\ UNCHANGED <<prog, stage, isFinished, engine, task_count, waits, sawAlpha>>

\* Fault: the decrement is repeated until somebody else makes progress.
StoreCountAgain(t) ==
    /\ run[t] = "count"
    /\ task_count' = [task_count EXCEPT ![Parent(t)] = loaded[t] - 1]
    /\ \/ loaded' = [loaded EXCEPT ![t] = @ - 1] /\ UNCHANGED run
       \/ loaded' = [loaded EXCEPT ![t] = 0] /\ run' = [run EXCEPT ![t] = "stored"]
    /\ UNCHANGED <<prog, stage, isFinished, engine, lock, waits, sawAlpha>>

\* task_count-- stores what it has loaded, less one.
StoreCount(t) ==
    /\ run[t] = "count"
    /\ task_count' = [task_count EXCEPT ![Parent(t)] = loaded[t] - 1]
    /\ loaded' = [loaded EXCEPT ![t] = 0]
    /\ run' = [run EXCEPT ![t] = "stored"]
    /\ UNCHANGED <<prog, stage, isFinished, engine, lock, waits, sawAlpha>>

\* The count is read once more; at zero the parent's DuctTeip task is finished.
TestCount(t) ==
    LET p == Parent(t) IN
    /\ run[t] = "stored"
    /\ IF task_count[p] = 0
       THEN isFinished' = [isFinished EXCEPT ![p] = TRUE]
       ELSE UNCHANGED isFinished
    /\ lock' = NoTask
    /\ run' = [run EXCEPT ![t] = "release"]
    /\ UNCHANGED <<prog, stage, engine, task_count, loaded, waits, sawAlpha>>

\* SGGenTask::run returns; SuperGlue releases the task's handles.
Release(t) ==
    /\ run[t] = "release"
    /\ run' = [run EXCEPT ![t] = "over"]
    /\ UNCHANGED <<prog, stage, isFinished, engine, task_count, lock, loaded,
                   waits, sawAlpha>>

WorkerStep(t) ==
    RunOnWorker(t) \/ LoadCount(t) \/ StoreCount(t) \/ TestCount(t) \/ Release(t)
-------------------------------------------------------------------------------
(* The program's end *)

Programme == {<<p>> : p \in 1..length}

Finalize ==
    /\ prog = "submit"
    /\ \A t \in Programme : stage[t] = "returned"
    /\ prog' = "finalize"
    /\ UNCHANGED <<stage, run, isFinished, engine, task_count, lock, loaded,
                   waits, sawAlpha>>

\* Fault: finalize waits for the queue and not for the workers.
FinalizeReturnsEarly ==
    /\ prog = "finalize"
    /\ \A t \in Programme : run[t] # "idle"
    /\ prog' = "done"
    /\ UNCHANGED <<stage, run, isFinished, engine, task_count, lock, loaded,
                   waits, sawAlpha>>

\* Dispatcher::finalize: only the first scheduler is waited for.
FinalizeReturns ==
    /\ prog = "finalize"
    /\ IF chain[1] = "DuctTeip"
       THEN engine = NoTask /\ \A t \in Programme : isFinished[t]
       ELSE \A t \in Programme : run[t] = "over"
    /\ prog' = "done"
    /\ UNCHANGED <<stage, run, isFinished, engine, task_count, lock, loaded,
                   waits, sawAlpha>>

Used == {t \in Tasks : t[1] <= length /\ (t \in Subs => Len(chain) = 3)}

Terminated ==
    /\ prog \in {"exited", "done"}
    /\ prog = "done" => \A t \in Used : run[t] = "over"
    /\ UNCHANGED vars

EngineStep ==
    \E t \in Tops : RunKernels(t) \/ ReturnOperation(t) \/ FinishMine(t)

Next ==
    \/ /\ \/ \E t \in Tasks : SubmitStep(t) \/ WorkerStep(t)
          \/ EngineStep
          \/ Finalize \/ FinalizeReturns
       /\ UNCHANGED <<chain, registered, length>>
    \/ Terminated

\* The threads keep running.
Fairness ==
    /\ \A t \in Tasks : WF_vars(SubmitStep(t) /\ UNCHANGED <<chain, registered, length>>)
                        /\ WF_vars(WorkerStep(t) /\ UNCHANGED <<chain, registered, length>>)
    /\ WF_vars(EngineStep /\ UNCHANGED <<chain, registered, length>>)
    /\ WF_vars((Finalize \/ FinalizeReturns) /\ UNCHANGED <<chain, registered, length>>)

Spec == Init /\ [][Next]_vars /\ Fairness
-------------------------------------------------------------------------------
(* Properties *)

\* The sub-tasks of p that hold a unit of its task_count: their parent has been
\* set and no worker has stored the count without them.
Counted(p) ==
    {c \in Subs : /\ Parent(c) = p /\ stage[c] # "none"
                  /\ run[c] \in {"idle", "kernel", "count"}}

\* The count is a plain load and store for the workers, and set_parent does not
\* take their lock: an increase between the two is lost, so the count may be
\* too low.  It is never too high, which is what a completion would be lost by.
CountNeverHigh ==
    \A p \in Tops : task_count[p] <= Cardinality(Counted(p))

\* No lost completion: although increases are lost, and a zero may be hidden
\* by an increase between the store and the second read, once the operation of
\* p is over and its sub-tasks are counted out p has been flagged finished, or
\* the worker that will do it is about to.
NoLostCompletion ==
    \A p \in Tops :
        Len(chain) = 3 /\ run[p] = "over" /\ Counted(p) = {}
            => isFinished[p] \/ \E c \in Subs : Parent(c) = p /\ run[c] = "stored"

\* The order of the program on the tasks that run kernels.
Before(t, u) ==
    \/ t[1] < u[1]
    \/ t \in Subs /\ u \in Subs /\ t[1] = u[1] /\ t[2] < u[2]

Kernels == {t \in Used : BeforeLast(t)}

\* SuperGlue orders t before u: the two are registered in conflict and, if their
\* parents are not the same task, so are the parents.
Ordered(t, u) ==
    /\ <<t, u>> \in registered
    /\ Parent(t) # Parent(u) => <<Parent(t), Parent(u)>> \in registered

\* Two kernels registered in conflict run in the order of the program and never
\* together, although with three schedulers a task is flagged finished while
\* sub-tasks of it are still to be submitted.  Of the declared conflicts this
\* says nothing if In stands in the field of a datum somebody writes.
KernelOrder ==
    \A t, u \in Kernels :
        Before(t, u) /\ Ordered(t, u) /\ run[u] # "idle" => run[t] = "over"

\* What utp_finalize's caller goes by when it prints the result.
FinalizeComplete == prog = "done" => \A t \in Kernels : run[t] = "over"

\* It holds of the chains of two schedulers, where finalize of the first one
\* waits for all there is; with three it may return at a premature flag.
FinalizeCompleteOfTwo == Len(chain) = 2 => FinalizeComplete

\* A kernel computes with the alpha its caller asked for.
KernelReadsAlpha == \A t \in Tasks : sawAlpha[t]

\* The program always comes back from utp_finalize, if it gets there.
Termination == <>(prog \in {"done", "exited"})

StatusOf(t) ==
    IF (IF chain[1] = "DuctTeip" THEN isFinished[t] ELSE run[t] = "over")
    THEN "finished" ELSE IF run[t] = "idle" THEN "waiting" ELSE "running"

Abstract ==
    INSTANCE TaskOrder WITH
        NTasks <- NTop,
        Conflict <- {e \in (1..NTop) \X (1..NTop) :
                        e[1] < e[2] /\ <<<<e[1]>>, <<e[2]>>>> \in Conflict},
        submitted <- Cardinality({t \in Tops : stage[t] \notin {"none", "built"}}),
        status <- [p \in 1..NTop |-> StatusOf(<<p>>)]

\* No declared conflict is missing from what is registered: In stands in the
\* field of no datum two tasks use and one of them writes.
Kept == Conflict \subseteq registered

\* The chain as the program sees it implements the abstract scheduler on the
\* declared conflicts, whichever chain the command line asks for, if they are
\* registered: what submitTask and finishedTask of the wrappers do around the
\* libraries keeps the order of conflicting tasks.
ImplementsTaskOrder ==
    /\ Kept => Abstract!Init
    /\ [][Kept => Abstract!Next]_(Abstract!vars)
===============================================================================
