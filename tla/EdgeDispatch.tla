----------------------------- MODULE EdgeDispatch -----------------------------
(***************************************************************************)
(* The statically bound programs whose tasks are not split again: the      *)
(* chains of two schedulers, EdgeDispatch<Edge<S, BLAS>> with S one of     *)
(* DuctTeip, SuperGlue and StarPU, and NodeDispatch<SingleNode<BLAS>>.     *)
(*                                                                         *)
(* The program submits the tasks of one split to S and calls utp_finalize. *)
(* EdgeDispatch::ready runs the kernel at once, on the thread S calls it   *)
(* on; what the end of a task is, and what utp_finalize waits for, is S's. *)
(* DuctTeip runs on several ranks, with the data versions of DTVersions;   *)
(* the others in one process.                                              *)
(***************************************************************************)
EXTENDS DTVersions

CONSTANTS
    Chains,        \* the schedulers the program may be bound to
    NWorkers,      \* CPU workers of SuperGlue or StarPU
    GpuTasks       \* the tasks whose codelet StarPU may start on a GPU

\* What a task writes lives on one rank, the one that runs it: the tasks of
\* the splits write their last argument only.
ASSUME OneHostAssumption ==
    \A p \in Tasks : \A i \in DOMAIN Args[p] :
        Args[p][i].axs = InOut => HostOf[Args[p][i].data] = Host(p)

VARIABLES
    chain,         \* S; the same in every process of an execution
    prog,          \* prog[r]: where the program of process r is
    waits,         \* waits[p]: the tasks S makes task p wait for
    onGpu          \* the running tasks that are on the GPU

edgeVars == <<vars, chain, prog, waits, onGpu>>

Main == CHOOSE r \in Ranks : TRUE
Processes == IF chain = "DT" THEN Ranks ELSE {Main}

EdgeTypeOK ==
    /\ TypeOK
    /\ chain \in Chains
    /\ prog \in [Ranks -> {"split", "finalize", "done"}]
    /\ waits \in [Tasks -> SUBSET Tasks]
    /\ onGpu \subseteq {p \in Tasks : status[p] = "running"} \cap GpuTasks

EdgeInit ==
    /\ Init
    /\ chain \in Chains
    /\ prog = [r \in Ranks |-> IF r \in Processes THEN "split" ELSE "done"]
    /\ waits = [p \in Tasks |-> {}]
    /\ onGpu = {}
-------------------------------------------------------------------------------
(* DuctTeip *)

\* DT::submit: the constructor of DTTask does everything.
SubmitDT(r) ==
    /\ chain = "DT"
    /\ prog[r] = "split"
    /\ NewDTTask(r)
    /\ UNCHANGED <<chain, prog, waits, onGpu>>

\* The engine of a rank runs the kernels itself, one after the other.
RunKernel(p) ==
    /\ chain = "DT"
    /\ \A q \in Tasks : Host(q) = Host(p) => status[q] # "running"
    /\ Run(p)
    /\ UNCHANGED <<chain, prog, waits, onGpu>>

\* The kernel ends with Dispatcher::finished(t), which is DT::finished: it
\* flags the task, still inside runKernel.
FinishDT(p) ==
    /\ chain = "DT"
    /\ Finish(p)
    /\ UNCHANGED <<chain, prog, waits, onGpu>>
-------------------------------------------------------------------------------
(* SuperGlue and StarPU *)

Accessed(p) == {Args[p][i].data : i \in DOMAIN Args[p]}
Written(p) == {Args[p][i].data : i \in {j \in DOMAIN Args[p] : Args[p][j].axs = InOut}}

\* Fault: the In arguments are not given to the scheduler.
BlockersOfWrites(p) ==
    {q \in Tasks : /\ status[q] \in {"registered", "running"}
                   /\ Written(q) \cap Written(p) # {}}

\* The unfinished tasks a new one is in conflict with: SuperGlue finds them by
\* the versions of the handles SGTask registers, a read for In and a write for
\* every other mode.
Blockers(p) ==
    {q \in Tasks : /\ status[q] \in {"registered", "running"}
                   /\ \/ Written(q) \cap Accessed(p) # {}
                      \/ Written(p) \cap Accessed(q) # {}}

\* Fault: the first argument has its mode set, the others keep the codelet's
\* initial zero.
CodeletOfFirst(p) ==
    [where |-> IF p \in GpuTasks THEN {"cpu", "cuda"} ELSE {"cpu"},
     modes |-> [i \in DOMAIN Args[p] |-> IF i = 1 THEN "R" ELSE "none"]]

\* The codelet of a task: no task with the mode Out is in the programs, and a
\* task that may not go to the GPU (potrf) has cl.where set.
Codelet(p) ==
    [where |-> IF p \in GpuTasks THEN {"cpu", "cuda"} ELSE {"cpu"},
     modes |-> [i \in DOMAIN Args[p] |-> IF Args[p][i].axs = In THEN "R" ELSE "RW"]]

\* The handles given to StarPU, one for each buffer of the codelet.
SPUHandles(p, modes) ==
    {Args[p][i].data : i \in {j \in DOMAIN Args[p] : Codelet(p).modes[j] \in modes}}

\* StarPU keeps the tasks of a handle in the order they were submitted, but for
\* two that only read it.
SPUBlockers(p) ==
    {q \in Tasks : /\ status[q] \in {"registered", "running"}
                   /\ \/ SPUHandles(q, {"RW"}) \cap SPUHandles(p, {"R", "RW"}) # {}
                      \/ SPUHandles(p, {"RW"}) \cap SPUHandles(q, {"R", "RW"}) # {}}

\* The program's next task, in the one process, goes to S with what it has to
\* wait for.
Queue(NewBlockers(_)) ==
    LET p == built[Main] + 1 IN
    /\ prog[Main] = "split"
    /\ p <= NTasks
    /\ built' = [built EXCEPT ![Main] = p]
    /\ status' = [status EXCEPT ![p] = "registered"]
    /\ waits' = [waits EXCEPT ![p] = NewBlockers(p)]
    /\ UNCHANGED <<readVersion, writeVersion, required, rtRead, rtWrite,
                   chain, prog, onGpu>>

SubmitSG  == chain = "SG" /\ Queue(Blockers)
SubmitSPU == chain = "SPU" /\ Queue(SPUBlockers)

Due(p) ==
    /\ status[p] = "registered"
    /\ \A q \in waits[p] : status[q] = "finished"

\* The scheduler calls Dispatcher::ready, which runs the kernel.
Start(p) ==
    /\ status' = [status EXCEPT ![p] = "running"]
    /\ UNCHANGED <<built, readVersion, writeVersion, required, rtRead, rtWrite,
                   chain, prog, waits>>

\* SGTask::run and SPUTask::run: the kernel occupies a CPU worker.
RunOnWorker(p) ==
    /\ chain \in {"SG", "SPU"}
    /\ Due(p)
    /\ Cardinality({q \in Tasks : status[q] = "running"} \ onGpu) < NWorkers
    /\ Start(p)
    /\ UNCHANGED onGpu

\* ready_for_gpu: run_on_gpu only queues the kernel (STARPU_CUDA_ASYNC).
QueueKernel(p) == Start(p) /\ onGpu' = onGpu \cup {p}

\* SPUTask::run_cuda: the worker is free again at once, and another kernel may
\* be queued behind it.
RunOnGpu(p) ==
    /\ chain = "SPU"
    /\ "cuda" \in Codelet(p).where
    /\ Due(p)
    /\ QueueKernel(p)

\* The kernel is over; it has called finished of its scheduler.
Over(p) ==
    /\ status[p] = "running"
    /\ status' = [status EXCEPT ![p] = "finished"]
    /\ UNCHANGED <<built, readVersion, writeVersion, required, rtRead, rtWrite,
                   chain, prog, waits>>

\* The kernel is over.  Its Dispatcher::finished(t) comes back to
\* EdgeDispatch::finished(S, t), which does nothing: it is the scheduler that
\* sees the end of the task and lets others run.
Release(p) ==
    /\ chain \in {"SG", "SPU"}
    /\ Over(p)
    /\ onGpu' = onGpu \ {p}
-------------------------------------------------------------------------------
(* BLAS alone *)

\* NodeDispatch::submit is BLAS::submit, which runs the kernel itself: the next
\* task is submitted when the last has returned.
SubmitBLAS ==
    /\ chain = "BLAS"
    /\ \A q \in Tasks : status[q] \in {"new", "finished"}
    /\ Queue(LAMBDA p : {})

RunInSubmit(p) ==
    /\ chain = "BLAS"
    /\ status[p] = "registered"
    /\ Start(p)
    /\ UNCHANGED onGpu

\* NodeDispatch::finished does nothing, of the kernel's task and of BLAS's.
ReturnFromKernel(p) ==
    /\ chain = "BLAS"
    /\ Over(p)
    /\ UNCHANGED onGpu
-------------------------------------------------------------------------------
(* The program *)

\* Fault: the wait is for the tasks that have been started.
AllTasksDoneEarly == \A p \in Tasks : status[p] # "registered"

\* starpu_task_wait_for_all() and SG_Engine->barrier() wait for all tasks.
AllTasksDone == \A p \in Tasks : status[p] \notin {"registered", "running"}

\* dtEngine.finalize() waits for the tasks of the rank.
RankTasksDone(r) ==
    \A p \in Tasks : Host(p) = r => status[p] \notin {"registered", "running"}

SchedulerIdle(r) == IF chain = "DT" THEN RankTasksDone(r) ELSE AllTasksDone

\* The split is over, with its last task submitted (and run, with BLAS alone).
CallFinalize(r) ==
    /\ prog[r] = "split"
    /\ built[r] = NTasks
    /\ chain = "BLAS" => \A p \in Tasks : status[p] = "finished"
    /\ prog' = [prog EXCEPT ![r] = "finalize"]
    /\ UNCHANGED <<vars, chain, waits, onGpu>>

ReturnFinalize(r) ==
    /\ prog[r] = "finalize"
    /\ SchedulerIdle(r)
    /\ prog' = [prog EXCEPT ![r] = "done"]
    /\ UNCHANGED <<vars, chain, waits, onGpu>>

ProgramStep(r) ==
    \/ SubmitDT(r)
    \/ r = Main /\ (SubmitSG \/ SubmitSPU \/ SubmitBLAS)
    \/ CallFinalize(r)
    \/ ReturnFinalize(r)

EngineStep(r) == \E p \in {q \in Tasks : Host(q) = r} : RunKernel(p) \/ FinishDT(p)

TaskStep(p) ==
    RunOnWorker(p) \/ RunOnGpu(p) \/ Release(p) \/ RunInSubmit(p) \/ ReturnFromKernel(p)

EdgeTerminated == (\A r \in Ranks : prog[r] = "done") /\ UNCHANGED edgeVars

EdgeNext ==
    \/ \E r \in Ranks : ProgramStep(r) \/ EngineStep(r)
    \/ \E p \in Tasks : TaskStep(p)
    \/ EdgeTerminated

EdgeFairness ==
    /\ \A r \in Ranks : WF_edgeVars(ProgramStep(r)) /\ WF_edgeVars(EngineStep(r))
    /\ WF_edgeVars(\E p \in Tasks : TaskStep(p))

EdgeSpec == EdgeInit /\ [][EdgeNext]_edgeVars /\ EdgeFairness
-------------------------------------------------------------------------------
(* Properties; ImplementsTaskOrder and NoVersionSkipped are those of DTVersions. *)

\* When utp_finalize returns in a process, every task that writes data of the
\* process has run: the program prints and sums the result right after.  On
\* several ranks the tasks of one rank wait for those of others, and no rank
\* waits for another in so many words.
FinalizeComplete ==
    \A r \in Ranks : \A p \in Tasks :
        prog[r] = "done" /\ r \in Processes
        /\ (chain = "DT" => \E d \in Written(p) : HostOf[d] = r)
            => status[p] = "finished"

\* Every program comes back from utp_finalize, whatever S is: no rank and no
\* worker waits for a task that cannot run.
ProgramsReturn == <>(\A r \in Ranks : prog[r] = "done")
===============================================================================
