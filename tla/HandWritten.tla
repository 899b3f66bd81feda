------------------------------ MODULE HandWritten ------------------------------
(***************************************************************************)
(* The products of non_utp_tests, written on DuctTeip, SuperGlue and       *)
(* cblas, or on cblas alone, without the framework, next to the programs   *)
(* of DynamicChain.                                                        *)
(* Their chain is named after the libraries they use and ends in cblas,    *)
(* which they call themselves.  A GEMM task of DuctTeip counts the tasks   *)
(* of SuperGlue its kernel makes in child_count, here task_count: up in    *)
(* their constructor, down in their destructor.                            *)
(***************************************************************************)
EXTENDS DynamicChain

CONSTANTS
    Products     \* the programs: dsb_gemm, db_gemm, sg_gemm, bo_gemm

ASSUME ProductsAssumption ==
    Products \subseteq {<<"DuctTeip", "SuperGlue", "cblas">>,
                        <<"DuctTeip", "cblas">>, <<"SuperGlue", "cblas">>,
                        <<"main", "cblas">>}

VARIABLES
    deleted      \* the tasks of SuperGlue that have been destroyed

allVars == <<vars, deleted>>

ByHand == chain[Len(chain)] = "cblas"

AllTypeOK == TypeOK /\ deleted \subseteq Subs

AllInit ==
    /\ \/ Init
       \/ prog = "submit" /\ \E program \in Products : InitOf(program, Conflict)
    /\ deleted = {}
-------------------------------------------------------------------------------
(* dsb_gemm and db_gemm: the program and DuctTeip's engine *)

\* taskified: addTask for each product of blocks.
addTask(t) ==
    /\ Owner(t) = "DuctTeip"
    /\ Submitting(t)
    /\ stage[t] = "none"
    /\ stage' = [stage EXCEPT ![t] = "returned"]
    /\ UNCHANGED <<prog, run, isFinished, engine, task_count, lock, loaded, waits,
                   sawAlpha, deleted>>

\* The engine takes up a task whose data are ready; the kernel goes by its key,
\* and there is one key.
runKernels(t) ==
    /\ engine = NoTask
    /\ Owner(t) = "DuctTeip"
    /\ stage[t] = "returned" /\ run[t] = "idle" /\ DataReady(t)
    /\ engine' = t
    /\ UNCHANGED <<prog, stage, isFinished, lock, loaded, waits, sawAlpha, deleted>>

\* dsb_gemm: the count starts at zero and the loops follow.
GEMM_kernel(t) ==
    /\ ~BeforeLast(t)
    /\ runKernels(t)
    /\ run' = [run EXCEPT ![t] = "operation"]
    /\ task_count' = [task_count EXCEPT ![t] = 0]

\* db_gemm: dgemm is called.
GEMM_kernel_dgemm(t) ==
    /\ BeforeLast(t)
    /\ runKernels(t)
    /\ run' = [run EXCEPT ![t] = "kernel"]
    /\ UNCHANGED task_count

\* The constructor of GemmTask counts it and registers its accesses.
NewGemmTask(t) ==
    /\ t \in Subs
    /\ Submitting(t)
    /\ stage[t] = "none"
    /\ stage' = [stage EXCEPT ![t] = "built"]
    /\ task_count' = [task_count EXCEPT ![Parent(t)] = @ + 1]
    /\ UNCHANGED <<prog, run, isFinished, engine, lock, loaded, waits, sawAlpha, deleted>>

\* getThrdManager()->submit(gemm)
SubmitGemm(t) ==
    /\ t \in Subs
    /\ Submitting(t)
    /\ stage[t] = "built"
    /\ stage' = [stage EXCEPT ![t] = "returned"]
    /\ waits' = [waits EXCEPT ![t] = Blockers(t)]
    /\ UNCHANGED <<prog, run, isFinished, engine, task_count, lock, loaded, sawAlpha,
                   deleted>>

\* The loops of GEMM_kernel are over.
ReturnKernel(t) == ReturnOperation(t) /\ UNCHANGED deleted

\* db_gemm: dgemm returns, dt_task->setFinished(true).
FinishKernel(t) == FinishMine(t) /\ UNCHANGED deleted
-------------------------------------------------------------------------------
(* SuperGlue's workers, in dsb_gemm and sg_gemm *)

\* sg_gemm: the constructor of gemm reads the first two handles and writes the
\* third.
gemm(t) == waits' = [waits EXCEPT ![t] = Blockers(t)]

\* sg.submit(new gemm(A[i][k], B[k][j], C[i][j]))
matmul(t) ==
    /\ t \in Tops /\ Owner(t) = "SuperGlue"
    /\ Submitting(t)
    /\ stage[t] = "none"
    /\ stage' = [stage EXCEPT ![t] = "returned"]
    /\ gemm(t)
    /\ UNCHANGED <<prog, run, isFinished, engine, task_count, lock, loaded, sawAlpha,
                   deleted>>

\* dgemm, on the memory of the blocks of the three handles in dsb_gemm and on
\* what the indices in the handles tell in sg_gemm.
RunGemmTask(t) == t \in Subs /\ RunOnWorker(t) /\ UNCHANGED deleted
RunGemm(t)     == t \in Tops /\ RunOnWorker(t) /\ UNCHANGED deleted

\* It returns, and SuperGlue releases the task's handles.
ReturnGemm(t) ==
    /\ Owner(t) = "SuperGlue"
    /\ run[t] = "kernel"
    /\ run' = [run EXCEPT ![t] = "over"]
    /\ UNCHANGED <<prog, stage, isFinished, engine, task_count, lock, loaded, waits,
                   sawAlpha, deleted>>

\* Fault: the count is compared before it is decreased.
DestroyGemmEarly(t) ==
    LET p == Parent(t) IN
    /\ t \in Subs \ deleted
    /\ run[t] = "over"
    /\ deleted' = deleted \cup {t}
    /\ task_count' = [task_count EXCEPT ![p] = @ - 1]
    /\ isFinished' = [isFinished EXCEPT ![p] = @ \/ task_count[p] = 0]
    /\ UNCHANGED <<prog, stage, run, engine, lock, loaded, waits, sawAlpha>>

\* ~GemmTask: the count is decreased and compared in one atomic step; who
\* brings it to zero flags the task of DuctTeip finished, whether or not its
\* kernel is through with its loops.
DestroyGemm(t) ==
    LET p == Parent(t) IN
    /\ t \in Subs \ deleted
    /\ run[t] = "over"
    /\ deleted' = deleted \cup {t}
    /\ task_count' = [task_count EXCEPT ![p] = @ - 1]
    /\ isFinished' = [isFinished EXCEPT ![p] = @ \/ task_count[p] = 1]
    /\ UNCHANGED <<prog, stage, run, engine, lock, loaded, waits, sawAlpha>>
-------------------------------------------------------------------------------
(* bo_gemm: the program calls dgemm itself, for one product after the other *)

\* The loops have come to product t: its blocks are looked up and gemm is called.
gemm_block(t) ==
    /\ t \in Tops /\ Owner(t) = "main"
    /\ Submitting(t)
    /\ stage[t] = "none"
    /\ \A u \in Earlier(t) : run[u] = "over"
    /\ stage' = [stage EXCEPT ![t] = "returned"]
    /\ UNCHANGED <<prog, run, isFinished, engine, task_count, lock, loaded, waits, sawAlpha,
                   deleted>>

\* gemm: dgemm on the three blocks begins, and returns.
gemm_of_blocks(t) ==
    /\ t \in Tops /\ Owner(t) = "main"
    /\ stage[t] = "returned" /\ run[t] # "over"
    /\ run' = [run EXCEPT ![t] = IF @ = "idle" THEN "kernel" ELSE "over"]
    /\ UNCHANGED <<prog, stage, isFinished, engine, task_count, lock, loaded, waits,
                   sawAlpha, deleted>>
-------------------------------------------------------------------------------
\* DuctTeip_Finish, or sg.barrier(), or nothing to wait for.
Finish == (Finalize \/ FinalizeReturns) /\ UNCHANGED deleted

HandSubmit(t) ==
    \/ addTask(t) \/ NewGemmTask(t) \/ SubmitGemm(t) \/ matmul(t)
    \/ gemm_block(t) \/ gemm_of_blocks(t)
HandWorker(t) == RunGemmTask(t) \/ RunGemm(t) \/ ReturnGemm(t) \/ DestroyGemm(t)
HandEngine ==
    \E t \in Tops : GEMM_kernel(t) \/ GEMM_kernel_dgemm(t) \/ ReturnKernel(t) \/ FinishKernel(t)

HandNext ==
    \/ \E t \in Tasks : HandSubmit(t) \/ HandWorker(t)
    \/ HandEngine
    \/ Finish

AllTerminated ==
    /\ ByHand => Used \cap Subs \subseteq deleted
    /\ Terminated /\ UNCHANGED deleted

AllNext ==
    \/ ~ByHand /\ Next /\ UNCHANGED deleted
    \/ ByHand /\ HandNext /\ UNCHANGED <<chain, registered, length>>
    \/ AllTerminated

\* A step of one thread, in a program of the framework or a product.
Thread(step, handStep) ==
    /\ \/ ~ByHand /\ step /\ UNCHANGED deleted
       \/ ByHand /\ handStep
    /\ UNCHANGED <<chain, registered, length>>

\* The threads keep running.
AllFairness ==
    /\ \A t \in Tasks : /\ WF_allVars(Thread(SubmitStep(t), HandSubmit(t)))
                        /\ WF_allVars(Thread(WorkerStep(t), HandWorker(t)))
    /\ WF_allVars(Thread(EngineStep, HandEngine))
    /\ WF_allVars(Thread(Finalize \/ FinalizeReturns, Finish))

AllSpec == AllInit /\ [][AllNext]_allVars /\ AllFairness
-------------------------------------------------------------------------------
(* Properties; KernelOrder, FinalizeCompleteOfTwo, ImplementsTaskOrder and      *)
(* Termination of DynamicChain are about the products as well.                  *)

\* The tasks a GEMM task of DuctTeip has made and that are not destroyed.
Alive(p) == {c \in Subs \ deleted : Parent(c) = p /\ stage[c] # "none"}

\* What the products count is exact, unlike what the framework counts: there the
\* count is never too high (see CountNeverHigh).
CountsKept ==
    IF ByHand THEN \A p \in Tops : task_count[p] = Cardinality(Alive(p))
    ELSE CountNeverHigh

\* No lost completion: a task of DuctTeip whose kernel has returned and whose
\* tasks are all destroyed has been flagged finished, although the count may
\* come to zero more than once while the kernel is still in its loops.
CompletionKept ==
    IF ByHand
    THEN \A p \in Tops :
            Len(chain) = 3 /\ run[p] = "over" /\ Alive(p) = {} => isFinished[p]
    ELSE NoLostCompletion
===============================================================================
