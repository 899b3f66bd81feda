-------------------------- MODULE EdgeDispatchProof --------------------------
(***************************************************************************)
(* Proofs about EdgeDispatch, for every program, any number of ranks and   *)
(* workers, and whichever scheduler the program is bound to.               *)
(*                                                                         *)
(* EdgeInv says for each scheduler why its tasks keep the order of the     *)
(* program: DuctTeip by the versions (DTInv), SuperGlue and StarPU by what *)
(* a task waits for, BLAS by running one task at a time.  The lemmas show  *)
(* it kept by the steps, grouped by what they do to a task.                *)
(***************************************************************************)
EXTENDS EdgeDispatch, DTVersionsProof

\* The process that hands task p to its scheduler.
Home(p) == IF chain = "DT" THEN Host(p) ELSE Main

Accepted == \A p \in Tasks : status[p] # "new" <=> p <= built[Home(p)]

\* Without DuctTeip one process moves, and no version does.
OneProcess ==
    chain # "DT" => /\ \A p \in Tasks : required[p] = <<>>
                    /\ \A r \in Ranks \ {Main} : built[r] = 0

\* A task of SuperGlue or StarPU waits for those it conflicts with; one of BLAS
\* is submitted when all earlier ones have run.
WaitsCover ==
    chain \in {"SG", "SPU"} =>
        \A e \in Conflict : status[e[2]] # "new" =>
            status[e[1]] = "finished" \/ e[1] \in waits[e[2]]

OneAtATime ==
    chain = "BLAS" =>
        \A p, q \in Tasks :
            q < p /\ status[p] \in {"registered", "running"} => status[q] = "finished"

GpuOfStarPU == chain # "SPU" => onGpu = {}

\* A program that has left its split has submitted all tasks, and one that has
\* come back from utp_finalize has seen its own end.
ProgramOver ==
    \A r \in Ranks :
        IF r \in Processes
        THEN /\ prog[r] # "split" => built[r] = NTasks
             /\ prog[r] = "done" =>
                   \A p \in Tasks : Home(p) = r => status[p] = "finished"
        ELSE prog[r] = "done"

EdgeInv ==
    /\ EdgeTypeOK
    /\ chain = "DT" => DTInv
    /\ Ordered
    /\ Accepted
    /\ OneProcess
    /\ WaitsCover
    /\ OneAtATime
    /\ GpuOfStarPU
    /\ ProgramOver
-------------------------------------------------------------------------------
(* The operators *)

\* The first process is a rank, and every task has its home.
LEMMA MainIsRank == Main \in Ranks
<1>1. 1 \in Tasks
    BY DTVersionsAssumption DEF Tasks
<1>2. Host(1) \in Ranks
    BY <1>1, HostIsRank
<1> QED BY <1>2 DEF Main

\* Every task is written in a process that takes part.
LEMMA HomeIsProcess == ASSUME NEW p \in Tasks PROVE Home(p) \in Ranks /\ Home(p) \in Processes
BY MainIsRank, HostIsRank DEF Home, Processes

\* A conflict in terms of the data written and accessed.
LEMMA ConflictData ==
    ASSUME NEW q \in Tasks, NEW p \in Tasks, <<q, p>> \in Conflict
    PROVE  q < p /\ (Written(q) \cap Accessed(p) # {} \/ Written(p) \cap Accessed(q) # {})
<1>1. q < p
    BY DEF Conflict
<1>2. PICK i \in DOMAIN Args[q], j \in DOMAIN Args[p] :
          /\ Args[q][i].data = Args[p][j].data
          /\ InOut \in {Args[q][i].axs, Args[p][j].axs}
    BY DEF Conflict
<1> DEFINE d == Args[q][i].data
<1>3. d \in Accessed(q) /\ d \in Accessed(p)
    BY <1>2 DEF Accessed
<1>4. CASE Args[q][i].axs = InOut
  <2>1. d \in Written(q)
      BY <1>4 DEF Written
  <2> QED BY <1>1, <1>3, <2>1
<1>5. CASE Args[p][j].axs = InOut
  <2>1. d \in Written(p)
      BY <1>2, <1>5 DEF Written
  <2> QED BY <1>1, <1>3, <2>1
<1> QED BY <1>2, <1>4, <1>5

\* What SuperGlue makes a task wait for are the unfinished tasks it conflicts
\* with.
LEMMA SuperGlueBlocks ==
    ASSUME NEW q \in Tasks, NEW p \in Tasks, <<q, p>> \in Conflict,
           status[q] \in {"registered", "running"}
    PROVE  q \in Blockers(p)
BY ConflictData DEF Blockers

\* The handles StarPU is given are the data, with the modes of the accesses.
LEMMA HandlesOfModes ==
    ASSUME NEW p \in Tasks
    PROVE  /\ SPUHandles(p, {"RW"}) = Written(p)
           /\ SPUHandles(p, {"R", "RW"}) = Accessed(p)
<1>1. \A i \in DOMAIN Args[p] : Codelet(p).modes[i] = IF Args[p][i].axs = In THEN "R" ELSE "RW"
    BY DEF Codelet
<1>2. \A i \in DOMAIN Args[p] : Args[p][i].axs = In \/ Args[p][i].axs = InOut
    BY ArgTypes
<1>3. SPUHandles(p, {"RW"}) = Written(p)
    BY <1>1, <1>2 DEF SPUHandles, Written, In, InOut
<1>4. SPUHandles(p, {"R", "RW"}) = Accessed(p)
    BY <1>1, <1>2 DEF SPUHandles, Accessed
<1> QED BY <1>3, <1>4

\* StarPU makes a task wait for every one in conflict that is not over.
LEMMA StarPUBlocks ==
    ASSUME NEW q \in Tasks, NEW p \in Tasks, <<q, p>> \in Conflict,
           status[q] \in {"registered", "running"}
    PROVE  q \in SPUBlockers(p)
BY ConflictData, HandlesOfModes DEF SPUBlockers
-------------------------------------------------------------------------------
(* The steps *)

\* Every chain begins with nothing built and nothing run.
LEMMA EdgeInvInit == EdgeInit => EdgeInv
<1> SUFFICES ASSUME EdgeInit PROVE EdgeInv
    OBVIOUS
<1>1. Init /\ DTInv
    BY VersionsInit DEF EdgeInit
<1>2. EdgeTypeOK
    BY <1>1 DEF EdgeInit, EdgeTypeOK, DTInv
<1>3. /\ built = [r \in Ranks |-> 0] /\ required = [p \in Tasks |-> <<>>]
      /\ status = [p \in Tasks |-> "new"]
    BY <1>1 DEF Init
<1>4. Accepted
    BY <1>3, HomeIsProcess, Numbers DEF Accepted
<1>5. OneProcess
    BY <1>3 DEF OneProcess
<1>6. WaitsCover
    BY <1>3 DEF WaitsCover, Conflict
<1>7. OneAtATime
    BY <1>3 DEF OneAtATime
<1>8. GpuOfStarPU
    BY DEF EdgeInit, GpuOfStarPU
<1>9. ProgramOver
    BY DEF EdgeInit, ProgramOver
<1> QED BY <1>1, <1>2, <1>4, <1>5, <1>6, <1>7, <1>8, <1>9 DEF EdgeInv, DTInv

\* DuctTeip constructs a task on one of the ranks.
LEMMA SubmitDTKeeps ==
    ASSUME EdgeInv, NEW r \in Ranks, SubmitDT(r)
    PROVE  EdgeInv'
<1> USE DEF EdgeInv
<1> DEFINE p == built[r] + 1
<1>1. /\ chain = "DT" /\ prog[r] = "split" /\ NewDTTask(r)
      /\ UNCHANGED <<chain, prog, waits, onGpu>>
    BY DEF SubmitDT
<1>2. DTInv /\ DTInv'
    BY <1>1, NewDTTaskKeeps
<1>3. /\ p \in Tasks /\ built' = [built EXCEPT ![r] = p]
      /\ status' = status \/ (Host(p) = r /\ status' = [status EXCEPT ![p] = "registered"])
    BY <1>1, Numbers DEF NewDTTask, EdgeTypeOK, TypeOK, Tasks
<1>4. onGpu = {}
    BY <1>1 DEF GpuOfStarPU
<1>5. EdgeTypeOK'
    BY <1>1, <1>2, <1>4 DEF EdgeTypeOK, DTInv
<1>6. Accepted'
    BY <1>1, <1>2 DEF Accepted, DTInv, Registered, Home
<1>7. OneProcess' /\ WaitsCover' /\ OneAtATime' /\ GpuOfStarPU'
    BY <1>1, <1>4 DEF OneProcess, WaitsCover, OneAtATime, GpuOfStarPU
<1>8. ProgramOver'
  <2> SUFFICES ASSUME NEW s \in Ranks, prog[s] # "split"
               PROVE  /\ built'[s] = NTasks
                      /\ prog[s] = "done" =>
                            \A q \in Tasks : Host(q) = s => status'[q] = "finished"
      BY <1>1 DEF ProgramOver, Processes, Home
  <2>1. s # r
      BY <1>1
  <2>2. /\ built[s] = NTasks
        /\ prog[s] = "done" => \A q \in Tasks : Host(q) = s => status[q] = "finished"
      BY <1>1 DEF ProgramOver, Processes, Home
  <2>3. built'[s] = built[s]
      BY <1>3, <2>1 DEF EdgeTypeOK, TypeOK
  <2>4. \A q \in Tasks : Host(q) = s => status'[q] = status[q]
    <3> HIDE DEF p
    <3> QED BY <1>3, <2>1 DEF EdgeTypeOK, TypeOK
  <2> QED BY <2>2, <2>3, <2>4
<1> QED BY <1>1, <1>2, <1>5, <1>6, <1>7, <1>8 DEF DTInv

\* The one process hands its next task, p, to its scheduler, to wait for W.
Queued(p, W) ==
    /\ prog[Main] = "split"
    /\ p \in Tasks /\ p = built[Main] + 1
    /\ built' = [built EXCEPT ![Main] = p]
    /\ status' = [status EXCEPT ![p] = "registered"]
    /\ waits' = [waits EXCEPT ![p] = W]
    /\ UNCHANGED <<readVersion, writeVersion, required, rtRead, rtWrite, chain, prog, onGpu>>

\* Handing a task over keeps the invariant when the scheduler makes it wait for
\* the ones it conflicts with, or has none left (BLAS).
LEMMA QueuedKeeps ==
    ASSUME EdgeInv, chain \in {"SG", "SPU", "BLAS"}, NEW p \in Tasks, NEW W \in SUBSET Tasks,
           Queued(p, W),
           chain \in {"SG", "SPU"} =>
               \A q \in Tasks :
                   <<q, p>> \in Conflict /\ status[q] \in {"registered", "running"}
                                    => q \in W,
           chain = "BLAS" => \A q \in Tasks : status[q] \in {"new", "finished"}
    PROVE  EdgeInv'
<1> USE DEF EdgeInv
<1>1. /\ prog[Main] = "split" /\ p = built[Main] + 1
      /\ built' = [built EXCEPT ![Main] = p]
      /\ status' = [status EXCEPT ![p] = "registered"]
      /\ waits' = [waits EXCEPT ![p] = W]
      /\ UNCHANGED <<readVersion, writeVersion, required, rtRead, rtWrite, chain, prog, onGpu>>
    BY DEF Queued
<1>2. /\ Main \in Ranks /\ built[Main] \in Nat /\ p \in Nat
      /\ built' \in [Ranks -> 0..NTasks]
    BY <1>1, MainIsRank, Numbers DEF EdgeTypeOK, TypeOK, Tasks
<1>3. chain # "DT" /\ \A q \in Tasks : Home(q) = Main /\ Home(q)' = Main
    BY <1>1 DEF Home
<1>4. status[p] = "new" /\ \A q \in Tasks : q < p => status[q] # "new"
    BY <1>1, <1>2, <1>3, Numbers DEF Accepted
<1>5. \A q \in Tasks : q # p => status'[q] = status[q] /\ waits'[q] = waits[q]
    BY <1>1 DEF EdgeTypeOK, TypeOK
<1>6. status'[p] = "registered" /\ waits'[p] = W /\ built'[Main] = p
    BY <1>1, <1>2 DEF EdgeTypeOK, TypeOK
<1>7. EdgeTypeOK'
    BY <1>1, <1>2, <1>4 DEF EdgeTypeOK, TypeOK
<1>8. Ordered'
    BY <1>4, <1>5, <1>6 DEF Ordered, Started, Conflict
<1>9. Accepted'
  <2> SUFFICES ASSUME NEW q \in Tasks PROVE status'[q] # "new" <=> q <= p
      BY <1>3, <1>6 DEF Accepted
  <2>1. q \in Nat /\ (q <= p <=> q = p \/ q <= built[Main])
      BY <1>1, <1>2, Numbers
  <2> QED BY <1>2, <1>3, <1>5, <1>6, <2>1 DEF Accepted
<1>10. OneProcess'
    BY <1>1, <1>3 DEF OneProcess, EdgeTypeOK, TypeOK
<1>11. WaitsCover'
  <2> SUFFICES ASSUME chain \in {"SG", "SPU"}, NEW e \in Conflict, status'[e[2]] # "new"
               PROVE  status'[e[1]] = "finished" \/ e[1] \in waits'[e[2]]
      BY <1>1 DEF WaitsCover
  <2>1. PICK q \in Tasks, t \in Tasks : e = <<q, t>> /\ q < t
      BY DEF Conflict
  <2>2. CASE t = p
    <3>1. q # p /\ status[q] # "new"
        BY <1>2, <1>4, <2>1, <2>2, Numbers
    <3>2. status[q] = "finished" \/ status[q] \in {"registered", "running"}
        BY <3>1 DEF EdgeTypeOK, TypeOK
    <3> QED BY <1>5, <1>6, <2>1, <2>2, <3>1, <3>2
  <2>3. CASE t # p
    <3>1. status[t] # "new"
        BY <1>5, <2>1, <2>3
    <3>2. status[q] = "finished" \/ q \in waits[t]
        BY <2>1, <3>1 DEF WaitsCover
    <3> QED BY <1>4, <1>5, <2>1, <2>3, <3>2
  <2> QED BY <2>2, <2>3
<1>12. OneAtATime'
    BY <1>1, <1>4, <1>5, <1>6 DEF OneAtATime, EdgeTypeOK, TypeOK
<1>13. GpuOfStarPU'
    BY <1>1 DEF GpuOfStarPU
<1>14. ProgramOver'
    BY <1>1, <1>3, <1>4, <1>5 DEF ProgramOver, Processes
<1> QED BY <1>1, <1>3, <1>7, <1>8, <1>9, <1>10, <1>11, <1>12, <1>13, <1>14

\* The submissions of the schedulers of one process.
LEMMA SubmitKeeps ==
    ASSUME EdgeInv, SubmitSG \/ SubmitSPU \/ SubmitBLAS
    PROVE  EdgeInv'
<1> DEFINE p == built[Main] + 1
<1>0. /\ built[Main] \in Nat
      /\ p <= NTasks => p \in Tasks
    BY MainIsRank, Numbers DEF EdgeInv, EdgeTypeOK, TypeOK, Tasks
<1>1. CASE SubmitSG
  <2>1. chain = "SG" /\ p \in Tasks /\ Queued(p, Blockers(p)) /\ Blockers(p) \in SUBSET Tasks
      BY <1>0, <1>1 DEF SubmitSG, Queue, Queued, Blockers
  <2> HIDE DEF p
  <2> QED BY <2>1, QueuedKeeps, SuperGlueBlocks
<1>2. CASE SubmitSPU
  <2>1. /\ chain = "SPU" /\ p \in Tasks /\ Queued(p, SPUBlockers(p))
        /\ SPUBlockers(p) \in SUBSET Tasks
      BY <1>0, <1>2 DEF SubmitSPU, Queue, Queued, SPUBlockers
  <2> HIDE DEF p
  <2> QED BY <2>1, QueuedKeeps, StarPUBlocks
<1>3. CASE SubmitBLAS
  <2>1. /\ chain = "BLAS" /\ p \in Tasks /\ Queued(p, {})
        /\ \A q \in Tasks : status[q] \in {"new", "finished"}
      BY <1>0, <1>3 DEF SubmitBLAS, Queue, Queued
  <2> HIDE DEF p
  <2> QED BY <2>1, QueuedKeeps
<1> QED BY <1>1, <1>2, <1>3

\* A task is started when those it conflicts with are finished.
LEMMA StartKeeps ==
    ASSUME EdgeInv, NEW p \in Tasks, status[p] = "registered",
           status' = [status EXCEPT ![p] = "running"],
           UNCHANGED <<built, readVersion, writeVersion, required, rtRead, rtWrite,
                       chain, prog, waits>>,
           \A q \in Tasks : <<q, p>> \in Conflict => status[q] = "finished",
           onGpu' = onGpu \/ (chain = "SPU" /\ p \in GpuTasks /\ onGpu' = onGpu \cup {p}),
           chain = "DT" => DTInv'
    PROVE  EdgeInv'
<1> USE DEF EdgeInv
<1>1. \A q \in Tasks : q # p => status'[q] = status[q]
    BY DEF EdgeTypeOK, TypeOK
<1>2. status'[p] = "running"
    BY DEF EdgeTypeOK, TypeOK
<1>3. EdgeTypeOK'
    BY <1>1, <1>2 DEF EdgeTypeOK, TypeOK
<1>4. Ordered'
  <2> SUFFICES ASSUME NEW e \in Conflict, Started(e[2])' PROVE status'[e[1]] = "finished"
      BY DEF Ordered
  <2>1. PICK q \in Tasks, t \in Tasks : e = <<q, t>>
      BY DEF Conflict
  <2>2. status[q] = "finished"
      BY <1>1, <2>1 DEF Ordered, Started
  <2> QED BY <1>1, <2>1, <2>2
<1>5. Accepted'
    BY <1>1, <1>2 DEF Accepted, Home
<1>6. OneProcess'
    BY DEF OneProcess
<1>7. WaitsCover'
    BY <1>1, <1>2 DEF WaitsCover, Conflict
<1>8. OneAtATime'
    BY <1>1, <1>2 DEF OneAtATime
<1>9. GpuOfStarPU'
    BY DEF GpuOfStarPU
<1>10. ProgramOver'
    BY <1>1, <1>2 DEF ProgramOver, Processes, Home
<1> QED BY <1>3, <1>4, <1>5, <1>6, <1>7, <1>8, <1>9, <1>10

\* A running task ends.
LEMMA EndKeeps ==
    ASSUME EdgeInv, NEW p \in Tasks, status[p] = "running",
           status' = [status EXCEPT ![p] = "finished"],
           UNCHANGED <<built, readVersion, writeVersion, required, chain, prog, waits>>,
           chain # "DT" => UNCHANGED <<rtRead, rtWrite>>,
           onGpu' = onGpu \ {p},
           chain = "DT" => DTInv'
    PROVE  EdgeInv'
<1> USE DEF EdgeInv
<1>1. \A q \in Tasks : q # p => status'[q] = status[q]
    BY DEF EdgeTypeOK, TypeOK
<1>2. status'[p] = "finished"
    BY DEF EdgeTypeOK, TypeOK
<1>3. EdgeTypeOK'
  <2>1. TypeOK'
      BY DEF EdgeTypeOK, TypeOK, DTInv
  <2>2. onGpu' \subseteq {q \in Tasks : status'[q] = "running"} \cap GpuTasks
      BY <1>1 DEF EdgeTypeOK
  <2> QED BY <2>1, <2>2 DEF EdgeTypeOK
<1>4. Ordered'
    BY <1>1, <1>2 DEF Ordered, Started, Conflict
<1>5. Accepted'
    BY <1>1, <1>2 DEF Accepted, Home
<1>6. OneProcess'
    BY DEF OneProcess
<1>7. WaitsCover'
    BY <1>1, <1>2 DEF WaitsCover, Conflict
<1>8. OneAtATime'
    BY <1>1, <1>2 DEF OneAtATime
<1>9. GpuOfStarPU'
    BY DEF GpuOfStarPU
<1>10. ProgramOver'
    BY <1>1, <1>2 DEF ProgramOver, Processes, Home
<1> QED BY <1>3, <1>4, <1>5, <1>6, <1>7, <1>8, <1>9, <1>10

\* DuctTeip's engine runs the task whose versions are there.
LEMMA EngineKeeps ==
    ASSUME EdgeInv, NEW p \in Tasks, RunKernel(p) \/ FinishDT(p)
    PROVE  EdgeInv'
<1> USE DEF EdgeInv
<1>1. CASE RunKernel(p)
  <2>1. /\ chain = "DT" /\ Run(p) /\ status[p] = "registered" /\ DataReady(p)
        /\ status' = [status EXCEPT ![p] = "running"]
        /\ UNCHANGED <<built, readVersion, writeVersion, required, rtRead, rtWrite,
                       chain, prog, waits, onGpu>>
      BY <1>1 DEF RunKernel, Run
  <2>2. \A q \in Tasks : <<q, p>> \in Conflict => status[q] = "finished"
      BY <2>1, ReadyInOrder
  <2>3. DTInv'
      BY <2>1, RunKeeps
  <2> QED BY <2>1, <2>2, <2>3, StartKeeps
<1>2. CASE FinishDT(p)
  <2>1. /\ chain = "DT" /\ Finish(p) /\ status[p] = "running"
        /\ status' = [status EXCEPT ![p] = "finished"]
        /\ UNCHANGED <<built, readVersion, writeVersion, required, chain, prog, waits, onGpu>>
      BY <1>2 DEF FinishDT, Finish
  <2>2. onGpu' = onGpu \ {p}
      BY <2>1 DEF GpuOfStarPU
  <2>3. DTInv'
      BY <2>1, FinishKeeps
  <2> QED BY <2>1, <2>2, <2>3, EndKeeps
<1> QED BY <1>1, <1>2

\* A worker of SuperGlue or StarPU runs the task when those it waits for are
\* finished; BLAS runs it in the submission.
LEMMA TaskKeeps ==
    ASSUME EdgeInv, NEW p \in Tasks, TaskStep(p)
    PROVE  EdgeInv'
<1> USE DEF EdgeInv
<1>1. ASSUME Due(p), chain \in {"SG", "SPU"}, NEW q \in Tasks, <<q, p>> \in Conflict
      PROVE  status[q] = "finished"
    BY <1>1 DEF Due, WaitsCover
<1>2. CASE RunOnWorker(p)
  <2>1. Due(p) /\ chain \in {"SG", "SPU"} /\ Start(p) /\ onGpu' = onGpu
      BY <1>2 DEF RunOnWorker
  <2> QED BY <1>1, <2>1, StartKeeps DEF Due, Start
<1>3. CASE RunOnGpu(p)
  <2>1. Due(p) /\ chain = "SPU" /\ Start(p) /\ onGpu' = onGpu \cup {p}
      BY <1>3 DEF RunOnGpu, QueueKernel
  <2>2. p \in GpuTasks
      BY <1>3 DEF RunOnGpu, Codelet
  <2> QED BY <1>1, <2>1, <2>2, StartKeeps DEF Due, Start
<1>4. CASE Release(p)
  <2>1. chain \in {"SG", "SPU"} /\ Over(p) /\ onGpu' = onGpu \ {p}
      BY <1>4 DEF Release
  <2> QED BY <2>1, EndKeeps DEF Over
<1>5. CASE RunInSubmit(p)
  <2>1. chain = "BLAS" /\ status[p] = "registered" /\ Start(p) /\ onGpu' = onGpu
      BY <1>5 DEF RunInSubmit
  <2>2. \A q \in Tasks : <<q, p>> \in Conflict => status[q] = "finished"
      BY <2>1 DEF OneAtATime, Conflict
  <2> QED BY <2>1, <2>2, StartKeeps DEF Start
<1>6. CASE ReturnFromKernel(p)
  <2>1. chain = "BLAS" /\ Over(p) /\ onGpu' = onGpu \ {p}
      BY <1>6 DEF ReturnFromKernel, GpuOfStarPU
  <2> QED BY <2>1, EndKeeps DEF Over
<1> QED BY <1>2, <1>3, <1>4, <1>5, <1>6 DEF TaskStep

\* The program enters utp_finalize with all its tasks submitted, and returns
\* when none of them is left.
LEMMA FinalizeKeeps ==
    ASSUME EdgeInv, NEW r \in Ranks, CallFinalize(r) \/ ReturnFinalize(r)
    PROVE  EdgeInv'
<1> USE DEF EdgeInv
<1>1. UNCHANGED <<built, readVersion, writeVersion, required, status, rtRead, rtWrite,
                  chain, waits, onGpu>>
    BY DEF CallFinalize, ReturnFinalize, vars
<1>2. EdgeTypeOK'
    BY <1>1 DEF EdgeTypeOK, TypeOK, CallFinalize, ReturnFinalize
<1>3. DTInv' <=> DTInv
    BY <1>1 DEF DTInv, TypeOK, BuiltVersions, RunTimeVersions, Registered, Ordered,
                Started, FinishedTasks
<1>4. /\ Ordered' /\ Accepted' /\ OneProcess' /\ WaitsCover' /\ OneAtATime' /\ GpuOfStarPU'
    BY <1>1 DEF Ordered, Started, Accepted, Home, OneProcess, WaitsCover, OneAtATime,
                GpuOfStarPU
<1>5. ProgramOver'
  <2>1. r \in Processes
      BY DEF ProgramOver, CallFinalize, ReturnFinalize
  <2>2. CASE CallFinalize(r)
      BY <1>1, <2>1, <2>2
         DEF CallFinalize, ProgramOver, Processes, Home, EdgeTypeOK
  <2>3. CASE ReturnFinalize(r)
    <3>1. prog[r] = "finalize" /\ SchedulerIdle(r) /\ prog' = [prog EXCEPT ![r] = "done"]
        BY <2>3 DEF ReturnFinalize
    <3>2. built[r] = NTasks
        BY <2>1, <3>1 DEF ProgramOver
    <3>3. ASSUME NEW p \in Tasks, Home(p) = r PROVE status[p] = "finished"
      <4>1. status[p] # "new"
          BY <3>2, <3>3, Numbers DEF Accepted, Tasks
      <4>2. status[p] \notin {"registered", "running"}
          BY <3>1, <3>3 DEF SchedulerIdle, RankTasksDone, AllTasksDone, Home
      <4> QED BY <4>1, <4>2 DEF EdgeTypeOK, TypeOK
    <3> QED BY <1>1, <2>1, <3>1, <3>2, <3>3 DEF ProgramOver, Processes, Home, EdgeTypeOK
  <2> QED BY <2>2, <2>3
<1> QED BY <1>1, <1>2, <1>3, <1>4, <1>5

\* Every step of every chain keeps the invariant.
LEMMA EdgeInvStep == EdgeInv /\ [EdgeNext]_edgeVars => EdgeInv'
<1> SUFFICES ASSUME EdgeInv, [EdgeNext]_edgeVars PROVE EdgeInv'
    OBVIOUS
<1>1. ASSUME NEW r \in Ranks, ProgramStep(r) PROVE EdgeInv'
    BY <1>1, SubmitDTKeeps, SubmitKeeps, FinalizeKeeps DEF ProgramStep
<1>2. ASSUME NEW r \in Ranks, EngineStep(r) PROVE EdgeInv'
    BY <1>2, EngineKeeps DEF EngineStep
<1>3. ASSUME NEW p \in Tasks, TaskStep(p) PROVE EdgeInv'
    BY <1>3, TaskKeeps
<1>4. CASE UNCHANGED edgeVars
  <2>1. UNCHANGED <<built, readVersion, writeVersion, required, status, rtRead, rtWrite,
                    chain, prog, waits, onGpu>>
      BY <1>4 DEF edgeVars, vars
  <2> QED BY <2>1 DEF EdgeInv, EdgeTypeOK, DTInv, TypeOK, BuiltVersions, RunTimeVersions,
                      Registered, Ordered, Started, FinishedTasks, Accepted, Home,
                      OneProcess, WaitsCover, OneAtATime, GpuOfStarPU, ProgramOver, Processes
<1> QED BY <1>1, <1>2, <1>3, <1>4 DEF EdgeNext, EdgeTerminated
-------------------------------------------------------------------------------
(* The theorems *)

\* Whichever scheduler the program is bound to, every reachable state keeps what
\* orders its tasks.
THEOREM EdgeInductive == EdgeSpec => []EdgeInv
BY EdgeInvInit, EdgeInvStep, PTL DEF EdgeSpec

\* The variables stay in their types: no version, wait or GPU kernel is ever of
\* a task that is not there.
THEOREM EdgeTypes == EdgeSpec => []EdgeTypeOK
<1>1. EdgeInv => EdgeTypeOK
    BY DEF EdgeInv
<1> QED BY <1>1, EdgeInductive, PTL

\* No run-time version ever passes the version a task still waits for, for any
\* program on any number of ranks: DuctTeip's test for equality will be met.
THEOREM VersionsNotSkipped == EdgeSpec => []NoVersionSkipped
<1>1. EdgeInv => NoVersionSkipped
  <2> SUFFICES ASSUME EdgeInv PROVE NoVersionSkipped
      OBVIOUS
  <2>1. CASE chain = "DT"
      BY <2>1, VersionsNotPassed DEF EdgeInv
  <2>2. CASE chain # "DT"
    <3>1. \A p \in Tasks : DOMAIN required[p] = {}
        BY <2>2 DEF EdgeInv, OneProcess
    <3> QED BY <3>1 DEF NoVersionSkipped
  <2> QED BY <2>1, <2>2
<1> QED BY <1>1, EdgeInductive, PTL

\* When utp_finalize returns in a process, every task that writes its data has
\* run, on all the ranks and with every scheduler.
THEOREM EdgeFinalize == EdgeSpec => []FinalizeComplete
<1>1. EdgeInv => FinalizeComplete
  <2> SUFFICES ASSUME EdgeInv, NEW r \in Ranks, NEW p \in Tasks,
                      prog[r] = "done", r \in Processes,
                      chain = "DT" => \E d \in Written(p) : HostOf[d] = r
               PROVE  status[p] = "finished"
      BY DEF FinalizeComplete
  <2>1. Home(p) = r
    <3>1. CASE chain = "DT"
        BY <3>1, OneHostAssumption DEF Home, Written
    <3>2. CASE chain # "DT"
        BY <3>2 DEF Home, Processes
    <3> QED BY <3>1, <3>2
  <2> QED BY <2>1 DEF EdgeInv, ProgramOver
<1> QED BY <1>1, EdgeInductive, PTL
-------------------------------------------------------------------------------
(* The refinement: Submitted and StatusOf are the substitutions for the counter *)
(* and the states of TaskOrder.                                                 *)

\* The number of tasks of the rank that is furthest.
Furthest(b) ==
    CHOOSE n \in 0..NTasks :
        /\ \E r \in Ranks : b[r] = n
        /\ \A r \in Ranks : b[r] <= n

Submitted ==
    CHOOSE n \in 0..NTasks :
        /\ \E r \in Ranks : built[r] = n
        /\ \A r \in Ranks : built[r] <= n

StatusOf ==
    [p \in Tasks |-> IF status[p] \in {"running", "finished"} THEN status[p] ELSE "waiting"]

\* Some rank is the furthest, and its count is the only one no rank has passed.
LEMMA FurthestIsGreatest ==
    ASSUME NEW b \in [Ranks -> 0..NTasks]
    PROVE  /\ Furthest(b) \in 0..NTasks
           /\ \E r \in Ranks : b[r] = Furthest(b)
           /\ \A r \in Ranks : b[r] <= Furthest(b)
           /\ \A s \in Ranks : (\A r \in Ranks : b[r] <= b[s]) => b[s] = Furthest(b)
<1> DEFINE S == {b[r] : r \in Ranks}
<1>1. /\ S \in SUBSET Nat /\ S # {} /\ NTasks \in Nat /\ \A n \in S : n <= NTasks
      /\ \A n \in S : n \in 0..NTasks
    BY MainIsRank, Numbers
<1>2. PICK n \in S : \A m \in S : m <= n
  <2> HIDE DEF S
  <2> QED BY <1>1, GreatestOf
<1>3. \E m \in 0..NTasks : (\E r \in Ranks : b[r] = m) /\ (\A r \in Ranks : b[r] <= m)
    BY <1>1, <1>2
<1>4. /\ Furthest(b) \in 0..NTasks
      /\ \E r \in Ranks : b[r] = Furthest(b)
      /\ \A r \in Ranks : b[r] <= Furthest(b)
    BY <1>3 DEF Furthest
<1>5. ASSUME NEW s \in Ranks, \A r \in Ranks : b[r] <= b[s]
      PROVE  b[s] = Furthest(b)
  <2>1. Furthest(b) <= b[s] /\ b[s] <= Furthest(b)
      BY <1>4, <1>5
  <2> QED BY <1>1, <1>4, <2>1
<1> QED BY <1>4, <1>5

\* A step is one of the abstract scheduler's, with the counter and the states as
\* the parts of the step leave them.
LEMMA AbstractSubmit ==
    ASSUME Submitted < NTasks, Submitted' = Submitted + 1, StatusOf' = StatusOf
    PROVE  Abstract!Next
BY DEF Abstract!Next, Abstract!Submit, Submitted, StatusOf

\* A task that begins after those it conflicts with is a Start of TaskOrder.
LEMMA AbstractStart ==
    ASSUME NEW p \in Tasks, p <= Submitted, StatusOf[p] = "waiting",
           \A q \in Tasks : <<q, p>> \in Conflict => StatusOf[q] = "finished",
           StatusOf' = [StatusOf EXCEPT ![p] = "running"], Submitted' = Submitted
    PROVE  Abstract!Next
BY DEF Abstract!Next, Abstract!Start, Abstract!Tasks, Tasks, Submitted, StatusOf

\* A task that ends is a Finish of TaskOrder.
LEMMA AbstractFinish ==
    ASSUME NEW p \in Tasks, StatusOf[p] = "running",
           StatusOf' = [StatusOf EXCEPT ![p] = "finished"], Submitted' = Submitted
    PROVE  Abstract!Next
BY DEF Abstract!Next, Abstract!Finish, Abstract!Tasks, Tasks, Submitted, StatusOf

\* A step that starts, ends and accepts nothing is no step of TaskOrder.
LEMMA AbstractStutter ==
    ASSUME Submitted' = Submitted, StatusOf' = StatusOf
    PROVE  UNCHANGED Abstract!vars
BY DEF Abstract!vars, Submitted, StatusOf

\* A rank or the one process submits a task: the furthest one moves the counter.
LEMMA BuiltMaps ==
    ASSUME TypeOK, TypeOK', NEW r \in Ranks, built[r] < NTasks,
           built' = [built EXCEPT ![r] = built[r] + 1],
           \A p \in Tasks : status'[p] = status[p]
                            \/ (status[p] = "new" /\ status'[p] = "registered")
    PROVE  Abstract!Next \/ UNCHANGED Abstract!vars
<1>1. StatusOf' = StatusOf
    BY DEF StatusOf
<1>2. /\ Submitted = Furthest(built) /\ Submitted' = Furthest(built')
      /\ built \in [Ranks -> 0..NTasks] /\ built' \in [Ranks -> 0..NTasks]
      /\ NTasks \in Nat
    BY Numbers DEF Submitted, Furthest, TypeOK
<1>3. /\ Submitted \in Nat /\ Submitted <= NTasks
      /\ \A s \in Ranks : built[s] \in Nat /\ built[s] <= Submitted
      /\ \E s \in Ranks : built[s] = Submitted
  <2>1. /\ Furthest(built) \in 0..NTasks
        /\ \A s \in Ranks : built[s] <= Furthest(built)
        /\ \E s \in Ranks : built[s] = Furthest(built)
      BY <1>2, FurthestIsGreatest
  <2> QED BY <1>2, <2>1
<1>4. \A s \in Ranks : (\A t \in Ranks : built'[t] <= built'[s]) => built'[s] = Submitted'
    BY <1>2, FurthestIsGreatest
<1>5. /\ built'[r] = built[r] + 1
      /\ \A s \in Ranks \ {r} : built'[s] = built[s]
    BY <1>2
<1>6. CASE built[r] = Submitted
  <2>1. \A t \in Ranks : built'[t] <= built'[r]
      BY <1>3, <1>5, <1>6
  <2>2. Submitted' = Submitted + 1
      BY <1>4, <1>5, <1>6, <2>1
  <2>3. Submitted < NTasks
      BY <1>6
  <2> QED BY <1>1, <2>2, <2>3, AbstractSubmit
<1>7. CASE built[r] < Submitted
  <2>1. PICK s \in Ranks : built[s] = Submitted
      BY <1>3
  <2>2. s # r
      BY <1>3, <1>7, <2>1
  <2>3. \A t \in Ranks : built'[t] <= built'[s]
      BY <1>3, <1>5, <1>7, <2>1, <2>2
  <2>4. Submitted' = Submitted
      BY <1>4, <1>5, <2>1, <2>2, <2>3
  <2> QED BY <1>1, <2>4, AbstractStutter
<1> QED BY <1>3, <1>6, <1>7

\* A task that is started has been submitted by its home, and found those it
\* conflicts with finished.
LEMMA StartMaps ==
    ASSUME EdgeInv, EdgeInv', NEW p \in Tasks, status[p] = "registered",
           status' = [status EXCEPT ![p] = "running"], built' = built
    PROVE  Abstract!Next
<1>1. TypeOK /\ Accepted /\ Ordered'
    BY DEF EdgeInv, EdgeTypeOK
<1>2. p <= Submitted
  <2>1. p <= built[Home(p)] /\ Home(p) \in Ranks
      BY <1>1, HomeIsProcess DEF Accepted
  <2>2. Submitted = Furthest(built) /\ built \in [Ranks -> 0..NTasks]
      BY <1>1 DEF Submitted, Furthest, TypeOK
  <2>3. built[Home(p)] <= Submitted /\ built[Home(p)] \in Nat /\ Submitted \in Nat
      BY <2>1, <2>2, FurthestIsGreatest
  <2> QED BY <2>1, <2>3, Numbers
<1>3. StatusOf[p] = "waiting"
    BY DEF StatusOf
<1>4. ASSUME NEW q \in Tasks, <<q, p>> \in Conflict
      PROVE  StatusOf[q] = "finished"
  <2>1. q # p
      BY <1>4, Numbers DEF Conflict
  <2>2. status'[p] = "running" /\ status'[q] = status[q]
      BY <1>1, <2>1 DEF TypeOK
  <2>3. status'[q] = "finished"
      BY <1>1, <1>4, <2>2 DEF Ordered, Started
  <2> QED BY <2>2, <2>3 DEF StatusOf
<1>5. StatusOf' = [StatusOf EXCEPT ![p] = "running"]
    BY <1>1 DEF StatusOf, TypeOK
<1>6. Submitted' = Submitted
    BY DEF Submitted
<1> QED BY <1>2, <1>3, <1>4, <1>5, <1>6, AbstractStart

\* The end of a running task, whoever notices it, is a Finish of TaskOrder.
LEMMA EndMaps ==
    ASSUME EdgeInv, NEW p \in Tasks, status[p] = "running",
           status' = [status EXCEPT ![p] = "finished"], built' = built
    PROVE  Abstract!Next
<1>1. StatusOf[p] = "running"
    BY DEF StatusOf
<1>2. StatusOf' = [StatusOf EXCEPT ![p] = "finished"]
    BY DEF EdgeInv, EdgeTypeOK, StatusOf, TypeOK
<1>3. Submitted' = Submitted
    BY DEF Submitted
<1> QED BY <1>1, <1>2, <1>3, AbstractFinish

\* Whichever the scheduler and however many the ranks, what becomes of the tasks
\* is what TaskOrder allows: no task starts before an earlier one, of any rank,
\* that it conflicts with has ended.
THEOREM EdgeRefinement == EdgeSpec => ImplementsTaskOrder
<1>1. EdgeInit => Abstract!Init
  <2> SUFFICES ASSUME EdgeInit PROVE Abstract!Init
      OBVIOUS
  <2>1. built = [r \in Ranks |-> 0] /\ status = [p \in Tasks |-> "new"]
      BY DEF EdgeInit, Init
  <2>2. built \in [Ranks -> 0..NTasks] /\ Submitted = Furthest(built)
      BY <2>1, Numbers DEF Submitted, Furthest
  <2>3. Submitted = 0
      BY <2>1, <2>2, FurthestIsGreatest
  <2>4. StatusOf = [p \in Tasks |-> "waiting"]
      BY <2>1 DEF StatusOf
  <2> QED BY <2>3, <2>4 DEF Abstract!Init, Abstract!Tasks, Tasks, Submitted, StatusOf
<1>2. EdgeInv /\ EdgeInv' /\ [EdgeNext]_edgeVars => [Abstract!Next]_(Abstract!vars)
  <2> SUFFICES ASSUME EdgeInv, EdgeInv', [EdgeNext]_edgeVars
               PROVE  Abstract!Next \/ UNCHANGED Abstract!vars
      OBVIOUS
  <2>1. TypeOK /\ TypeOK' /\ Accepted
      BY DEF EdgeInv, EdgeTypeOK
  <2>2. ASSUME built' = built, status' = status
        PROVE  UNCHANGED Abstract!vars
    <3>1. Submitted' = Submitted /\ StatusOf' = StatusOf
        BY <2>2 DEF Submitted, StatusOf
    <3> QED BY <3>1, AbstractStutter
  <2>3. ASSUME NEW r \in Ranks, NEW p \in Tasks, p = built[r] + 1,
               r = Home(p) \/ status' = status,
               built' = [built EXCEPT ![r] = p],
               status' = status \/ status' = [status EXCEPT ![p] = "registered"]
        PROVE  Abstract!Next \/ UNCHANGED Abstract!vars
    <3>1. built[r] < NTasks /\ built[r] \in Nat
        BY <2>1, <2>3, Numbers DEF TypeOK, Tasks
    <3>2. r = Home(p) => status[p] = "new"
        BY <2>1, <2>3, <3>1 DEF Accepted, TypeOK
    <3>3. \A q \in Tasks : status'[q] = status[q]
                           \/ (status[q] = "new" /\ status'[q] = "registered")
        BY <2>1, <2>3, <3>2 DEF TypeOK
    <3> QED BY <2>1, <2>3, <3>1, <3>3, BuiltMaps
  <2>4. ASSUME NEW r \in Ranks, SubmitDT(r)
        PROVE  Abstract!Next \/ UNCHANGED Abstract!vars
    <3> DEFINE p == built[r] + 1
    <3>1. /\ p \in Tasks /\ built' = [built EXCEPT ![r] = p]
          /\ status' = status \/ (Home(p) = r /\ status' = [status EXCEPT ![p] = "registered"])
        BY <2>1, <2>4, Numbers DEF SubmitDT, NewDTTask, TypeOK, Tasks, Home
    <3> HIDE DEF p
    <3>2. p = built[r] + 1
        BY DEF p
    <3> QED BY <2>3, <3>1, <3>2
  <2>5. ASSUME SubmitSG \/ SubmitSPU \/ SubmitBLAS
        PROVE  Abstract!Next \/ UNCHANGED Abstract!vars
    <3> DEFINE p == built[Main] + 1
    <3>1. /\ p \in Tasks /\ built' = [built EXCEPT ![Main] = p] /\ Home(p) = Main
          /\ status' = [status EXCEPT ![p] = "registered"]
        BY <2>1, <2>5, Numbers, MainIsRank
           DEF SubmitSG, SubmitSPU, SubmitBLAS, Queue, TypeOK, Tasks, Home
    <3> HIDE DEF p
    <3>2. p = built[Main] + 1
        BY DEF p
    <3> QED BY <2>3, <3>1, <3>2, MainIsRank
  <2>6. ASSUME NEW r \in Ranks, CallFinalize(r) \/ ReturnFinalize(r)
        PROVE  UNCHANGED Abstract!vars
      BY <2>2, <2>6 DEF CallFinalize, ReturnFinalize, vars
  <2>7. ASSUME NEW p \in Tasks, RunKernel(p) \/ FinishDT(p)
        PROVE  Abstract!Next
      BY <2>7, StartMaps, EndMaps DEF RunKernel, FinishDT, Run, Finish
  <2>8. ASSUME NEW p \in Tasks, TaskStep(p)
        PROVE  Abstract!Next
      BY <2>8, StartMaps, EndMaps
         DEF TaskStep, RunOnWorker, RunOnGpu, QueueKernel, Release, RunInSubmit,
             ReturnFromKernel, Due, Start, Over
  <2>9. CASE UNCHANGED edgeVars
      BY <2>2, <2>9 DEF edgeVars, vars
  <2> QED BY <2>4, <2>5, <2>6, <2>7, <2>8, <2>9
          DEF EdgeNext, ProgramStep, EngineStep, EdgeTerminated
<1> QED BY <1>1, <1>2, EdgeInductive, PTL DEF EdgeSpec, ImplementsTaskOrder, Abstract!Spec
===============================================================================
