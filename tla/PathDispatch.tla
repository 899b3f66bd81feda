----------------------------- MODULE PathDispatch -----------------------------
(***************************************************************************)
(* The statically bound chain DuctTeip -> SuperGlue -> BLAS                *)
(* (PathDispatch<Edge<DT,SG>, Edge<SG,BLAS>>), in the two builds of it.    *)
(* Built with SHORTCUT=1, as the makefiles dsb and dsb_release do, the     *)
(* kernel of a product does not tell the dispatcher that it is over.       *)
(*                                                                         *)
(* Three kinds of thread share the tasks:                                  *)
(*   - the program: the split of the root task submits NTasks tasks to     *)
(*     DuctTeip one by one, then utp_finalize waits;                       *)
(*   - the DuctTeip engine: it runs the kernel of a task whose data is     *)
(*     ready; that kernel is the operation's split, which constructs the   *)
(*     leaves of the task and submits them to SuperGlue one by one;        *)
(*   - NWorkers SuperGlue workers: each runs a leaf with BLAS, decrements  *)
(*     the child_count of the leaf's parent and, on reaching zero, tells   *)
(*     DuctTeip that the parent has finished.                              *)
(*                                                                         *)
(* DuctTeip and SuperGlue themselves are libraries outside the repository: *)
(* they appear through the calls the code makes to them.                   *)
(***************************************************************************)
EXTENDS Integers, FiniteSets

CONSTANTS
    NTasks,        \* tasks the split of the root task submits
    Arity,         \* Arity[p]: how many leaves the split of task p makes
    NWorkers,      \* SuperGlue worker threads (cmdLine.nt)
    TaskReads,     \* TaskReads[p]: the data p has as In arguments
    TaskWrites,    \* TaskWrites[p]: the data p has as InOut arguments
    LeafReads,     \* the same for the blocks of the leaves
    LeafWrites,
    Shortcuts,     \* the values of SHORTCUT the headers may be compiled with
    GemmLeaves     \* the leaves that are products of blocks (Gemm)

Tasks == 1..NTasks
Root == 0
Leaves == UNION {{p} \X (1..Arity[p]) : p \in Tasks}

ASSUME SizesAssumption ==
    /\ NTasks \in Nat \ {0}
    /\ NWorkers \in Nat \ {0}
    \* every split of the ublas operations makes at least one leaf when the
    \* data has at least one block
    /\ Arity \in [Tasks -> Nat \ {0}]
    /\ Shortcuts \subseteq {0, 1}
    /\ GemmLeaves \subseteq Leaves

\* Two tasks, or two leaves, conflict when one writes what the other accesses.
TaskConflict(q, p) ==
    \/ TaskWrites[q] \cap (TaskReads[p] \cup TaskWrites[p]) # {}
    \/ TaskWrites[p] \cap TaskReads[q] # {}

LeafConflict(c, d) ==
    \/ LeafWrites[c] \cap (LeafReads[d] \cup LeafWrites[d]) # {}
    \/ LeafWrites[d] \cap LeafReads[c] # {}

\* A split touches only blocks of its task's arguments, and writes only
\* blocks of arguments the task has as InOut.
ASSUME SplitAssumption ==
    \A c, d \in Leaves :
        c[1] # d[1] /\ LeafConflict(c, d) => TaskConflict(c[1], d[1])

VARIABLES
    shortcut,      \* the value of SHORTCUT in this build
    prog,          \* where the program is
    submitted,     \* how many tasks the program has submitted
    started,       \* started[p]: the engine has called p's runKernel
    isFinished,    \* isFinished[p]: setFinished(true) has been called for p
    splitting,     \* the task whose split the engine is in, or NoTask
    next,          \* the leaf of it that is constructed or submitted next
    child_count,   \* Task::child_count of the root and of the tasks
    leaf,          \* where each leaf is
    waits          \* waits[c]: the leaves SuperGlue makes leaf c wait for

NoTask == 0

vars == <<shortcut, prog, submitted, started, isFinished, splitting, next,
          child_count, leaf, waits>>

LeafStates == {"none", "created", "submitted", "running", "finishing",
               "returning", "done"}

TypeOK ==
    /\ shortcut \in Shortcuts
    /\ prog \in {"split", "barrier", "done"}
    /\ submitted \in 0..NTasks
    /\ started \in [Tasks -> BOOLEAN]
    /\ isFinished \in [Tasks -> BOOLEAN]
    /\ splitting \in Tasks \cup {NoTask}
    /\ next \in Nat
    /\ child_count \in [Tasks \cup {Root} -> Int]
    /\ leaf \in [Leaves -> LeafStates]
    /\ waits \in [Leaves -> SUBSET Leaves]

Init ==
    /\ shortcut \in Shortcuts
    /\ prog = "split"
    /\ submitted = 0
    /\ started = [p \in Tasks |-> FALSE]
    /\ isFinished = [p \in Tasks |-> FALSE]
    /\ splitting = NoTask
    /\ next = 1
    /\ child_count = [p \in Tasks \cup {Root} |-> 0]
    /\ leaf = [c \in Leaves |-> "none"]
    /\ waits = [c \in Leaves |-> {}]
-------------------------------------------------------------------------------
(* Faults: mistakes the code could have made, each in place of the definition   *)
(* it is named after.  A run is repeated with each to see its property fail.    *)

\* The loop of the root split runs once too often.
SubmitOneMore ==
    /\ prog = "split"
    /\ submitted <= NTasks
    /\ submitted' = submitted + 1
    /\ child_count' = [child_count EXCEPT ![Root] = @ + 1]
    /\ UNCHANGED <<prog, started, isFinished, splitting, next, leaf, waits>>

\* finalize does not wait for the tasks, only for their submission.
FinalizeEngineEarly ==
    /\ prog = "split"
    /\ submitted = NTasks
    /\ splitting = NoTask
    /\ prog' = "barrier"
    /\ UNCHANGED <<submitted, started, isFinished, splitting, next,
                   child_count, leaf, waits>>

\* The barrier looks at the queues and not at the workers.
BarrierOfQueues ==
    /\ prog = "barrier"
    /\ \A c \in Leaves : leaf[c] # "submitted"
    /\ prog' = "done"
    /\ UNCHANGED <<submitted, started, isFinished, splitting, next,
                   child_count, leaf, waits>>

\* A task waits for the earlier ones to start, not to finish.
DataReadyOnStart(p) ==
    \A q \in Tasks : q < p /\ TaskConflict(q, p) => started[q]

\* The constructor of the leaf does not call set_parent.
CreateLeafOrphan ==
    /\ splitting # NoTask
    /\ <<splitting, next>> \in Leaves
    /\ leaf[<<splitting, next>>] = "none"
    /\ leaf' = [leaf EXCEPT ![<<splitting, next>>] = "created"]
    /\ UNCHANGED <<prog, submitted, started, isFinished, splitting, next,
                   child_count, waits>>

\* Only the write accesses of a leaf are registered.
BlockersOfWrites(c) ==
    {d \in Leaves : /\ leaf[d] \notin {"none", "created", "done"}
                    /\ LeafWrites[d] \cap LeafWrites[c] # {}}

\* The decrement in SGTask::run, which is commented out, is in force.
ReturnDecreased(c) ==
    LET p == c[1] IN
    /\ leaf[c] = "running" /\ ~(shortcut = 0 \/ c \notin GemmLeaves)
    /\ child_count' = [child_count EXCEPT ![p] = @ - 1]
    /\ leaf' = [leaf EXCEPT ![c] =
                  IF child_count[p] - 1 = 0 THEN "finishing" ELSE "returning"]
    /\ UNCHANGED <<prog, submitted, started, isFinished, splitting, next, waits>>

\* The count is looked at before it is decremented, not after.
DecreaseCountOld(c) ==
    LET p == c[1] IN
    /\ leaf[c] = "running" /\ (shortcut = 0 \/ c \notin GemmLeaves)
    /\ child_count' = [child_count EXCEPT ![p] = @ - 1]
    /\ leaf' = [leaf EXCEPT ![c] =
                  IF child_count[p] = 0 THEN "finishing" ELSE "returning"]
    /\ UNCHANGED <<prog, submitted, started, isFinished, splitting, next, waits>>
-------------------------------------------------------------------------------
(* The program *)

\* One turn of the root split's loop: the task's constructor raises the
\* root's child_count and DT::submit constructs its DTTask, which resets the
\* task's own child_count and registers it with the engine.
Submit ==
    /\ prog = "split"
    /\ submitted < NTasks
    /\ submitted' = submitted + 1
    /\ child_count' = [child_count EXCEPT ![Root] = @ + 1,
                                          ![submitted + 1] = 0]
    /\ UNCHANGED <<prog, started, isFinished, splitting, next, leaf, waits>>

\* dtEngine.finalize(): returns when the engine has seen every task finished.
FinalizeEngine ==
    /\ prog = "split"
    /\ submitted = NTasks
    /\ splitting = NoTask
    /\ \A p \in Tasks : isFinished[p]
    /\ prog' = "barrier"
    /\ UNCHANGED <<submitted, started, isFinished, splitting, next,
                   child_count, leaf, waits>>

\* SG_Engine->barrier(): returns when SuperGlue has no task left.
Barrier ==
    /\ prog = "barrier"
    /\ \A c \in Leaves : leaf[c] \in {"none", "done"}
    /\ prog' = "done"
    /\ UNCHANGED <<submitted, started, isFinished, splitting, next,
                   child_count, leaf, waits>>
-------------------------------------------------------------------------------
(* The DuctTeip engine *)

\* What the versions of DTTask's constructor wait for (see DTVersions).
DataReady(p) ==
    \A q \in Tasks : q < p /\ TaskConflict(q, p) => isFinished[q]

\* The engine calls runKernel of a registered task whose data is ready.
RunKernel(p) ==
    /\ splitting = NoTask
    /\ p <= submitted
    /\ ~started[p]
    /\ DataReady(p)
    /\ ~isFinished[p]
    /\ started' = [started EXCEPT ![p] = TRUE]
    /\ splitting' = p
    /\ next' = 1
    /\ UNCHANGED <<prog, submitted, isFinished, child_count, leaf, waits>>

\* The constructor of the next leaf: set_parent raises the parent's count.
CreateLeaf ==
    /\ splitting # NoTask
    /\ <<splitting, next>> \in Leaves
    /\ leaf[<<splitting, next>>] = "none"
    /\ leaf' = [leaf EXCEPT ![<<splitting, next>>] = "created"]
    /\ child_count' = [child_count EXCEPT ![splitting] = @ + 1]
    /\ UNCHANGED <<prog, submitted, started, isFinished, splitting, next, waits>>

\* The leaves a new SuperGlue task waits for: those that access one of its
\* handles in conflict with it and have not been completed yet.
Blockers(c) ==
    {d \in Leaves : /\ leaf[d] \notin {"none", "created", "done"}
                    /\ LeafConflict(d, c)}

\* Dispatcher::submit(_dt, leaf): SG::submit constructs the SGTask, which
\* registers its accesses, and hands it to SuperGlue.
SubmitLeaf ==
    /\ splitting # NoTask
    /\ <<splitting, next>> \in Leaves
    /\ leaf[<<splitting, next>>] = "created"
    /\ leaf' = [leaf EXCEPT ![<<splitting, next>>] = "submitted"]
    /\ waits' = [waits EXCEPT ![<<splitting, next>>] =
                    Blockers(<<splitting, next>>)]
    /\ next' = next + 1
    /\ UNCHANGED <<prog, submitted, started, isFinished, splitting, child_count>>

\* The split's loops are over and runKernel returns to the engine.
ReturnKernel ==
    /\ splitting # NoTask
    /\ <<splitting, next>> \notin Leaves
    /\ splitting' = NoTask
    /\ UNCHANGED <<prog, submitted, started, isFinished, next, child_count,
                   leaf, waits>>
-------------------------------------------------------------------------------
(* The SuperGlue workers *)

\* The kernels of the other operations call Dispatcher::finished in any build.
Reports(c) == shortcut = 0 \/ c \notin GemmLeaves

InWorker(c) == leaf[c] \in {"running", "finishing", "returning"}

\* A free worker takes a leaf whose accesses are due and runs its kernel.
RunLeaf(c) ==
    /\ leaf[c] = "submitted"
    /\ \A d \in waits[c] : leaf[d] = "done"
    /\ Cardinality({d \in Leaves : InWorker(d)}) < NWorkers
    /\ leaf' = [leaf EXCEPT ![c] = "running"]
    /\ UNCHANGED <<prog, submitted, started, isFinished, splitting, next,
                   child_count, waits>>

\* The kernel is over; Dispatcher::finished(_sg, leaf) decrements the
\* parent's count atomically and looks at the value it got.
DecreaseCount(c) ==
    LET p == c[1] IN
    /\ leaf[c] = "running" /\ Reports(c)
    /\ child_count' = [child_count EXCEPT ![p] = @ - 1]
    /\ leaf' = [leaf EXCEPT ![c] =
                  IF child_count[p] - 1 = 0 THEN "finishing" ELSE "returning"]
    /\ UNCHANGED <<prog, submitted, started, isFinished, splitting, next, waits>>

\* SHORTCUT=1: Gemm::run leaves Dispatcher::finished out and SGTask::run, which
\* has called it, does nothing in its place (the code that would is commented
\* out, in the destructor as well): the parent is not told.
ReturnUnreported(c) ==
    /\ leaf[c] = "running" /\ ~Reports(c)
    /\ leaf' = [leaf EXCEPT ![c] = "returning"]
    /\ UNCHANGED <<prog, submitted, started, isFinished, splitting, next,
                   child_count, waits>>

\* DT::finished(parent): setFinished(true) on the parent's DTTask.
FinishParent(c) ==
    /\ leaf[c] = "finishing"
    /\ isFinished' = [isFinished EXCEPT ![c[1]] = TRUE]
    /\ leaf' = [leaf EXCEPT ![c] = "returning"]
    /\ UNCHANGED <<prog, submitted, started, splitting, next, child_count, waits>>

\* SGTask::run returns; SuperGlue releases the handles of the leaf.
ReleaseLeaf(c) ==
    /\ leaf[c] = "returning"
    /\ leaf' = [leaf EXCEPT ![c] = "done"]
    /\ UNCHANGED <<prog, submitted, started, isFinished, splitting, next,
                   child_count, waits>>

WorkerStep(c) ==
    \/ RunLeaf(c) \/ DecreaseCount(c) \/ ReturnUnreported(c)
    \/ FinishParent(c) \/ ReleaseLeaf(c)
-------------------------------------------------------------------------------
ProgramStep == Submit \/ FinalizeEngine \/ Barrier

EngineStep ==
    \/ \E p \in Tasks : RunKernel(p)
    \/ CreateLeaf
    \/ SubmitLeaf
    \/ ReturnKernel

\* A task that nobody will flag: a leaf of it keeps its unit of child_count for
\* ever, and no worker has seen a zero from before that leaf.
Lost(p) ==
    /\ ~isFinished[p]
    /\ \A i \in 1..Arity[p] : leaf[<<p, i>>] # "finishing"
    /\ \E i \in 1..Arity[p] : ~Reports(<<p, i>>) /\ leaf[<<p, i>>] # "none"

\* utp_finalize has returned, or the engine goes round in it.
Terminated ==
    /\ prog = "done" \/ \E p \in Tasks : Lost(p)
    /\ UNCHANGED vars

Step ==
    /\ \/ ProgramStep
       \/ EngineStep
       \/ \E c \in Leaves : WorkerStep(c)
    /\ UNCHANGED shortcut

Next == Step \/ Terminated

\* Some thread that has a step to take takes it.
Fairness == WF_vars(Step)

Spec == Init /\ [][Next]_vars /\ Fairness
-------------------------------------------------------------------------------
(* Properties *)

\* The leaf has been constructed and its kernel is not over.
Outstanding(c) == leaf[c] \in {"created", "submitted", "running"}

\* The leaves of p that hold a unit of its child_count: constructed by the
\* split and not reported by a worker, be it that the kernel is not over or that
\* it never reports.
Counted(p) ==
    {i \in 1..Arity[p] :
        \/ Outstanding(<<p, i>>)
        \/ ~Reports(<<p, i>>) /\ leaf[<<p, i>>] # "none"}

\* child_count is exact: the atomic increase of set_parent on the engine's
\* thread and the atomic decrease_nv of the workers never lose an update, and
\* the reset in DTTask's constructor never wipes out a leaf that is counted.
CountIsExact ==
    /\ \A p \in Tasks : child_count[p] = Cardinality(Counted(p))
    /\ child_count[Root] = submitted

\* The split of p is over.
SplitOver(p) == started[p] /\ splitting # p

\* No lost completion, where the kernels report: once the split of p is over and
\* none of its leaves is outstanding, setFinished has been called for p or a
\* worker is about to call it.  The zero seen by an earlier worker, in the middle
\* of the split, does not swallow the one the last worker sees.  With SHORTCUT=0
\* every kernel reports; with SHORTCUT=1 this is about tasks without products.
NoLostCompletion ==
    \A p \in Tasks :
        SplitOver(p) /\ (\A i \in 1..Arity[p] : Reports(<<p, i>>) /\ ~Outstanding(<<p, i>>))
            => isFinished[p] \/ \E i \in 1..Arity[p] : leaf[<<p, i>>] = "finishing"

\* With SHORTCUT=1 the completion of a task is lost for good as soon as a product
\* of it has been constructed, unless the zero was seen before: no later
\* completion makes up for it and dtEngine.finalize does not return.
LostForGood ==
    [][\A p \in Tasks : Lost(p) => Lost(p)' /\ prog' = "split"]_vars

\* The order of the program on the leaves: by task, then by the split's loops.
Before(c, d) == c[1] < d[1] \/ (c[1] = d[1] /\ c[2] < d[2])

\* The earlier leaves that d conflicts with and that are not over.
Pending(d) ==
    {c \in Leaves : leaf[c] # "done" /\ Before(c, d) /\ LeafConflict(c, d)}

\* Two leaves in conflict run in the order of the program: when the later one
\* has been given to a worker the earlier one has released its handles.  It
\* takes DuctTeip's order on the tasks, the engine running one split at a time
\* and SuperGlue's order on the leaves together, because a task may be flagged
\* finished long before its leaves have run.
LeafOrder ==
    \A d \in Leaves :
        leaf[d] \in {"running", "finishing", "returning", "done"} => Pending(d) = {}

\* When utp_finalize returns every leaf of every task has run: neither wait
\* alone shows it, DuctTeip's may end while leaves are still queued and
\* SuperGlue's says nothing of leaves that are not submitted yet.
FinalizeComplete ==
    prog = "done" => \A c \in Leaves : leaf[c] = "done"

\* The program always comes back from utp_finalize, but for the build with
\* SHORTCUT=1 when the completion of a task with products has been lost.
Termination == <>(prog = "done" \/ (shortcut = 1 /\ \E p \in Tasks : Lost(p)))

\* The tasks as the program sees them implement the abstract scheduler.
StatusOf(p) ==
    IF isFinished[p] THEN "finished" ELSE IF started[p] THEN "running" ELSE "waiting"

Abstract ==
    INSTANCE TaskOrder WITH
        Conflict <- {e \in Tasks \X Tasks : e[1] < e[2] /\ TaskConflict(e[1], e[2])},
        status <- [p \in Tasks |-> StatusOf(p)]

\* Tasks are accepted in order, start after the earlier tasks they conflict
\* with are flagged finished, and a task flagged finished stays so however
\* often its counter comes back to zero.
ImplementsTaskOrder == Abstract!Spec
-------------------------------------------------------------------------------
(* The inductive invariant *)

\* What is submitted: nothing of a task the engine has not run, everything of
\* one whose split is over, the leaves before "next" of the one in between.
SplitProgress ==
    /\ \A p \in Tasks : \A i \in 1..Arity[p] :
          /\ ~started[p] => leaf[<<p, i>>] = "none"
          /\ SplitOver(p) => leaf[<<p, i>>] \notin {"none", "created"}
          /\ splitting = p =>
                /\ i < next => leaf[<<p, i>>] \notin {"none", "created"}
                /\ i = next => leaf[<<p, i>>] \in {"none", "created"}
                /\ i > next => leaf[<<p, i>>] = "none"
    /\ splitting # NoTask => started[splitting] /\ next >= 1

\* The engine runs registered tasks, after the earlier ones they conflict with.
TasksInOrder ==
    \A p \in Tasks :
        /\ started[p] => p <= submitted /\ DataReady(p)
        /\ isFinished[p] => started[p]

\* NoLostCompletion from the first leaf on, in the middle of the split too.
ZeroIsSeen ==
    \A p \in Tasks :
        (\E i \in 1..Arity[p] : leaf[<<p, i>>] # "none") /\ Counted(p) = {}
            => isFinished[p] \/ \E i \in 1..Arity[p] : leaf[<<p, i>>] = "finishing"

\* A leaf waits for the earlier leaves it conflicts with or finds them done.
LeavesWait ==
    /\ \A c \in Leaves :
          leaf[c] \in {"running", "finishing", "returning", "done"}
              => \A d \in waits[c] : leaf[d] = "done"
    /\ \A d \in Leaves :
          leaf[d] \notin {"none", "created"} => Pending(d) \subseteq waits[d]

\* What utp_finalize has waited for.
FinalizeWaits ==
    /\ prog # "split" => splitting = NoTask /\ \A p \in Tasks : isFinished[p]
    /\ FinalizeComplete

IndInv ==
    /\ TypeOK
    /\ CountIsExact
    /\ SplitProgress
    /\ TasksInOrder
    /\ ZeroIsSeen
    /\ LeavesWait
    /\ FinalizeWaits
===============================================================================
