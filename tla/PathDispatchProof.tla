-------------------------- MODULE PathDispatchProof --------------------------
(***************************************************************************)
(* Proofs about PathDispatch, for every number of tasks, leaves and        *)
(* workers and every data access of theirs that SplitAssumption allows.    *)
(*                                                                         *)
(* Each part of IndInv is preserved by every step (one lemma per part,     *)
(* one step per action that can disturb it); the safety properties and     *)
(* the refinement of TaskOrder follow from it.                             *)
(***************************************************************************)
EXTENDS PathDispatch, FiniteSetTheorems, TLAPS

\* The leaves are the pairs of a task and the index of one of its sub-tasks.
LEMMA LeafPairs ==
    /\ \A p \in Tasks : \A i \in 1..Arity[p] : <<p, i>> \in Leaves
    /\ \A c \in Leaves : /\ c = <<c[1], c[2]>>
                         /\ c[1] \in Tasks
                         /\ c[2] \in 1..Arity[c[1]]
BY DEF Leaves

\* Tasks and sub-tasks are numbered from 1: 0 names the root, or no task.
LEMMA Numbers ==
    /\ \A p \in Tasks : p \in Nat /\ p >= 1 /\ p <= NTasks /\ p # NoTask
    /\ \A p \in Tasks : Arity[p] \in Nat /\ Arity[p] >= 1
    /\ NTasks \in Nat
BY SizesAssumption DEF Tasks, NoTask

\* The counts after Submit: one entry is raised and another one is reset.
LEMMA SubmitCounts ==
    ASSUME NEW S, NEW f \in [S -> Int], NEW a \in S, NEW b \in S, a # b
    PROVE  LET g == [f EXCEPT ![a] = @ + 1, ![b] = 0] IN
           /\ g \in [S -> Int]
           /\ g[a] = f[a] + 1
           /\ g[b] = 0
           /\ \A s \in S \ {a, b} : g[s] = f[s]
OBVIOUS

-------------------------------------------------------------------------------
(* Type correctness *)

\* The initial state is of the right types.
LEMMA TypeInit == Init => TypeOK
BY SizesAssumption DEF Init, TypeOK, Root, Tasks, NoTask, LeafStates

\* No step changes what the program has been compiled with.
LEMMA SameBuild == [Next]_vars => shortcut' = shortcut
BY DEF Next, Step, Terminated, vars

\* Every step keeps every variable in its type.
LEMMA TypeStep == TypeOK /\ [Next]_vars => TypeOK'
<1> SUFFICES ASSUME TypeOK, [Next]_vars PROVE TypeOK'
    OBVIOUS
<1> shortcut' = shortcut
    BY SameBuild
<1> USE DEF TypeOK, LeafStates
<1>1. CASE Submit
  <2>1. submitted + 1 \in Tasks /\ submitted + 1 \in 0..NTasks /\ Root # submitted + 1
      BY <1>1, Numbers DEF Submit, Tasks, Root
  <2>2. child_count' \in [Tasks \cup {Root} -> Int]
    <3> DEFINE S == Tasks \cup {Root}
    <3>1. Root \in S /\ submitted + 1 \in S /\ child_count \in [S -> Int]
        BY <2>1
    <3>2. [child_count EXCEPT ![Root] = @ + 1, ![submitted + 1] = 0] \in [S -> Int]
        BY <2>1, <3>1, SubmitCounts
    <3> QED BY <1>1, <3>2 DEF Submit
  <2> QED BY <1>1, <2>1, <2>2 DEF Submit
<1>2. CASE FinalizeEngine
    BY <1>2 DEF FinalizeEngine
<1>3. CASE Barrier
    BY <1>3 DEF Barrier
<1>4. ASSUME NEW p \in Tasks, RunKernel(p) PROVE TypeOK'
    BY <1>4 DEF RunKernel
<1>5. CASE CreateLeaf
    BY <1>5 DEF CreateLeaf
<1>6. CASE SubmitLeaf
  <2>1. Blockers(<<splitting, next>>) \in SUBSET Leaves
      BY DEF Blockers
  <2>2. next' \in Nat
      BY <1>6 DEF SubmitLeaf
  <2> QED BY <1>6, <2>1, <2>2 DEF SubmitLeaf
<1>7. CASE ReturnKernel
    BY <1>7 DEF ReturnKernel
<1>8. ASSUME NEW c \in Leaves, RunLeaf(c) PROVE TypeOK'
    BY <1>8 DEF RunLeaf
<1>9. ASSUME NEW c \in Leaves, DecreaseCount(c) PROVE TypeOK'
  <2>1. child_count' \in [Tasks \cup {Root} -> Int]
      BY <1>9, LeafPairs DEF DecreaseCount
  <2>2. leaf' \in [Leaves -> LeafStates]
      BY <1>9 DEF DecreaseCount
  <2> QED BY <1>9, <2>1, <2>2 DEF DecreaseCount
<1>10. ASSUME NEW c \in Leaves, FinishParent(c) \/ ReturnUnreported(c) PROVE TypeOK'
    BY <1>10 DEF FinishParent, ReturnUnreported
<1>11. ASSUME NEW c \in Leaves, ReleaseLeaf(c) PROVE TypeOK'
    BY <1>11 DEF ReleaseLeaf
<1>12. CASE UNCHANGED vars
    BY <1>12 DEF vars
<1> QED
    BY <1>1, <1>2, <1>3, <1>4, <1>5, <1>6, <1>7, <1>8, <1>9, <1>10, <1>11, <1>12
    DEF Next, Step, ProgramStep, EngineStep, WorkerStep, Terminated

\* Every variable of the chain keeps its type.
THEOREM TypeCorrect == Spec => []TypeOK
BY TypeInit, TypeStep, PTL DEF Spec
-------------------------------------------------------------------------------
(* child_count is exact *)

\* A task has finitely many leaves, so those it counts can be counted.
LEMMA CountedFinite == \A p \in Tasks : IsFiniteSet(Counted(p))
<1> TAKE p \in Tasks
<1>1. Arity[p] \in Int /\ 1 \in Int
    BY Numbers
<1>2. IsFiniteSet(1..Arity[p])
    BY <1>1, FS_Interval
<1> QED BY <1>2, FS_Subset DEF Counted

\* The same after a step.
LEMMA StillFinite == \A p \in Tasks : IsFiniteSet(Counted(p)')
<1> TAKE p \in Tasks
<1>1. Arity[p] \in Int /\ 1 \in Int
    BY Numbers
<1>2. IsFiniteSet(1..Arity[p])
    BY <1>1, FS_Interval
<1> QED BY <1>2, FS_Subset DEF Counted

\* No leaf exists at first and every counter is zero.
LEMMA CountInit == Init => CountIsExact
<1> SUFFICES ASSUME Init PROVE CountIsExact
    OBVIOUS
<1>1. \A p \in Tasks : Counted(p) = {}
    BY LeafPairs DEF Init, Counted, Outstanding
<1>2. Cardinality({}) = 0
    BY FS_EmptySet
<1> QED BY <1>1, <1>2 DEF Init, CountIsExact, Root

\* A step that leaves the counters and the counted leaves alone.
LEMMA CountKept ==
    ASSUME CountIsExact, UNCHANGED <<submitted, child_count>>,
           \A p \in Tasks : Counted(p)' = Counted(p)
    PROVE  CountIsExact'
BY DEF CountIsExact

\* A step that moves one leaf between states that both count, or neither.
LEMMA LeafMoved ==
    ASSUME TypeOK, NEW c \in Leaves, NEW to, leaf' = [leaf EXCEPT ![c] = to],
           UNCHANGED shortcut, leaf[c] # "none", to # "none",
           ~Reports(c) \/ (to \in {"created", "submitted", "running"}
                               <=> leaf[c] \in {"created", "submitted", "running"})
    PROVE  \A p \in Tasks : Counted(p)' = Counted(p)
BY LeafPairs DEF TypeOK, Counted, Outstanding, Reports

\* Every step moves a counter exactly when it moves a leaf in or out of the count.
LEMMA CountStep == IndInv /\ [Next]_vars => CountIsExact'
<1> SUFFICES ASSUME IndInv, [Next]_vars PROVE CountIsExact'
    OBVIOUS
<1> TypeOK /\ CountIsExact
    BY DEF IndInv
<1> shortcut' = shortcut
    BY SameBuild
<1>1. CASE Submit
  <2> DEFINE n == submitted + 1
             S == Tasks \cup {Root}
  <2>1. n \in Tasks /\ Root \in S /\ n \in S /\ Root # n /\ child_count \in [S -> Int]
      BY <1>1, Numbers DEF Submit, Tasks, Root, TypeOK
  <2>2. /\ child_count'[Root] = child_count[Root] + 1
        /\ child_count'[n] = 0
        /\ \A p \in Tasks \ {n} : child_count'[p] = child_count[p]
      BY <1>1, <2>1, SubmitCounts, Numbers DEF Submit, Root, NoTask
  <2>3. \A p \in Tasks : Counted(p)' = Counted(p)
      BY <1>1 DEF Submit, Counted, Outstanding, Reports
  <2>4. ~started[n]
      BY <2>1, Numbers DEF IndInv, TasksInOrder, TypeOK
  <2>5. Counted(n) = {}
      BY <2>1, <2>4 DEF IndInv, SplitProgress, Counted, Outstanding
  <2>6. Cardinality({}) = 0
      BY FS_EmptySet
  <2>7. \A p \in Tasks : child_count'[p] = Cardinality(Counted(p)')
      BY <2>2, <2>3, <2>5, <2>6 DEF CountIsExact
  <2>8. child_count'[Root] = submitted'
      BY <1>1, <2>2 DEF Submit, CountIsExact
  <2> QED BY <2>7, <2>8 DEF CountIsExact
<1>2. CASE FinalizeEngine \/ Barrier \/ ReturnKernel \/ UNCHANGED vars
    BY <1>2, CountKept
    DEF FinalizeEngine, Barrier, ReturnKernel, vars, Counted, Outstanding, Reports
<1>3. ASSUME NEW p \in Tasks, RunKernel(p) PROVE CountIsExact'
    BY <1>3, CountKept DEF RunKernel, Counted, Outstanding, Reports
<1>4. CASE CreateLeaf
  <2>1. PICK s \in Tasks, i \in 1..Arity[splitting] :
            s = splitting /\ i = next /\ leaf[<<s, i>>] = "none"
      BY <1>4, LeafPairs DEF CreateLeaf
  <2>2. Counted(s)' = Counted(s) \cup {i} /\ i \notin Counted(s)
      BY <1>4, <2>1, LeafPairs DEF CreateLeaf, Counted, TypeOK, Outstanding, Reports
  <2>3. \A p \in Tasks \ {s} : Counted(p)' = Counted(p)
      BY <1>4, <2>1, LeafPairs DEF CreateLeaf, Counted, TypeOK, Outstanding, Reports
  <2>4. Cardinality(Counted(s) \cup {i}) = Cardinality(Counted(s)) + 1
      BY <2>1, <2>2, CountedFinite, FS_AddElement
  <2>5. /\ child_count'[s] = child_count[s] + 1
        /\ \A p \in (Tasks \cup {Root}) \ {s} : child_count'[p] = child_count[p]
      BY <1>4, <2>1 DEF CreateLeaf, TypeOK
  <2>6. child_count'[s] = Cardinality(Counted(s)')
      BY <2>1, <2>2, <2>4, <2>5 DEF CountIsExact
  <2>7. \A p \in Tasks : p # s => child_count'[p] = Cardinality(Counted(p)')
      BY <2>3, <2>5 DEF CountIsExact
  <2>8. child_count'[Root] = submitted'
      BY <1>4, <2>1, <2>5, Numbers DEF CreateLeaf, CountIsExact, Root, NoTask
  <2> QED BY <2>6, <2>7, <2>8 DEF CountIsExact
<1>5. CASE SubmitLeaf
    BY <1>5, LeafMoved, CountKept DEF SubmitLeaf
<1>6. ASSUME NEW c \in Leaves,
             RunLeaf(c) \/ ReturnUnreported(c) \/ FinishParent(c) \/ ReleaseLeaf(c)
      PROVE  CountIsExact'
    BY <1>6, LeafMoved, CountKept
    DEF RunLeaf, ReturnUnreported, FinishParent, ReleaseLeaf
<1>7. ASSUME NEW c \in Leaves, DecreaseCount(c) PROVE CountIsExact'
  <2> DEFINE s == c[1]
             i == c[2]
  <2>1. /\ s \in Tasks /\ i \in 1..Arity[s] /\ c = <<s, i>>
        /\ leaf[c] = "running" /\ Reports(c)
      BY <1>7, LeafPairs DEF DecreaseCount
  <2>2. leaf'[c] \in {"finishing", "returning"}
        /\ \A d \in Leaves \ {c} : leaf'[d] = leaf[d]
      BY <1>7 DEF DecreaseCount, TypeOK
  <2>3. Counted(s)' = Counted(s) \ {i} /\ i \in Counted(s)
      BY <2>1, <2>2, LeafPairs DEF Counted, Outstanding, Reports
  <2>4. \A p \in Tasks \ {s} : Counted(p)' = Counted(p)
      BY <2>1, <2>2, LeafPairs DEF Counted, Outstanding, Reports
  <2>5. Cardinality(Counted(s) \ {i}) = Cardinality(Counted(s)) - 1
    <3> DEFINE C == Counted(s)
    <3>1. IsFiniteSet(C) /\ i \in C
        BY <2>1, <2>3, CountedFinite
    <3> HIDE DEF C
    <3>2. Cardinality(C \ {i}) = Cardinality(C) - 1
        BY <3>1, FS_RemoveElement
    <3> QED BY <3>2 DEF C
  <2>6. /\ child_count'[s] = child_count[s] - 1
        /\ \A p \in (Tasks \cup {Root}) \ {s} : child_count'[p] = child_count[p]
      BY <1>7, <2>1 DEF DecreaseCount, TypeOK
  <2>7. child_count'[s] = Cardinality(Counted(s)')
      BY <2>1, <2>3, <2>5, <2>6 DEF CountIsExact
  <2>8. \A p \in Tasks : p # s => child_count'[p] = Cardinality(Counted(p)')
      BY <2>4, <2>6 DEF CountIsExact
  <2>9. child_count'[Root] = submitted'
      BY <1>7, <2>1, <2>6, Numbers DEF DecreaseCount, CountIsExact, Root, NoTask
  <2> QED BY <2>7, <2>8, <2>9 DEF CountIsExact
<1> QED
    BY <1>1, <1>2, <1>3, <1>4, <1>5, <1>6, <1>7
    DEF Next, Step, ProgramStep, EngineStep, WorkerStep, Terminated

-------------------------------------------------------------------------------
(* The progress of the splits, the order of the tasks *)

\* Nothing is submitted or started at first.
LEMMA ProgressInit == Init => SplitProgress /\ TasksInOrder
BY LeafPairs, Numbers DEF Init, SplitProgress, TasksInOrder, NoTask, SplitOver

\* A step that only moves a submitted leaf on, as the workers' steps do.
LEMMA ProgressKept ==
    ASSUME TypeOK, SplitProgress, UNCHANGED <<started, splitting, next>>,
           NEW c \in Leaves, NEW to,
           leaf[c] \notin {"none", "created"}, to \notin {"none", "created"},
           leaf' = [leaf EXCEPT ![c] = to]
    PROVE  SplitProgress'
BY LeafPairs DEF SplitProgress, SplitOver, TypeOK

\* Every step keeps the leaves in step with the loops of the splits.
LEMMA ProgressStep == IndInv /\ [Next]_vars => SplitProgress'
<1> SUFFICES ASSUME IndInv, [Next]_vars PROVE SplitProgress'
    OBVIOUS
<1> TypeOK /\ SplitProgress
    BY DEF IndInv
<1>1. CASE Submit \/ FinalizeEngine \/ Barrier \/ UNCHANGED vars
    BY <1>1 DEF Submit, FinalizeEngine, Barrier, vars, SplitProgress, SplitOver
<1>2. ASSUME NEW p \in Tasks, RunKernel(p) PROVE SplitProgress'
    BY <1>2, Numbers DEF RunKernel, SplitProgress, SplitOver, TypeOK
<1>3. CASE CreateLeaf
  <2>1. PICK s \in Tasks, n \in 1..Arity[splitting] : s = splitting /\ n = next
      BY <1>3, LeafPairs DEF CreateLeaf
  <2>2. \A p \in Tasks : \A i \in 1..Arity[p] :
            leaf'[<<p, i>>] = IF p = s /\ i = n THEN "created" ELSE leaf[<<p, i>>]
      BY <1>3, <2>1, LeafPairs DEF CreateLeaf, TypeOK
  <2> QED BY <1>3, <2>1, <2>2 DEF CreateLeaf, SplitProgress, SplitOver
<1>4. CASE SubmitLeaf
  <2>1. PICK s \in Tasks, n \in 1..Arity[splitting] : s = splitting /\ n = next
      BY <1>4, LeafPairs DEF SubmitLeaf
  <2>2. \A p \in Tasks : \A i \in 1..Arity[p] :
            leaf'[<<p, i>>] = IF p = s /\ i = n THEN "submitted" ELSE leaf[<<p, i>>]
      BY <1>4, <2>1, LeafPairs DEF SubmitLeaf, TypeOK
  <2> QED BY <1>4, <2>1, <2>2, Numbers DEF SubmitLeaf, SplitProgress, SplitOver
<1>5. CASE ReturnKernel
  <2>1. \A i \in 1..Arity[splitting] : i < next
      BY <1>5, LeafPairs, Numbers DEF ReturnKernel, SplitProgress, TypeOK
  <2> QED BY <1>5, <2>1, Numbers DEF ReturnKernel, SplitProgress, SplitOver, TypeOK
<1>6. ASSUME NEW c \in Leaves, WorkerStep(c) PROVE SplitProgress'
    BY <1>6, ProgressKept
    DEF WorkerStep, RunLeaf, DecreaseCount, ReturnUnreported, FinishParent, ReleaseLeaf
<1> QED
    BY <1>1, <1>2, <1>3, <1>4, <1>5, <1>6
    DEF Next, Step, ProgramStep, EngineStep, Terminated

\* A leaf past "none" belongs to a task the engine has run.
LEMMA LeafOfStarted ==
    ASSUME SplitProgress, TypeOK, NEW c \in Leaves, leaf[c] # "none"
    PROVE  started[c[1]]
BY LeafPairs DEF SplitProgress

\* Every step keeps the tasks in the order of their data.
LEMMA OrderStep == IndInv /\ [Next]_vars => TasksInOrder'
<1> SUFFICES ASSUME IndInv, [Next]_vars PROVE TasksInOrder'
    OBVIOUS
<1> TypeOK /\ SplitProgress /\ TasksInOrder
    BY DEF IndInv
<1>1. CASE Submit
    BY <1>1 DEF Submit, TasksInOrder, DataReady, TypeOK, Tasks
<1>2. ASSUME NEW p \in Tasks, RunKernel(p) PROVE TasksInOrder'
    BY <1>2 DEF RunKernel, TasksInOrder, DataReady, TypeOK
<1>3. ASSUME NEW c \in Leaves, FinishParent(c) PROVE TasksInOrder'
  <2>1. started[c[1]] /\ c[1] \in Tasks
      BY <1>3, LeafOfStarted, LeafPairs DEF FinishParent
  <2> QED BY <1>3, <2>1 DEF FinishParent, TasksInOrder, DataReady, TypeOK
<1>4. CASE UNCHANGED <<submitted, started, isFinished>>
    BY <1>4 DEF TasksInOrder, DataReady
<1> QED
    BY <1>1, <1>2, <1>3, <1>4
    DEF Next, Step, ProgramStep, EngineStep, WorkerStep, Terminated, vars, FinalizeEngine,
        Barrier, CreateLeaf, SubmitLeaf, ReturnKernel, RunLeaf, DecreaseCount,
        ReturnUnreported, ReleaseLeaf

-------------------------------------------------------------------------------
(* A zero of the counter is seen *)

\* No leaf exists at first.
LEMMA ZeroInit == Init => ZeroIsSeen
BY LeafPairs DEF Init, ZeroIsSeen

\* A step that leaves the counted leaves of p and those about to finish p alone.
LEMMA ZeroKept ==
    ASSUME ZeroIsSeen, NEW p \in Tasks, isFinished'[p] = isFinished[p],
           Counted(p)' = Counted(p),
           \A i \in 1..Arity[p] :
              /\ leaf'[<<p, i>>] = "none" <=> leaf[<<p, i>>] = "none"
              /\ leaf[<<p, i>>] = "finishing" => leaf'[<<p, i>>] = "finishing",
           (\E i \in 1..Arity[p] : leaf[<<p, i>>] # "none")',
           (Counted(p) = {})'
    PROVE  (isFinished[p] \/ \E i \in 1..Arity[p] : leaf[<<p, i>>] = "finishing")'
BY DEF ZeroIsSeen

\* The worker that takes the last counted leaf out of the count sees zero.
LEMMA ZeroStep == IndInv /\ [Next]_vars => ZeroIsSeen'
<1> SUFFICES ASSUME IndInv, [Next]_vars, NEW p \in Tasks,
                    (\E i \in 1..Arity[p] : leaf[<<p, i>>] # "none")',
                    (Counted(p) = {})'
             PROVE  (isFinished[p] \/ \E i \in 1..Arity[p] : leaf[<<p, i>>] = "finishing")'
    BY DEF ZeroIsSeen
<1> TypeOK /\ ZeroIsSeen /\ CountIsExact
    BY DEF IndInv
<1> shortcut' = shortcut
    BY SameBuild
<1>1. CASE UNCHANGED <<leaf, isFinished>>
    BY <1>1 DEF ZeroIsSeen, Counted, Outstanding, Reports
<1>2. CASE CreateLeaf
    BY <1>2, LeafPairs DEF CreateLeaf, ZeroIsSeen, Counted, Outstanding, Reports, TypeOK
<1>3. CASE SubmitLeaf
    BY <1>3, LeafPairs DEF SubmitLeaf, ZeroIsSeen, Counted, Outstanding, Reports, TypeOK
<1>4. ASSUME NEW c \in Leaves, RunLeaf(c) \/ ReturnUnreported(c)
      PROVE  (isFinished[p] \/ \E i \in 1..Arity[p] : leaf[<<p, i>>] = "finishing")'
  <2>1. Counted(p)' = Counted(p)
      BY <1>4, LeafMoved DEF RunLeaf, ReturnUnreported
  <2>2. \A i \in 1..Arity[p] :
            /\ leaf'[<<p, i>>] = "none" <=> leaf[<<p, i>>] = "none"
            /\ leaf[<<p, i>>] = "finishing" => leaf'[<<p, i>>] = "finishing"
      BY <1>4, LeafPairs DEF RunLeaf, ReturnUnreported, TypeOK
  <2> QED BY <1>4, <2>1, <2>2, ZeroKept DEF RunLeaf, ReturnUnreported
<1>5. ASSUME NEW c \in Leaves, DecreaseCount(c)
      PROVE  (isFinished[p] \/ \E i \in 1..Arity[p] : leaf[<<p, i>>] = "finishing")'
  <2>1. c[1] \in Tasks /\ c[2] \in 1..Arity[c[1]] /\ c = <<c[1], c[2]>>
      BY LeafPairs
  <2>2. CASE c[1] = p
    <3>1. child_count'[p] = 0
      <4>1. CountIsExact'
          BY CountStep
      <4>2. Cardinality({}) = 0
          BY FS_EmptySet
      <4> QED BY <4>1, <4>2 DEF CountIsExact
    <3>2. child_count[p] - 1 = 0
        BY <1>5, <2>2, <3>1 DEF DecreaseCount, TypeOK
    <3>3. leaf'[c] = "finishing"
        BY <1>5, <2>2, <3>2 DEF DecreaseCount, TypeOK
    <3> QED BY <2>1, <2>2, <3>3
  <2>3. CASE c[1] # p
    <3>1. \A i \in 1..Arity[p] : leaf'[<<p, i>>] = leaf[<<p, i>>]
        BY <1>5, <2>1, <2>3, LeafPairs DEF DecreaseCount, TypeOK
    <3>2. Counted(p)' = Counted(p) /\ isFinished'[p] = isFinished[p]
        BY <1>5, <2>1, <2>3, <3>1 DEF DecreaseCount, Counted, Outstanding, Reports, TypeOK
    <3> QED BY <3>1, <3>2, ZeroKept
  <2> QED BY <2>2, <2>3
<1>6. ASSUME NEW c \in Leaves, FinishParent(c)
      PROVE  (isFinished[p] \/ \E i \in 1..Arity[p] : leaf[<<p, i>>] = "finishing")'
  <2>1. c[1] \in Tasks /\ c[2] \in 1..Arity[c[1]] /\ c = <<c[1], c[2]>>
      BY LeafPairs
  <2>2. CASE c[1] = p
      BY <1>6, <2>2 DEF FinishParent, TypeOK
  <2>3. CASE c[1] # p
    <3>1. \A i \in 1..Arity[p] : leaf'[<<p, i>>] = leaf[<<p, i>>]
        BY <1>6, <2>1, <2>3, LeafPairs DEF FinishParent, TypeOK
    <3>2. Counted(p)' = Counted(p) /\ isFinished'[p] = isFinished[p]
        BY <1>6, <2>1, <2>3, <3>1 DEF FinishParent, Counted, Outstanding, Reports, TypeOK
    <3> QED BY <3>1, <3>2, ZeroKept
  <2> QED BY <2>2, <2>3
<1>7. ASSUME NEW c \in Leaves, ReleaseLeaf(c)
      PROVE  (isFinished[p] \/ \E i \in 1..Arity[p] : leaf[<<p, i>>] = "finishing")'
    BY <1>7, LeafPairs DEF ReleaseLeaf, ZeroIsSeen, Counted, Outstanding, Reports, TypeOK
<1> QED
    BY <1>1, <1>2, <1>3, <1>4, <1>5, <1>6, <1>7
    DEF Next, Step, ProgramStep, EngineStep, WorkerStep, Terminated, vars, Submit,
        FinalizeEngine, Barrier, RunKernel, ReturnKernel

-------------------------------------------------------------------------------
(* The order of the leaves *)

\* No leaf waits or runs at first.
LEMMA WaitInit == Init => LeavesWait
BY DEF Init, LeavesWait, Pending

\* When a leaf is submitted, the earlier leaves it conflicts with have been
\* submitted: those of its own split by the loops, those of another task
\* because that task is flagged finished, so its split has begun, and the
\* engine, which is in this split, is not in that one.
LEMMA EarlierSubmitted ==
    ASSUME IndInv, NEW d \in Leaves, NEW c \in Leaves,
           splitting = d[1], next = d[2], Before(c, d), LeafConflict(c, d)
    PROVE  leaf[c] \notin {"none", "created"}
<1>1. /\ c[1] \in Tasks /\ c[2] \in 1..Arity[c[1]] /\ c = <<c[1], c[2]>>
      /\ d[1] \in Tasks /\ d[2] \in 1..Arity[d[1]] /\ splitting # NoTask
    BY LeafPairs, Numbers
<1>2. CASE c[1] = d[1]
    BY <1>1, <1>2, Numbers DEF IndInv, SplitProgress, Before
<1>3. CASE c[1] # d[1]
  <2>1. c[1] < d[1] /\ TaskConflict(c[1], d[1])
      BY <1>1, <1>3, SplitAssumption, Numbers DEF Before
  <2>2. started[d[1]]
      BY <1>1 DEF IndInv, SplitProgress
  <2>3. started[c[1]]
      BY <1>1, <2>1, <2>2 DEF IndInv, TasksInOrder, DataReady
  <2>4. SplitOver(c[1])
      BY <1>3, <2>3 DEF SplitOver
  <2> QED BY <1>1, <2>4 DEF IndInv, SplitProgress
<1> QED BY <1>2, <1>3

\* A step that moves one leaf on, without changing what leaves wait for.
LEMMA WaitKept ==
    ASSUME TypeOK, LeavesWait, UNCHANGED waits, NEW c \in Leaves, NEW to,
           leaf' = [leaf EXCEPT ![c] = to],
           leaf[c] # "done",
           to \notin {"none", "created"} => leaf[c] \notin {"none", "created"},
           to \in {"running", "finishing", "returning", "done"}
               => \A d \in waits[c] : leaf[d] = "done"
    PROVE  LeavesWait'
<1>1. \A d \in Leaves : leaf'[d] = IF d = c THEN to ELSE leaf[d]
    BY DEF TypeOK
<1>2. \A d \in Leaves : leaf[d] = "done" => leaf'[d] = "done"
    BY <1>1
<1>3. \A d \in Leaves : waits[d] \in SUBSET Leaves
    BY DEF TypeOK
<1>4. ASSUME NEW d \in Leaves,
             leaf'[d] \in {"running", "finishing", "returning", "done"}
      PROVE  \A e \in waits[d] : leaf'[e] = "done"
    BY <1>1, <1>2, <1>3, <1>4 DEF LeavesWait
<1>5. ASSUME NEW e \in Leaves, NEW d \in Leaves, Before(e, d), LeafConflict(e, d),
             leaf'[d] \notin {"none", "created"}
      PROVE  e \in waits[d] \/ leaf'[e] = "done"
    BY <1>1, <1>2, <1>5 DEF LeavesWait, Pending
<1> QED BY <1>4, <1>5 DEF LeavesWait, Pending, Before, LeafConflict

\* Every step keeps the leaves waiting for those they conflict with.
LEMMA WaitStep == IndInv /\ [Next]_vars => LeavesWait'
<1> SUFFICES ASSUME IndInv, [Next]_vars PROVE LeavesWait'
    OBVIOUS
<1> TypeOK /\ LeavesWait
    BY DEF IndInv
<1>1. CASE UNCHANGED <<leaf, waits>>
    BY <1>1 DEF LeavesWait, Pending, Before, LeafConflict
<1>2. CASE CreateLeaf
    BY <1>2, WaitKept DEF CreateLeaf
<1>3. CASE SubmitLeaf
  <2>1. PICK d \in Leaves : d = <<splitting, next>> /\ leaf[d] = "created"
      BY <1>3 DEF SubmitLeaf
  <2>2. \A c \in Leaves : leaf'[c] = IF c = d THEN "submitted" ELSE leaf[c]
      BY <1>3, <2>1 DEF SubmitLeaf, TypeOK
  <2>3. \A c \in Leaves : waits'[c] = IF c = d THEN Blockers(d) ELSE waits[c]
      BY <1>3, <2>1 DEF SubmitLeaf, TypeOK
  <2>4. \A c \in Leaves : waits[c] \in SUBSET Leaves
      BY DEF TypeOK
  <2>5. ASSUME NEW c \in Leaves,
               leaf'[c] \in {"running", "finishing", "returning", "done"}
        PROVE  \A e \in waits'[c] : leaf'[e] = "done"
      BY <2>1, <2>2, <2>3, <2>4, <2>5 DEF LeavesWait
  <2>6. ASSUME NEW c \in Leaves, NEW e \in Leaves, Before(c, e), LeafConflict(c, e),
               leaf'[e] \notin {"none", "created"}
        PROVE  c \in waits'[e] \/ leaf'[c] = "done"
    <3>1. CASE e = d
      <4>1. leaf[c] \notin {"none", "created"}
          BY <2>1, <2>6, <3>1, EarlierSubmitted
      <4> QED BY <2>1, <2>2, <2>3, <2>6, <3>1, <4>1 DEF Blockers
    <3>2. CASE e # d
        BY <2>1, <2>2, <2>3, <2>6, <3>2 DEF LeavesWait, Pending
    <3> QED BY <3>1, <3>2
  <2> QED BY <2>5, <2>6 DEF LeavesWait, Pending, Before, LeafConflict
<1>4. ASSUME NEW c \in Leaves, RunLeaf(c) PROVE LeavesWait'
    BY <1>4, WaitKept DEF RunLeaf
<1>5. ASSUME NEW c \in Leaves,
             \/ DecreaseCount(c) \/ ReturnUnreported(c)
             \/ FinishParent(c) \/ ReleaseLeaf(c)
      PROVE  LeavesWait'
  <2>1. \A d \in waits[c] : leaf[d] = "done"
      BY <1>5 DEF LeavesWait, DecreaseCount, ReturnUnreported, FinishParent, ReleaseLeaf
  <2> QED
      BY <1>5, <2>1, WaitKept
      DEF DecreaseCount, ReturnUnreported, FinishParent, ReleaseLeaf
<1> QED
    BY <1>1, <1>2, <1>3, <1>4, <1>5
    DEF Next, Step, ProgramStep, EngineStep, WorkerStep, Terminated, vars, Submit,
        FinalizeEngine, Barrier, RunKernel, ReturnKernel

-------------------------------------------------------------------------------
(* What utp_finalize waits for *)

\* The program is in its split at first.
LEMMA FinalizeInit == Init => FinalizeWaits
BY DEF Init, FinalizeWaits, FinalizeComplete

\* Every step keeps what utp_finalize has waited for done.
LEMMA FinalizeStep == IndInv /\ [Next]_vars => FinalizeWaits'
<1> SUFFICES ASSUME IndInv, [Next]_vars PROVE FinalizeWaits'
    OBVIOUS
<1> TypeOK /\ FinalizeWaits
    BY DEF IndInv
<1> USE DEF FinalizeWaits, FinalizeComplete
<1>1. CASE Submit
    BY <1>1 DEF Submit
<1>2. CASE FinalizeEngine
    BY <1>2 DEF FinalizeEngine
<1>3. CASE Barrier
  <2>1. ASSUME NEW c \in Leaves PROVE leaf[c] # "none"
    <3>1. c[1] \in Tasks /\ c[2] \in 1..Arity[c[1]] /\ c = <<c[1], c[2]>>
        BY LeafPairs
    <3>2. started[c[1]] /\ splitting # c[1]
        BY <1>3, <3>1, Numbers DEF Barrier, IndInv, TasksInOrder
    <3> QED BY <3>1, <3>2 DEF IndInv, SplitProgress, SplitOver
  <2> QED BY <1>3, <2>1 DEF Barrier
<1>4. ASSUME NEW p \in Tasks, RunKernel(p) PROVE FinalizeWaits'
    BY <1>4 DEF RunKernel
<1>5. CASE CreateLeaf \/ SubmitLeaf \/ ReturnKernel
    BY <1>5 DEF CreateLeaf, SubmitLeaf, ReturnKernel
<1>6. ASSUME NEW c \in Leaves, WorkerStep(c) PROVE FinalizeWaits'
    BY <1>6 DEF WorkerStep, RunLeaf, DecreaseCount, ReturnUnreported, FinishParent, ReleaseLeaf, TypeOK
<1>7. CASE UNCHANGED vars
    BY <1>7 DEF vars
<1> QED
    BY <1>1, <1>2, <1>3, <1>4, <1>5, <1>6, <1>7
    DEF Next, Step, ProgramStep, EngineStep, Terminated

-------------------------------------------------------------------------------
(* The theorems *)

\* The inductive invariant holds of every behaviour of the chain.
THEOREM Inductive == Spec => []IndInv
<1>1. Init => IndInv
    BY TypeInit, CountInit, ProgressInit, ZeroInit, WaitInit, FinalizeInit DEF IndInv
<1>2. IndInv /\ [Next]_vars => IndInv'
    BY TypeStep, CountStep, ProgressStep, OrderStep, ZeroStep, WaitStep, FinalizeStep
    DEF IndInv
<1> QED BY <1>1, <1>2, PTL DEF Spec

\* set_parent's increases and the workers' decreases of child_count lose no
\* update, whatever the interleaving and the number of leaves.
THEOREM CountCorrect == Spec => []CountIsExact
<1>1. IndInv => CountIsExact
    BY DEF IndInv
<1> QED BY <1>1, Inductive, PTL

\* Where the kernels report their ends, as they all do with SHORTCUT=0,
\* Dispatcher::finished never loses the completion of a task: some worker sees
\* the zero its last leaf leaves behind.
THEOREM CompletionCorrect == Spec => []NoLostCompletion
<1>1. IndInv => NoLostCompletion
  <2> SUFFICES ASSUME IndInv, NEW p \in Tasks, SplitOver(p),
                      \A i \in 1..Arity[p] : Reports(<<p, i>>) /\ ~Outstanding(<<p, i>>)
               PROVE  isFinished[p]
                      \/ \E i \in 1..Arity[p] : leaf[<<p, i>>] = "finishing"
      BY DEF NoLostCompletion
  <2>1. 1 \in 1..Arity[p]
      BY Numbers
  <2>2. leaf[<<p, 1>>] # "none"
      BY <2>1 DEF IndInv, SplitProgress
  <2>3. Counted(p) = {}
      BY DEF Counted
  <2> QED BY <2>1, <2>2, <2>3 DEF IndInv, ZeroIsSeen
<1> QED BY <1>1, Inductive, PTL

\* With SHORTCUT=1 a task with products is lost for good unless it has been
\* flagged before the first of them was made: utp_finalize does not return.
THEOREM LossCorrect == Spec => LostForGood
<1>1. ASSUME IndInv, [Next]_vars, NEW p \in Tasks, Lost(p)
      PROVE  Lost(p)' /\ prog' = "split"
  <2> TypeOK /\ CountIsExact /\ CountIsExact' /\ shortcut' = shortcut
      BY <1>1, SameBuild, CountStep DEF IndInv
  <2>1. PICK i \in 1..Arity[p] : ~Reports(<<p, i>>) /\ leaf[<<p, i>>] # "none"
      BY <1>1 DEF Lost
  <2>2. prog = "split"
      BY <1>1 DEF Lost, IndInv, FinalizeWaits, TypeOK
  <2>3. ~Reports(<<p, i>>)' /\ leaf'[<<p, i>>] # "none"
      BY <1>1, <2>1, LeafPairs
      DEF Reports, Next, Step, ProgramStep, EngineStep, WorkerStep, Terminated, vars,
          Submit, FinalizeEngine, Barrier, RunKernel, CreateLeaf, SubmitLeaf,
          ReturnKernel, RunLeaf, DecreaseCount, ReturnUnreported, FinishParent,
          ReleaseLeaf, TypeOK
  <2>4. child_count'[p] # 0
    <3>1. i \in Counted(p)' /\ IsFiniteSet(Counted(p)')
        BY <2>1, <2>3, StillFinite DEF Counted
    <3>2. Cardinality(Counted(p)') # 0
        BY <3>1, FS_EmptySet
    <3> QED BY <3>2 DEF CountIsExact
  <2>5. \A j \in 1..Arity[p] : leaf'[<<p, j>>] # "finishing"
    <3>1. CASE \E c \in Leaves : DecreaseCount(c)
        BY <1>1, <2>4, <3>1, LeafPairs DEF DecreaseCount, Lost, TypeOK
    <3>2. CASE ~\E c \in Leaves : DecreaseCount(c)
        BY <1>1, <3>2, LeafPairs
        DEF Lost, Next, Step, ProgramStep, EngineStep, WorkerStep, Terminated, vars,
            Submit, FinalizeEngine, Barrier, RunKernel, CreateLeaf, SubmitLeaf,
            ReturnKernel, RunLeaf, ReturnUnreported, FinishParent, ReleaseLeaf, TypeOK
    <3> QED BY <3>1, <3>2
  <2>6. ~isFinished'[p]
    <3>1. ASSUME NEW c \in Leaves, FinishParent(c)
          PROVE  ~isFinished'[p]
      <4>1. c[1] # p
          BY <1>1, <3>1, LeafPairs DEF FinishParent, Lost
      <4> QED BY <1>1, <3>1, <4>1, LeafPairs DEF FinishParent, Lost, TypeOK
    <3>2. CASE UNCHANGED isFinished
        BY <1>1, <3>2 DEF Lost
    <3> QED
        BY <1>1, <3>1, <3>2
        DEF Next, Step, ProgramStep, EngineStep, WorkerStep, Terminated, vars,
            Submit, FinalizeEngine, Barrier, RunKernel, CreateLeaf, SubmitLeaf,
            ReturnKernel, RunLeaf, DecreaseCount, ReturnUnreported, ReleaseLeaf
  <2>7. prog' = "split"
      BY <1>1, <2>2
      DEF Lost, Next, Step, ProgramStep, EngineStep, WorkerStep, Terminated, vars,
          Submit, FinalizeEngine, Barrier, RunKernel, CreateLeaf, SubmitLeaf,
          ReturnKernel, RunLeaf, DecreaseCount, ReturnUnreported, FinishParent,
          ReleaseLeaf
  <2> QED BY <2>1, <2>3, <2>5, <2>6, <2>7 DEF Lost
<1>2. IndInv /\ [Next]_vars
      => [\A p \in Tasks : Lost(p) => Lost(p)' /\ prog' = "split"]_vars
    BY <1>1
<1> QED BY <1>2, Inductive, PTL DEF Spec, LostForGood

\* Leaves in conflict run in the order of the program, although DuctTeip may
\* flag a task finished while leaves of it have not run.
THEOREM LeafOrderCorrect == Spec => []LeafOrder
<1>1. IndInv => LeafOrder
  <2> SUFFICES ASSUME IndInv, NEW c \in Leaves, NEW d \in Leaves,
                      c \in Pending(d),
                      leaf[d] \in {"running", "finishing", "returning", "done"}
               PROVE  FALSE
      BY DEF LeafOrder, Pending
  <2>1. c \in waits[d]
      BY DEF IndInv, LeavesWait
  <2> QED BY <2>1 DEF IndInv, LeavesWait, Pending
<1> QED BY <1>1, Inductive, PTL

\* utp_finalize returns only when every leaf of every task has run.
THEOREM FinalizeCorrect == Spec => []FinalizeComplete
<1>1. IndInv => FinalizeComplete
    BY DEF IndInv, FinalizeWaits
<1> QED BY <1>1, Inductive, PTL

-------------------------------------------------------------------------------
(* The refinement *)

\* The tasks of the chain, seen by the program, are those of the abstract
\* scheduler TaskOrder: each step of the chain is one of its steps or none.
THEOREM Refinement == Spec => ImplementsTaskOrder
<1> DEFINE Status == [p \in Tasks |-> StatusOf(p)]
           Edges == {e \in Tasks \X Tasks : e[1] < e[2] /\ TaskConflict(e[1], e[2])}
<1>1. Init => Abstract!Init
    BY DEF Init, Abstract!Init, Abstract!Tasks, StatusOf, Tasks
<1>2. IndInv /\ [Next]_vars => [Abstract!Next]_(Abstract!vars)
  <2> SUFFICES ASSUME IndInv, [Next]_vars
               PROVE  Abstract!Next \/ UNCHANGED Abstract!vars
      OBVIOUS
  <2> TypeOK /\ TasksInOrder
      BY DEF IndInv
  <2>1. CASE Submit
    <3>1. Abstract!Submit
        BY <2>1 DEF Submit, Abstract!Submit, StatusOf
    <3> QED BY <3>1 DEF Abstract!Next
  <2>2. ASSUME NEW p \in Tasks, RunKernel(p)
        PROVE  Abstract!Next \/ UNCHANGED Abstract!vars
    <3>1. Status[p] = "waiting" /\ p <= submitted /\ submitted' = submitted
        BY <2>2 DEF RunKernel, StatusOf
    <3>2. \A q \in Tasks : <<q, p>> \in Edges => Status[q] = "finished"
        BY <2>2 DEF RunKernel, DataReady, StatusOf
    <3>3. Status' = [Status EXCEPT ![p] = "running"]
        BY <2>2 DEF RunKernel, StatusOf, TypeOK
    <3>4. Abstract!Start(p)
        BY <3>1, <3>2, <3>3 DEF Abstract!Start, Abstract!Tasks, Tasks
    <3> QED BY <3>4 DEF Abstract!Next, Abstract!Tasks, Tasks
  <2>3. ASSUME NEW c \in Leaves, FinishParent(c)
        PROVE  Abstract!Next \/ UNCHANGED Abstract!vars
    <3> DEFINE p == c[1]
    <3>1. p \in Tasks /\ started[p] /\ submitted' = submitted
        BY <2>3, LeafPairs, LeafOfStarted DEF FinishParent, IndInv
    <3>2. CASE isFinished[p]
      <4>1. isFinished' = isFinished
          BY <2>3, <3>1, <3>2 DEF FinishParent, TypeOK
      <4> QED BY <2>3, <4>1 DEF FinishParent, Abstract!vars, StatusOf
    <3>3. CASE ~isFinished[p]
      <4>1. Status[p] = "running"
          BY <3>1, <3>3 DEF StatusOf
      <4>2. Status' = [Status EXCEPT ![p] = "finished"]
          BY <2>3, <3>1 DEF FinishParent, StatusOf, TypeOK
      <4>3. Abstract!Finish(p)
          BY <3>1, <4>1, <4>2 DEF Abstract!Finish
      <4> QED BY <3>1, <4>3 DEF Abstract!Next, Abstract!Tasks, Tasks
    <3> QED BY <3>2, <3>3
  <2>4. CASE UNCHANGED <<submitted, started, isFinished>>
      BY <2>4 DEF Abstract!vars, StatusOf
  <2> QED
      BY <2>1, <2>2, <2>3, <2>4
      DEF Next, Step, ProgramStep, EngineStep, WorkerStep, Terminated, vars, FinalizeEngine,
          Barrier, CreateLeaf, SubmitLeaf, ReturnKernel, RunLeaf, DecreaseCount,
          ReturnUnreported, ReleaseLeaf
<1> QED BY <1>1, <1>2, Inductive, PTL DEF Spec, ImplementsTaskOrder, Abstract!Spec
===============================================================================
