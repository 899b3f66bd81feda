------------------------- MODULE TiledOperationProof -------------------------
(***************************************************************************)
(* Whatever the program, no kernel writes what another one that runs at    *)
(* the same time works on: the scheduler's order on the tasks in conflict  *)
(* is enough for the kernels to share the blocks without a lock.           *)
(***************************************************************************)
EXTENDS TiledOperation, WellFoundedInduction, TLAPS

\* A task that has started finds the earlier tasks it conflicts with finished.
Ordered ==
    \A p, q \in Tasks :
        <<q, p>> \in Conflict /\ status[p] # "waiting" => status[q] = "finished"

StableInv ==
    /\ DOMAIN status = Tasks
    /\ DOMAIN operands = Tasks
    /\ DOMAIN value = Blocks
    /\ Ordered
    /\ OperandsAreStable

\* The arguments of a task are blocks, the last one included.
LEMMA ArgsAreBlocks ==
    \A p \in Tasks :
        /\ \A i \in DOMAIN Args(p) : Args(p)[i] \in Blocks
        /\ Len(Args(p)) \in DOMAIN Args(p)
        /\ Target(p) \in Blocks
<1> SUFFICES ASSUME NEW p \in Tasks
             PROVE  /\ \A i \in DOMAIN Args(p) : Args(p)[i] \in Blocks
                    /\ Len(Args(p)) \in DOMAIN Args(p)
                    /\ Target(p) \in Blocks
    OBVIOUS
<1>1. \A i \in DOMAIN Args(p) : Args(p)[i] \in Blocks
    BY DEF Blocks
<1>2. Len(Args(p)) \in DOMAIN Args(p)
    BY ProgramAssumption DEF Tasks, NTasks, Args
<1> QED BY <1>1, <1>2 DEF Target

\* Two tasks that run at the same time do not conflict, so the one that
\* finishes writes no argument of the other.
LEMMA NoWriteUnderReader ==
    ASSUME Ordered, NEW p \in Tasks, NEW q \in Tasks, p # q,
           status[p] = "running", status[q] = "running"
    PROVE  \A i \in DOMAIN Args(p) : Args(p)[i] # Target(q)
<1> SUFFICES ASSUME NEW i \in DOMAIN Args(p), Args(p)[i] = Target(q) PROVE FALSE
    OBVIOUS
<1>1. p < q \/ q < p
    BY ProgramAssumption DEF Tasks, NTasks
<1>2. CASE p < q
  <2>1. <<p, q>> \in Conflict
      BY <1>2 DEF Conflict
  <2> QED BY <2>1 DEF Ordered
<1>3. CASE q < p
  <2>1. <<q, p>> \in Conflict
      BY <1>3 DEF Conflict
  <2> QED BY <2>1 DEF Ordered
<1> QED BY <1>1, <1>2, <1>3

\* Nothing has started at first.
LEMMA StableInit == Init => StableInv
BY DEF Init, Scheduler!Init, Scheduler!Tasks, Tasks, StableInv, Ordered, OperandsAreStable

\* Every step keeps what the running kernels work on.
LEMMA StableStep == StableInv /\ [Next]_vars => StableInv'
<1> SUFFICES ASSUME StableInv, [Next]_vars PROVE StableInv'
    OBVIOUS
<1> USE DEF StableInv
<1>1. CASE Submit
    BY <1>1 DEF Submit, Scheduler!Submit, Ordered, OperandsAreStable
<1>2. ASSUME NEW p \in Tasks, RunKernel(p) PROVE StableInv'
  <2>1. /\ status[p] = "waiting"
        /\ \A q \in Tasks : <<q, p>> \in Conflict => status[q] = "finished"
        /\ status' = [status EXCEPT ![p] = "running"]
        /\ value' = value
      BY <1>2 DEF RunKernel, Scheduler!Start, Scheduler!Tasks, Tasks
  <2>2. Ordered'
      BY <2>1 DEF Ordered
  <2>3. OperandsAreStable'
      BY <1>2, <2>1 DEF RunKernel, OperandsAreStable
  <2> QED BY <1>2, <2>1, <2>2, <2>3 DEF RunKernel
<1>3. ASSUME NEW q \in Tasks, FinishKernel(q) PROVE StableInv'
  <2>1. /\ status[q] = "running"
        /\ status' = [status EXCEPT ![q] = "finished"]
        /\ operands' = [operands EXCEPT ![q] = <<>>]
      BY <1>3 DEF FinishKernel, Scheduler!Finish
  <2>2. Ordered'
      BY <2>1 DEF Ordered
  <2>3. ASSUME NEW p \in Tasks, status'[p] = "running"
        PROVE  operands'[p] = [i \in DOMAIN Args(p) |-> value'[Args(p)[i]]]
    <3>1. p # q /\ status[p] = "running"
        BY <2>1, <2>3
    <3>2. \A i \in DOMAIN Args(p) : Args(p)[i] # Target(q)
        BY <2>1, <3>1, NoWriteUnderReader
    <3>3. \A i \in DOMAIN Args(p) : value'[Args(p)[i]] = value[Args(p)[i]]
        BY <1>3, <3>2, ArgsAreBlocks DEF FinishKernel
    <3> QED BY <2>1, <3>1, <3>3 DEF OperandsAreStable
  <2>4. OperandsAreStable'
      BY <2>3 DEF OperandsAreStable
  <2> QED BY <1>3, <2>1, <2>2, <2>4 DEF FinishKernel
<1>4. CASE UNCHANGED vars
    BY <1>4 DEF vars, Ordered, OperandsAreStable
<1> QED BY <1>1, <1>2, <1>3, <1>4 DEF Next, Terminated

\* For every program of sub-tasks: the arguments a running kernel has read are
\* those in memory until it has finished.
THEOREM StableOperands == Spec => []OperandsAreStable
<1>1. StableInv => OperandsAreStable
    BY DEF StableInv
<1> QED BY <1>1, StableInit, StableStep, PTL DEF Spec
-------------------------------------------------------------------------------
(* The values of the sequential program *)

\* The task counts are natural numbers.
LEMMA Numbers ==
    /\ NTasks \in Nat
    /\ \A p \in Tasks : p \in Nat /\ p >= 1 /\ p <= NTasks /\ p - 1 \in 0..NTasks
BY ProgramAssumption DEF Tasks, NTasks

\* What fails for some number fails for a least one.
LEMMA LeastOf ==
    ASSUME NEW S \in SUBSET Nat, S # {}
    PROVE  \E n \in S : \A m \in S : n <= m
<1>1. PICK n \in S : \A m \in S : ~ <<m, n>> \in OpToRel(<, Nat)
    BY NatLessThanWellFounded, WFMin
<1>2. \A m \in S : ~ (m < n)
    BY <1>1 DEF OpToRel
<1> QED BY <1>2

\* The values are defined up to every task, by the values before it.
StartValue == [b \in Blocks |-> Start0(b)]
ValuesUpTo(k, f) == f = [n \in 0..k |-> IF n = 0 THEN StartValue ELSE AfterTask(n, f[n - 1])]

\* The sequential run can be carried on to any length.
LEMMA ValuesExist == \A k \in Nat : \E f : ValuesUpTo(k, f)
<1> DEFINE S == {k \in Nat : ~ \E f : ValuesUpTo(k, f)}
<1> SUFFICES ASSUME S # {} PROVE FALSE
    OBVIOUS
<1>1. PICK k \in S : \A m \in S : k <= m
  <2> HIDE DEF S
  <2>1. S \in SUBSET Nat
      BY DEF S
  <2> QED BY <2>1, LeastOf
<1>2. k # 0
  <2>1. ValuesUpTo(0, [n \in 0..0 |-> StartValue])
      BY DEF ValuesUpTo
  <2> QED BY <1>1, <2>1
<1>3. PICK f : ValuesUpTo(k - 1, f)
    BY <1>1, <1>2
<1> DEFINE g == [n \in 0..k |-> IF n = k THEN AfterTask(k, f[k - 1]) ELSE f[n]]
<1>4. ASSUME NEW n \in 0..k
      PROVE  g[n] = IF n = 0 THEN StartValue ELSE AfterTask(n, g[n - 1])
    BY <1>1, <1>2, <1>3 DEF ValuesUpTo
<1>5. ValuesUpTo(k, g)
  <2>1. g = [n \in 0..k |-> g[n]]
      OBVIOUS
  <2> HIDE DEF g
  <2> QED BY <1>4, <2>1 DEF ValuesUpTo
<1> QED BY <1>1, <1>5

\* The values after a task are what the task makes of those before it.
LEMMA SequentialStep ==
    /\ SequentialValue[0] = StartValue
    /\ \A p \in Tasks : SequentialValue[p] = AfterTask(p, SequentialValue[p - 1])
<1>1. ValuesUpTo(NTasks, SequentialValue)
    BY Numbers, ValuesExist DEF ValuesUpTo, SequentialValue, StartValue
<1> QED BY <1>1, Numbers DEF ValuesUpTo, Tasks

\* A task changes the value of its target, and of no other block.
LEMMA AfterTaskValue ==
    ASSUME NEW p \in Tasks, NEW before, DOMAIN before = Blocks
    PROVE  /\ DOMAIN AfterTask(p, before) = Blocks
           /\ AfterTask(p, before)[Target(p)] =
                  Kernel(Program[p].op, [i \in DOMAIN Args(p) |-> before[Args(p)[i]]])
           /\ \A b \in Blocks \ {Target(p)} : AfterTask(p, before)[b] = before[b]
BY ArgsAreBlocks DEF AfterTask, Target, Args

\* Every value is defined for all blocks.
LEMMA SequentialBlocks == \A n \in 0..NTasks : DOMAIN SequentialValue[n] = Blocks
<1> DEFINE S == {n \in 0..NTasks : DOMAIN SequentialValue[n] # Blocks}
<1> SUFFICES ASSUME S # {} PROVE FALSE
    OBVIOUS
<1>1. PICK n \in S : \A m \in S : n <= m
  <2>1. S \in SUBSET Nat
      OBVIOUS
  <2> HIDE DEF S
  <2> QED BY <2>1, LeastOf
<1>2. CASE n = 0
    BY <1>2, SequentialStep DEF StartValue
<1>3. CASE n # 0
  <2>1. n \in Tasks /\ n - 1 \in 0..NTasks /\ ~ (n <= n - 1)
      BY <1>3, Numbers DEF Tasks
  <2>2. DOMAIN SequentialValue[n - 1] = Blocks
      BY <1>1, <2>1
  <2>3. SequentialValue[n] = AfterTask(n, SequentialValue[n - 1])
      BY <2>1, SequentialStep
  <2>4. DOMAIN AfterTask(n, SequentialValue[n - 1]) = Blocks
      BY <2>1, <2>2, AfterTaskValue
  <2> QED BY <2>3, <2>4
<1> QED BY <1>2, <1>3

\* A block keeps its value while no task writes it.
LEMMA UnwrittenBlock ==
    ASSUME NEW b \in Blocks, NEW m \in 0..NTasks
    PROVE  \A n \in m..NTasks :
               (\A q \in Tasks : m < q /\ q <= n => Target(q) # b)
                   => SequentialValue[n][b] = SequentialValue[m][b]
<1> DEFINE Unwritten(n) == \A q \in Tasks : m < q /\ q <= n => Target(q) # b
           S == {n \in m..NTasks : /\ Unwritten(n)
                                   /\ SequentialValue[n][b] # SequentialValue[m][b]}
<1> SUFFICES ASSUME S # {} PROVE FALSE
    OBVIOUS
<1>1. PICK n \in S : \A k \in S : n <= k
  <2>1. S \in SUBSET Nat
      BY Numbers
  <2> HIDE DEF S
  <2> QED BY <2>1, LeastOf
<1>2. n \in m..NTasks /\ n # m /\ Unwritten(n) /\ SequentialValue[n][b] # SequentialValue[m][b]
    OBVIOUS
<1>3. n \in Tasks /\ n - 1 \in m..NTasks /\ n - 1 \in 0..NTasks /\ ~ (n <= n - 1)
    BY <1>2, Numbers DEF Tasks
<1>4. Unwritten(n - 1) /\ Target(n) # b
    BY <1>2, <1>3, Numbers
<1>5. SequentialValue[n - 1][b] = SequentialValue[m][b]
    BY <1>1, <1>3, <1>4
<1>6. SequentialValue[n][b] = SequentialValue[n - 1][b]
  <2>1. SequentialValue[n] = AfterTask(n, SequentialValue[n - 1])
      BY <1>3, SequentialStep
  <2>2. DOMAIN SequentialValue[n - 1] = Blocks
      BY <1>3, SequentialBlocks
  <2>3. AfterTask(n, SequentialValue[n - 1])[b] = SequentialValue[n - 1][b]
    <3> DEFINE before == SequentialValue[n - 1]
    <3>1. DOMAIN before = Blocks
        BY <2>2
    <3> HIDE DEF before
    <3>2. \A c \in Blocks \ {Target(n)} : AfterTask(n, before)[c] = before[c]
        BY <1>3, <3>1, AfterTaskValue
    <3> QED BY <1>4, <3>2 DEF before
  <2> QED BY <2>1, <2>3
<1> QED BY <1>2, <1>5, <1>6
-------------------------------------------------------------------------------
(* The parallel program *)

\* When the writers of a block that have finished are those among the first n
\* tasks, its value is that of the sequential program after n tasks.
ValuesAreSequential ==
    \A b \in Blocks : \A n \in 0..NTasks :
        (\A p \in Tasks : Target(p) = b => (status[p] = "finished" <=> p <= n))
            => value[b] = SequentialValue[n][b]

SequentialInv == StableInv /\ ValuesAreSequential /\ OperandsAreSequential

\* No task has started at first, and every block has its first value.
LEMMA SequentialInit == Init => SequentialInv
<1> SUFFICES ASSUME Init PROVE SequentialInv
    OBVIOUS
<1>1. /\ status = [p \in Tasks |-> "waiting"] /\ value = StartValue
    BY DEF Init, Scheduler!Init, Scheduler!Tasks, Tasks, StartValue
<1>2. OperandsAreSequential
    BY <1>1 DEF OperandsAreSequential
<1>3. ASSUME NEW b \in Blocks, NEW n \in 0..NTasks,
             \A p \in Tasks : Target(p) = b => (status[p] = "finished" <=> p <= n)
      PROVE  value[b] = SequentialValue[n][b]
  <2>1. \A q \in Tasks : 0 < q /\ q <= n => Target(q) # b
      BY <1>1, <1>3
  <2>2. 0 \in 0..NTasks
      BY Numbers
  <2>3. SequentialValue[n][b] = SequentialValue[0][b]
      BY <2>1, <2>2, UnwrittenBlock
  <2> QED BY <1>1, <2>3, SequentialStep
<1> QED BY <1>2, <1>3, StableInit DEF SequentialInv, ValuesAreSequential

\* A kernel starts when the earlier writers of its arguments have finished, and
\* no later one has started: it reads the values of the sequential program.
LEMMA StartReads ==
    ASSUME SequentialInv, NEW p \in Tasks, status[p] = "waiting",
           \A q \in Tasks : <<q, p>> \in Conflict => status[q] = "finished"
    PROVE  [i \in DOMAIN Args(p) |-> value[Args(p)[i]]] = SequentialOperands[p]
<1>1. ASSUME NEW i \in DOMAIN Args(p)
      PROVE  value[Args(p)[i]] = SequentialValue[p - 1][Args(p)[i]]
  <2> DEFINE b == Args(p)[i]
             n == p - 1
  <2>1. b \in Blocks /\ n \in 0..NTasks /\ p \in Nat
      BY ArgsAreBlocks, Numbers
  <2>2. ASSUME NEW q \in Tasks, Target(q) = b
        PROVE  status[q] = "finished" <=> q <= n
    <3>1. q \in Nat
        BY Numbers
    <3>2. CASE q < p
      <4>1. <<q, p>> \in Conflict
          BY <2>2, <3>2 DEF Conflict
      <4> QED BY <2>1, <3>1, <3>2, <4>1
    <3>3. CASE p < q
      <4>1. <<p, q>> \in Conflict
          BY <2>2, <3>3 DEF Conflict
      <4>2. status[q] # "finished"
          BY <4>1 DEF SequentialInv, StableInv, Ordered
      <4> QED BY <2>1, <3>1, <3>3, <4>2
    <3>4. CASE q = p
        BY <2>1, <3>4
    <3> QED BY <2>1, <3>1, <3>2, <3>3, <3>4
  <2> HIDE DEF b, n
  <2>3. value[b] = SequentialValue[n][b]
      BY <2>1, <2>2 DEF SequentialInv, ValuesAreSequential
  <2> QED BY <2>3 DEF b, n
<1> QED BY <1>1 DEF SequentialOperands

\* The kernel that ends leaves the value of the sequential program: the writers
\* of its target are ordered around it.
LEMMA EndWrites ==
    ASSUME SequentialInv, NEW p \in Tasks, status[p] = "running",
           NEW n \in 0..NTasks, p <= n,
           \A q \in Tasks :
               q # p /\ Target(q) = Target(p) => (status[q] = "finished" <=> q <= n)
    PROVE  Kernel(Program[p].op, operands[p]) = SequentialValue[n][Target(p)]
<1> DEFINE before == SequentialValue[p - 1]
           after == SequentialValue[p]
<1>1. DOMAIN before = Blocks
    BY Numbers, SequentialBlocks
<1>2. operands[p] = [i \in DOMAIN Args(p) |-> before[Args(p)[i]]]
    BY DEF SequentialInv, OperandsAreSequential, SequentialOperands
<1>3. after = AfterTask(p, before)
    BY SequentialStep
<1>4. Kernel(Program[p].op, operands[p]) = after[Target(p)]
  <2> HIDE DEF before, after
  <2> QED BY <1>1, <1>2, <1>3, AfterTaskValue
<1>5. \A q \in Tasks : p < q /\ q <= n => Target(q) # Target(p)
  <2> SUFFICES ASSUME NEW q \in Tasks, p < q, q <= n, Target(q) = Target(p) PROVE FALSE
      OBVIOUS
  <2>1. q # p
      BY Numbers
  <2>2. status[q] = "finished"
      BY <2>1
  <2>3. <<p, q>> \in Conflict
      BY ArgsAreBlocks DEF Conflict, Target
  <2> QED BY <2>2, <2>3 DEF SequentialInv, StableInv, Ordered
<1>6. /\ p \in 0..NTasks /\ n \in p..NTasks /\ Target(p) \in Blocks
    BY Numbers, ArgsAreBlocks
<1>7. SequentialValue[n][Target(p)] = SequentialValue[p][Target(p)]
    BY <1>5, <1>6, UnwrittenBlock
<1> QED BY <1>4, <1>7

\* Each start and each end of a sub-task keeps the invariant.
LEMMA SequentialInvStep == SequentialInv /\ [Next]_vars => SequentialInv'
<1> SUFFICES ASSUME SequentialInv, [Next]_vars PROVE SequentialInv'
    OBVIOUS
<1>0. StableInv /\ StableInv'
    BY StableStep DEF SequentialInv
<1>1. CASE UNCHANGED <<status, operands, value>>
    BY <1>0, <1>1 DEF SequentialInv, ValuesAreSequential, OperandsAreSequential
<1>2. ASSUME NEW p \in Tasks, RunKernel(p) PROVE SequentialInv'
  <2>1. /\ status[p] = "waiting"
        /\ \A q \in Tasks : <<q, p>> \in Conflict => status[q] = "finished"
        /\ status' = [status EXCEPT ![p] = "running"]
        /\ operands' = [operands EXCEPT ![p] = [i \in DOMAIN Args(p) |-> value[Args(p)[i]]]]
        /\ value' = value
      BY <1>2 DEF RunKernel, Scheduler!Start, Scheduler!Tasks, Tasks
  <2>2. OperandsAreSequential'
      BY <1>0, <2>1, StartReads DEF SequentialInv, StableInv, OperandsAreSequential
  <2>3. \A q \in Tasks : status'[q] = "finished" <=> status[q] = "finished"
      BY <1>0, <2>1 DEF StableInv
  <2>4. ValuesAreSequential'
      BY <2>1, <2>3 DEF SequentialInv, ValuesAreSequential
  <2> QED BY <1>0, <2>2, <2>4 DEF SequentialInv
<1>3. ASSUME NEW p \in Tasks, FinishKernel(p) PROVE SequentialInv'
  <2>1. /\ status[p] = "running"
        /\ status' = [status EXCEPT ![p] = "finished"]
        /\ operands' = [operands EXCEPT ![p] = <<>>]
        /\ value' = [value EXCEPT ![Target(p)] = Kernel(Program[p].op, operands[p])]
      BY <1>3 DEF FinishKernel, Scheduler!Finish
  <2>2. OperandsAreSequential'
      BY <1>0, <2>1 DEF SequentialInv, StableInv, OperandsAreSequential
  <2>3. status'[p] = "finished" /\ \A q \in Tasks \ {p} : status'[q] = status[q]
      BY <1>0, <2>1 DEF StableInv
  <2>4. ASSUME NEW b \in Blocks, NEW n \in 0..NTasks,
               \A q \in Tasks : Target(q) = b => (status'[q] = "finished" <=> q <= n)
        PROVE  value'[b] = SequentialValue[n][b]
    <3>1. CASE b = Target(p)
      <4>1. p <= n /\ \A q \in Tasks : q # p /\ Target(q) = b
                                         => (status[q] = "finished" <=> q <= n)
          BY <2>3, <2>4, <3>1
      <4>2. Kernel(Program[p].op, operands[p]) = SequentialValue[n][b]
          BY <2>1, <3>1, <4>1, EndWrites
      <4> QED BY <1>0, <2>1, <3>1, <4>2 DEF StableInv
    <3>2. CASE b # Target(p)
      <4>1. \A q \in Tasks : Target(q) = b => (status[q] = "finished" <=> q <= n)
          BY <2>3, <2>4, <3>2
      <4>2. value[b] = SequentialValue[n][b]
          BY <4>1 DEF SequentialInv, ValuesAreSequential
      <4> QED BY <1>0, <2>1, <3>2, <4>2 DEF StableInv
    <3> QED BY <3>1, <3>2
  <2>5. ValuesAreSequential'
      BY <2>4 DEF ValuesAreSequential
  <2> QED BY <1>0, <2>2, <2>5 DEF SequentialInv
<1>4. CASE Submit \/ Terminated \/ UNCHANGED vars
    BY <1>1, <1>4 DEF Submit, Scheduler!Submit, Terminated, vars
<1> QED BY <1>2, <1>3, <1>4 DEF Next

\* For every program: whatever order the scheduler runs its sub-tasks in, each
\* kernel reads what it would read if they ran one by one.
THEOREM SequentialReads == Spec => []OperandsAreSequential
<1>1. SequentialInv => OperandsAreSequential
    BY DEF SequentialInv
<1> QED BY <1>1, SequentialInit, SequentialInvStep, PTL DEF Spec

\* And the blocks are left as the sequential program leaves them.
THEOREM SequentialResult ==
    Spec => [](AllFinished => \A b \in Blocks : value[b] = SequentialValue[NTasks][b])
<1>1. SequentialInv => (AllFinished => \A b \in Blocks : value[b] = SequentialValue[NTasks][b])
  <2> SUFFICES ASSUME SequentialInv, AllFinished, NEW b \in Blocks
               PROVE  value[b] = SequentialValue[NTasks][b]
      OBVIOUS
  <2>1. \A p \in Tasks : status[p] = "finished" <=> p <= NTasks
      BY Numbers DEF AllFinished
  <2>2. NTasks \in 0..NTasks
      BY Numbers
  <2> QED BY <2>1, <2>2 DEF SequentialInv, ValuesAreSequential
<1> QED BY <1>1, SequentialInit, SequentialInvStep, PTL DEF Spec

\* A split computes its operation in parallel if its loops, run one by one, do:
\* it is enough to check the sequential program.
LoopsCompute ==
    \A b \in DOMAIN Expected : b \in Blocks /\ SequentialValue[NTasks][b] = Expected[b]

\* A split that computes its operation one sub-task after the other computes it in
\* every order the scheduler may choose.
THEOREM ParallelComputes ==
    ASSUME LoopsCompute
    PROVE  Spec => []ComputesOperation
<1>1. (AllFinished => \A b \in Blocks : value[b] = SequentialValue[NTasks][b])
          => ComputesOperation
    BY DEF LoopsCompute, ComputesOperation
<1> QED BY <1>1, SequentialResult, PTL
===============================================================================
