---------------------------- MODULE TiledOperation ----------------------------
(***************************************************************************)
(* What the sub-tasks of a block operation compute when a scheduler runs   *)
(* them in an order TaskOrder allows.                                      *)
(*                                                                         *)
(* The value of a block is symbolic: the bag of the terms that have been   *)
(* added up in it, so that two values are equal only when the same blocks  *)
(* have been combined in the same way.  A term keeps the operands it was   *)
(* computed from; signs, scaling and transposition are left out, and a     *)
(* product does not tell its left operand from its right one.              *)
(***************************************************************************)
EXTENDS Integers, Sequences, Bags

CONSTANTS
    Program,       \* the sub-tasks of the operation, as its loops submit them
    Expected       \* what the operation promises: Expected[b] for its outputs

ASSUME ProgramAssumption ==
    /\ Len(Program) \in Nat
    /\ \A p \in 1..Len(Program) :
          /\ Len(Program[p].args) \in Nat \ {0}
          /\ DOMAIN Program[p].args = 1..Len(Program[p].args)

NTasks == Len(Program)
Tasks == 1..NTasks
Args(p) == Program[p].args
Target(p) == Args(p)[Len(Args(p))]
Blocks == UNION {{Args(p)[i] : i \in DOMAIN Args(p)} : p \in Tasks}

\* Fault: only the writers of a block wait for each other.
ConflictOfWrites ==
    {e \in Tasks \X Tasks : e[1] < e[2] /\ Target(e[1]) = Target(e[2])}

\* Fault: a writer does not wait for the earlier readers of what it writes.
ConflictAfterWrites ==
    {e \in Tasks \X Tasks :
        e[1] < e[2] /\ \E i \in DOMAIN Args(e[2]) : Target(e[1]) = Args(e[2])[i]}

\* All arguments but the last are In, the last one is InOut or Out, and the
\* schedulers take any mode but In as a write.
Conflict ==
    {e \in Tasks \X Tasks :
        /\ e[1] < e[2]
        /\ \/ \E i \in DOMAIN Args(e[2]) : Target(e[1]) = Args(e[2])[i]
           \/ \E i \in DOMAIN Args(e[1]) : Target(e[2]) = Args(e[1])[i]}

VARIABLES
    submitted,     \* as in TaskOrder
    status,
    operands,      \* operands[p]: while p runs, the values its arguments had when
                   \* it started
    value          \* value[b]: the value of block b

vars == <<submitted, status, operands, value>>

Scheduler == INSTANCE TaskOrder
-------------------------------------------------------------------------------
(* The kernels *)

Term(t) == SetToBag({t})
Start0(b) == Term(<<"block", b>>)
Times(x, y) == <<"times", {x, y}>>

\* The value a kernel leaves in its last argument, v being those it has read.
Gemm(v)  == v[3] (+) Term(Times(v[1], v[2]))
Syrk(v)  == v[2] (+) Term(Times(v[1], v[1]))
Trsm(v)  == Term(<<"trsm", v[1], v[2]>>)
Potrf(v) == Term(<<"potrf", v[1]>>)

\* Those of the dynamic variant, which also take alpha, beta and trans_a from
\* the task.
cpu_gemm(v) == v[3] (+) Term(Times(v[1], v[2]))
cpu_trsm(v) == Term(<<"trsm", v[1], v[2]>>)

Dot(v)   == Term(Times(v[1], v[2]))
Add(v)   == v[2] (+) v[1]
Copy(v)  == v[1]

Kernel(op, v) ==
    CASE op = "gemm"  -> Gemm(v)
      [] op = "syrk"  -> Syrk(v)
      [] op = "trsm"  -> Trsm(v)
      [] op = "potrf" -> Potrf(v)
      [] op = "ugemm" -> cpu_gemm(v)
      [] op = "utrsm" -> cpu_trsm(v)
      [] op = "dot"   -> Dot(v)
      [] op = "add"   -> Add(v)
      [] op = "copy"  -> Copy(v)
-------------------------------------------------------------------------------
Init ==
    /\ Scheduler!Init
    /\ operands = [p \in Tasks |-> <<>>]
    /\ value = [b \in Blocks |-> Start0(b)]

Submit == Scheduler!Submit /\ UNCHANGED <<operands, value>>

\* A worker starts the kernel of p, which reads its arguments.
RunKernel(p) ==
    /\ Scheduler!Start(p)
    /\ operands' = [operands EXCEPT ![p] = [i \in DOMAIN Args(p) |-> value[Args(p)[i]]]]
    /\ UNCHANGED value

\* The kernel leaves its result in the last argument and the task is finished.
FinishKernel(p) ==
    /\ Scheduler!Finish(p)
    /\ value' = [value EXCEPT ![Target(p)] = Kernel(Program[p].op, operands[p])]
    /\ operands' = [operands EXCEPT ![p] = <<>>]

AllFinished == \A p \in Tasks : status[p] = "finished"

Terminated == AllFinished /\ UNCHANGED vars

Next ==
    \/ Submit
    \/ \E p \in Tasks : RunKernel(p) \/ FinishKernel(p)
    \/ Terminated

Spec == Init /\ [][Next]_vars
-------------------------------------------------------------------------------
(* Properties *)

\* Nothing a kernel works on changes while it runs: no other kernel that runs
\* at the same time writes an argument of it.
OperandsAreStable ==
    \A p \in Tasks :
        status[p] = "running" =>
            operands[p] = [i \in DOMAIN Args(p) |-> value[Args(p)[i]]]

\* The values after the first n tasks when the program runs them one by one:
\* task n puts its result in its last argument.
AfterTask(n, before) ==
    LET args == Program[n].args IN
    [before EXCEPT ![args[Len(args)]] =
        Kernel(Program[n].op, [i \in DOMAIN args |-> before[args[i]]])]

SequentialValue[n \in 0..NTasks] ==
    IF n = 0 THEN [b \in Blocks |-> Start0(b)]
    ELSE AfterTask(n, SequentialValue[n - 1])

SequentialOperands ==
    [p \in Tasks |-> LET before == SequentialValue[p - 1] args == Args(p) IN
                     [i \in DOMAIN args |-> before[args[i]]]]

\* Every kernel reads what it would read in the sequential program: the
\* parallel run of a split cannot be told from its loops run one by one.
OperandsAreSequential ==
    \A p \in Tasks :
        status[p] = "running" => operands[p] = SequentialOperands[p]

\* The sub-tasks of the split compute the operation on the whole: the right
\* blocks, each combined once, after what they depend on.
ComputesOperation ==
    AllFinished => \A b \in DOMAIN Expected : value[b] = Expected[b]
===============================================================================
