---------------------------- MODULE MCPathDispatch ----------------------------
(***************************************************************************)
(* PathDispatch on the task graph of main_cholesky.cpp: the data A cut     *)
(* into B1 x B1 blocks for DuctTeip and each of these into B2 x B2 blocks  *)
(* for SuperGlue.                                                          *)
(***************************************************************************)
EXTENDS PathDispatch, UblasSplits

CONSTANTS B1, B2,       \* partitions at the two levels
          RootTask      \* the task the program splits

\* NTasks is the bound: the program submits the first NTasks of these tasks.
RootTasks == SplitOf(RootTask, B1)
LeafTask(c) == SplitOf(RootTasks[c[1]], B2)[c[2]]

\* The values of the constants.  TLC evaluates a definition a .cfg substitutes
\* for a constant again at every use, and keeps a function constructor as a
\* rule; the tables (f @@ <<>> is f) are definitions of their own, computed once.
ArityTable == [p \in 1..NTasks |-> Len(SplitOf(RootTasks[p], B2))] @@ <<>>
LeafIds == UNION {{p} \X (1..ArityTable[p]) : p \in 1..NTasks}
TaskReadsTable == [p \in 1..NTasks |-> InArgs(RootTasks[p])] @@ <<>>
TaskWritesTable == [p \in 1..NTasks |-> {Out(RootTasks[p])}] @@ <<>>
LeafReadsTable == [c \in LeafIds |-> InArgs(LeafTask(c))] @@ <<>>
LeafWritesTable == [c \in LeafIds |-> {Out(LeafTask(c))}] @@ <<>>
GemmLeafIds == UNION {IF LeafTask(c).op = "gemm" THEN {c} ELSE {} : c \in LeafIds}

MCArity == ArityTable
MCTaskReads == TaskReadsTable
MCTaskWrites == TaskWritesTable
MCLeafReads == LeafReadsTable
MCLeafWrites == LeafWritesTable
MCGemmLeaves == GemmLeafIds

Cholesky == PotrfTask(<<"A">>)
MatMult == GemmTask(<<"A">>, <<"B">>, <<"C">>)
===============================================================================
