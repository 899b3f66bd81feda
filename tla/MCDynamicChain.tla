---------------------------- MODULE MCDynamicChain ----------------------------
(***************************************************************************)
(* DynamicChain on the first NTop tasks of ugemm, A and C cut into M x N   *)
(* blocks, B into N x N, and each of these into M2 x N2 and N2 x N2.       *)
(***************************************************************************)
EXTENDS HandWritten, UnifiedSplits

CONSTANTS M, N, M2, N2

TopTasks == ugemm(<<"A">>, <<"B">>, <<"C">>, M, N, N)
SubTasks(p) == LET a == TopTasks[p].args IN ugemm(a[1], a[2], a[3], M2, N2, N2)
ArityTable == [p \in 1..NTop |-> Len(SubTasks(p))] @@ <<>>
TaskOf(t) == IF Len(t) = 1 THEN TopTasks[t[1]] ELSE SubTasks(t[1])[t[2]]
AllTasks ==
    {<<p>> : p \in 1..NTop} \cup UNION {{p} \X (1..ArityTable[p]) : p \in 1..NTop}
TaskTable == [t \in AllTasks |-> TaskOf(t)] @@ <<>>
ReadsTable == [t \in AllTasks |-> InArgs(TaskTable[t])] @@ <<>>
WritesTable == [t \in AllTasks |-> {Out(TaskTable[t])}] @@ <<>>
Data == UNION {ReadsTable[t] \cup WritesTable[t] : t \in AllTasks}

MCArity == ArityTable
MCReads == ReadsTable
MCWrites == WritesTable

\* In stands in the field of no datum, of those that are only read, or of those
\* the program's tasks write.
Written == UNION {WritesTable[t] : t \in AllTasks}
HoldInSome == {{}, Data \ Written, UNION {WritesTable[t] : t \in Tops}}
HoldInNone == {{}}

Command(sch1, sch2, sch3) == [sch1 |-> sch1, sch2 |-> sch2, sch3 |-> sch3]

\* The configurations of ublas/unit_tests/run_tests.sh; cuBLAS is one that load
\* does not know.
DT_SG_BLAS == {Command("DuctTeip", "SuperGlue", "cpuBLAS")}
SG_BLAS    == {Command("SuperGlue", "cpuBLAS", "")}
DT_BLAS    == {Command("DuctTeip", "cpuBLAS", "")}
DT_cuBLAS  == {Command("DuctTeip", "cuBLAS", "")}
AllConfigs == DT_SG_BLAS \cup SG_BLAS \cup DT_BLAS \cup DT_cuBLAS

AllProducts ==
    {<<"DuctTeip", "SuperGlue", "cblas">>, <<"DuctTeip", "cblas">>, <<"SuperGlue", "cblas">>,
     <<"main", "cblas">>}
===============================================================================
