---------------------------- MODULE MCEdgeDispatch ----------------------------
(***************************************************************************)
(* EdgeDispatch on the tasks of two splits, the blocks spread over a        *)
(* P x Q grid of ranks by row and column as IData's host policy does.      *)
(***************************************************************************)
EXTENDS EdgeDispatch, UblasSplits

CONSTANTS B1,     \* the data are cut into B1 x B1 blocks
          P, Q    \* the grid of ranks

\* B is solved with A, and A then factorised in place: the factorisation
\* overwrites blocks the solution still reads.
RootTasks == SplitOf(TrsmTask(<<"A">>, <<"B">>), B1) \o SplitOf(PotrfTask(<<"A">>), B1)
ArgsTable ==
    [p \in 1..NTasks |->
        [i \in DOMAIN RootTasks[p].args |->
            [data |-> RootTasks[p].args[i],
             axs  |-> IF i = Len(RootTasks[p].args) THEN InOut ELSE In]] \o <<>>]
    @@ <<>>
HostTable ==
    [d \in {At(<<a>>, i, j) : a \in {"A", "B"}, i, j \in 0..(B1 - 1)} |->
        (d[2][1] % P) * Q + (d[2][2] % Q)] @@ <<>>
DataSet == DOMAIN HostTable

MCRanks == 0..(P * Q - 1)
MCArgs == ArgsTable
MCData == DataSet
MCHostOf == HostTable

\* SPUTask keeps potrf on the CPU.
MCGpuTasks == {p \in 1..NTasks : RootTasks[p].op # "potrf"}
===============================================================================
