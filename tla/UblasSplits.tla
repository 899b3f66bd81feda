----------------------------- MODULE UblasSplits -----------------------------
(***************************************************************************)
(* The split functions of the block operations: the sequence of sub-tasks  *)
(* each of them constructs and submits, in the order of its loops.         *)
(*                                                                         *)
(* A block is the path of its coordinates from the data it is part of,     *)
(* <<"A">> for the data A and <<"A", <<i, j>>>> for A(i,j).  A task is its *)
(* operation and its arguments; packAxs gives In to all arguments but the  *)
(* last, which is InOut, in the constructor of each of the four tasks.     *)
(***************************************************************************)
EXTENDS Integers, Sequences, SequencesExt

At(A, i, j) == Append(A, <<i, j>>)

\* The constructor of GemmTask leaves the flags of its Task unset; only the
\* split of syrk sets trans_b.
GemmTask(A, B, C) == [op |-> "gemm", args |-> <<A, B, C>>, trans_b |-> "unset"]
GemmTransTask(A, B, C) == [GemmTask(A, B, C) EXCEPT !.trans_b = "yes"]
SyrkTask(A, B)    == [op |-> "syrk", args |-> <<A, B>>]
TrsmTask(A, B)    == [op |-> "trsm", args |-> <<A, B>>]
PotrfTask(A)      == [op |-> "potrf", args |-> <<A>>]

Out(t) == t.args[Len(t.args)]
InArgs(t) == {t.args[i] : i \in 1..Len(t.args) - 1}

\* for (i = lo; i < hi; i++) Body(i)
Loop(lo, hi, Body(_)) ==
    FlattenSeq([i \in 1..(IF hi > lo THEN hi - lo ELSE 0) |-> Body(lo + i - 1)])

\* Fault: the block of B is taken transposed.
GemmSplitTransposed(A, B, C, m, n, o) ==
    Loop(0, m, LAMBDA i : Loop(0, n, LAMBDA j : Loop(0, o, LAMBDA k :
        <<GemmTask(At(A, i, k), At(B, j, k), At(C, i, j))>>)))

\* m, n and o are the part counts in x of A, B and C
GemmSplit(A, B, C, m, n, o) ==
    Loop(0, m, LAMBDA i : Loop(0, n, LAMBDA j : Loop(0, o, LAMBDA k :
        <<GemmTask(At(A, i, k), At(B, k, j), At(C, i, j))>>)))

\* Fault: the blocks below the diagonal get the terms up to it only.
SyrkSplitLower(A, B, n) ==
    Loop(0, n, LAMBDA i : Loop(0, i + 1, LAMBDA j :
        IF i = j
        THEN Loop(0, n, LAMBDA k : <<SyrkTask(At(A, i, k), At(B, i, j))>>)
        ELSE Loop(0, i, LAMBDA k :
                <<GemmTransTask(At(A, i, k), At(A, j, k), At(B, i, j))>>)))

SyrkSplit(A, B, n) ==
    Loop(0, n, LAMBDA i : Loop(0, i + 1, LAMBDA j : Loop(0, n, LAMBDA k :
        IF i = j
        THEN <<SyrkTask(At(A, i, k), At(B, i, j))>>
        ELSE <<GemmTransTask(At(A, i, k), At(A, j, k), At(B, i, j))>>)))

\* xa: the part count in x of A, yb: the part count in y of B
TrsmSplit(A, B, xa, yb) ==
    Loop(0, xa, LAMBDA i : Loop(0, yb, LAMBDA j :
        <<TrsmTask(At(A, i, i), At(B, j, i))>> \o
        Loop(0, i, LAMBDA k :
            <<GemmTask(At(A, i, k), At(B, j, k), At(B, j, i))>>)))

\* Fault: the diagonal block is factorised before it is updated.
PotrfSplitEarly(A, n) ==
    Loop(0, n, LAMBDA i :
        <<PotrfTask(At(A, i, i))>> \o
        Loop(0, i, LAMBDA j :
            <<SyrkTask(At(A, i, j), At(A, i, i))>> \o
            Loop(i + 1, n, LAMBDA k :
                <<GemmTask(At(A, k, j), At(A, i, j), At(A, k, i))>>))
        \o Loop(i + 1, n, LAMBDA j : <<TrsmTask(At(A, i, i), At(A, j, i))>>))

PotrfSplit(A, n) ==
    Loop(0, n, LAMBDA i :
        Loop(0, i, LAMBDA j :
            <<SyrkTask(At(A, i, j), At(A, i, i))>> \o
            Loop(i + 1, n, LAMBDA k :
                <<GemmTask(At(A, k, j), At(A, i, j), At(A, k, i))>>))
        \o <<PotrfTask(At(A, i, i))>>
        \o Loop(i + 1, n, LAMBDA j : <<TrsmTask(At(A, i, i), At(A, j, i))>>))

\* ISplit::split dispatches on the operation; every argument has n x n parts.
SplitOf(t, n) ==
    CASE t.op = "gemm"  -> GemmSplit(t.args[1], t.args[2], t.args[3], n, n, n)
      [] t.op = "syrk"  -> SyrkSplit(t.args[1], t.args[2], n)
      [] t.op = "trsm"  -> TrsmSplit(t.args[1], t.args[2], n, n)
      [] t.op = "potrf" -> PotrfSplit(t.args[1], n)
==============================================================================
