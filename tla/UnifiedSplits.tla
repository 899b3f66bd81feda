---------------------------- MODULE UnifiedSplits ----------------------------
(***************************************************************************)
(* The block operations of the dynamically bound variant (ublas/): the     *)
(* sub-tasks their loops submit.  Tasks and blocks are those of            *)
(* UblasSplits.                                                            *)
(***************************************************************************)
EXTENDS UblasSplits

ugemm_t(A, B, C) == [op |-> "ugemm", args |-> <<A, B, C>>]
utrsm_t(A, B)    == [op |-> "utrsm", args |-> <<A, B>>]
udot_t(A, B, r)  == [op |-> "dot", args |-> <<A, B, r>>]
uadd_t(A, B)     == [op |-> "add", args |-> <<A, B>>]
ucopy_t(A, B)    == [op |-> "copy", args |-> <<A, B>>]

\* m, n and o are the part counts of A in y, of B in x and of C in x: the last
\* bounds the loop over the blocks of A in x and of B in y.
ugemm(A, B, C, m, n, o) ==
    Loop(0, m, LAMBDA i : Loop(0, n, LAMBDA j : Loop(0, o, LAMBDA k :
        <<ugemm_t(At(A, i, k), At(B, k, j), At(C, i, j))>>)))

utrsm(A, B, nb) ==
    Loop(0, nb, LAMBDA i : Loop(0, nb, LAMBDA j :
        Loop(0, i, LAMBDA k :
            <<ugemm_t(At(B, j, k), At(A, i, k), At(B, j, i))>>)
        \o <<utrsm_t(At(A, i, i), At(B, j, i))>>))

\* The strides of the tree of sums, for (j = 1; j < nb; j *= 2).
Strides(nb) == {j \in {1, 2, 4, 8, 16} : j < nb}
StrideSeq(nb) == SetToSortSeq(Strides(nb), <)

\* for (i = 0; i < nb; i += 2*j) if (i+j < nb) S(i) += S(i+j)
AddPairs(S, j, nb) ==
    FlattenSeq([i \in 1..nb |->
        IF (i - 1) % (2 * j) = 0 /\ (i - 1) + j < nb
        THEN <<uadd_t(At(S, i - 1 + j, 0), At(S, i - 1, 0))>> ELSE <<>>])

\* The products of the parts into the temporary S, its sum in S(0,0) over a
\* tree, and the copy of that into the result.
udot(A, B, r, nb) ==
    LET S == <<"S">> IN
    Loop(0, nb, LAMBDA i : <<udot_t(At(A, i, 0), At(B, i, 0), At(S, i, 0))>>)
    \o FlattenSeq([l \in 1..Len(StrideSeq(nb)) |-> AddPairs(S, StrideSeq(nb)[l], nb)])
    \o <<ucopy_t(At(S, 0, 0), At(r, 0, 0))>>
===============================================================================
