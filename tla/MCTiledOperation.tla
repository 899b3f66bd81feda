--------------------------- MODULE MCTiledOperation ---------------------------
(***************************************************************************)
(* TiledOperation on the splits of the block operations, with what each of *)
(* them computes on the whole stated block by block.                       *)
(***************************************************************************)
EXTENDS TiledOperation, UnifiedSplits

CONSTANTS
    N,          \* the matrices are cut into N x N blocks
    NFactor,    \* the one that is only factorised into NFactor x NFactor
    NParts      \* the vectors into NParts parts

A == <<"A">>
B == <<"B">>
C == <<"C">>
F == <<"F">>
Grid == (0..N - 1) \X (0..N - 1)
Lower(n) == {c \in (0..n - 1) \X (0..n - 1) : c[2] <= c[1]}

Old(S, i, j) == Start0(At(S, i, j))

\* bag + the terms of a set
Plus(bag, terms) == bag (+) SetToBag(terms)

\* L(k,i) with L L^T = S, the blocks of S having the values old.
PotrfResult(old(_, _), n) ==
    LET L[c \in Lower(n)] ==
            LET k == c[1]
                i == c[2]
                rest == Plus(old(k, i), {Times(L[<<k, j>>], L[<<i, j>>]) : j \in 0..i - 1})
            IN IF k = i THEN Potrf(<<rest>>) ELSE Trsm(<<L[<<i, i>>], rest>>)
    IN L

\* X(j,i) with X a^T = B: what remains of B(j,i) without the X(j,k) found
\* before, solved by a(i,i)
Solved(a(_, _)) ==
    LET X[c \in Grid] ==
            LET j == c[1] i == c[2] IN
            Trsm(<<a(i, i),
                   Plus(Old(B, j, i), {Times(X[<<j, k>>], a(i, k)) : k \in 0..i - 1})>>)
    IN X

\* F is factorised; then the parts of the vector V are solved and the scalar
\* product of V with the vector D left in r.
D == <<"D">>
V == <<"V">>
r == <<"r">>
Kept == <<"kept">>
Z == <<"Z">>
FactorOfF == PotrfResult(LAMBDA i, j : Old(F, i, j), NFactor)
Part(i) == Trsm(<<Old(Z, 0, 0), Old(V, i, 0)>>)
DotResult == SetToBag({Times(Part(i), Old(D, i, 0)) : i \in 0..NParts - 1})

\* A(0,0) is what r is overwritten with, A is factorised into L, X = B L^-T is
\* left in B, C gets X L added and A gets X X^T added.
StartOfA(i, j) == IF i = 0 /\ j = 0 THEN Old(Z, 0, 0) ELSE Old(A, i, j)
FactorOfA == PotrfResult(StartOfA, N)
Factor(i, j) == IF j <= i THEN FactorOfA[<<i, j>>] ELSE Old(A, i, j)
SolvedByFactor == Solved(Factor)
X(i, j) == SolvedByFactor[<<i, j>>]
ProductResult(i, j) ==
    Plus(Old(C, i, j), {Times(X(i, k), Factor(k, j)) : k \in 0..N - 1})
UpdateResult(i, j) ==
    Plus(Factor(i, j), {Times(X(i, k), X(j, k)) : k \in 0..N - 1})

\* The programs and what they are expected to compute.  TLC evaluates what a
\* .cfg substitutes for a constant again at every use: the work is in tables,
\* definitions of their own it evaluates once.
Each(S, cells, Result(_, _)) ==
    [b \in {At(S, c[1], c[2]) : c \in cells} |-> Result(b[2][1], b[2][2])] @@ <<>>

\* The program is in three parts.  Each waits for the one before at the block
\* that holds its last result, which is kept elsewhere and written anew.
KeepAndReset(b, i) == <<ucopy_t(b, At(Kept, i, 0)), ucopy_t(At(Z, 0, 0), b)>>
LastOfF == At(F, NFactor - 1, NFactor - 1)
MixedTable ==
    PotrfSplit(F, NFactor)
    \o KeepAndReset(LastOfF, 0)
    \o Loop(0, NParts, LAMBDA i : <<utrsm_t(LastOfF, At(V, i, 0))>>)
    \o udot(V, D, r, NParts)
    \o KeepAndReset(At(r, 0, 0), 1)
    \o <<ucopy_t(At(r, 0, 0), At(A, 0, 0))>>
    \o PotrfSplit(A, N) \o utrsm(A, B, N) \o GemmSplit(B, A, C, N, N, N) \o SyrkSplit(B, A, N)
MixedResults ==
    [b \in {At(Kept, 0, 0)} |-> FactorOfF[<<NFactor - 1, NFactor - 1>>]]
    @@ [b \in {At(Kept, 1, 0)} |-> DotResult]
    @@ Each(F, Lower(NFactor) \ {<<NFactor - 1, NFactor - 1>>}, LAMBDA i, j : FactorOfF[<<i, j>>])
    @@ Each(B, Grid, X) @@ Each(C, Grid, ProductResult) @@ Each(A, Lower(N), UpdateResult)
TrsmTable == TrsmSplit(A, B, N, N)
TrsmResults == LET T == Solved(LAMBDA i, j : Old(A, i, j)) IN
               Each(B, Grid, LAMBDA j, i : T[<<j, i>>])

MixedProgram == MixedTable
MixedExpected == MixedResults
TrsmProgram == TrsmTable
TrsmExpected == TrsmResults
===============================================================================
