------------------------------ MODULE MCDataTree ------------------------------
(***************************************************************************)
(* DataTree for the programs of the repository.                            *)
(***************************************************************************)
EXTENDS DataTree, Drivers

AllPrograms == Products \cup Factorisations

\* Of these programs DataTree's properties of the fill are proved; cholesky_noDT, which
\* fills by columns of the whole, is not one of them.
ASSUME ProgramsFillForReaders ==
    \A p \in AllPrograms : FilledForKernels(p) /\ FilledForPrint(p)

CholeskyPrograms == cholesky_DT \cup cholesky_noDT

Shape(m, n, y1, x1, y2, x2) == [M |-> m, N |-> n, cut |-> <<<<y1, x1>>, <<y2, x2>>>>]

\* The command line of run.sh and its kin, with small sizes.
RunScript(N, B1, B2) ==
    <<Option("-M"), Value(N), Value(B1), Value(B2), Option("-N"), Value(N), Value(B1), Value(B2),
      Option("-P"), Value(1), Option("-p"), Value(1), Option("-q"), Value(1),
      Option("-t"), Value(2), Option("-T"), Value(100)>>
Square == {SizesOf(getCmdLine(RunScript(4, 2, 2)))}

\* The framework is for rectangles, too: a rectangular matrix in rectangular cuts,
\* one that is cut into single elements, a vector.
AllShapes ==
    Square \cup
    {Shape(4, 6, 2, 3, 2, 1), Shape(6, 2, 3, 1, 1, 2),
     Shape(2, 4, 1, 2, 2, 2), Shape(6, 1, 3, 1, 2, 1)}
===============================================================================
