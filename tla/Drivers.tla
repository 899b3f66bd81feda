-------------------------------- MODULE Drivers --------------------------------
(***************************************************************************)
(* The programs of the repository, as far as the data they make: a driver  *)
(* is the set of its matrices, each with the partitions that are chained   *)
(* to cut it, whether the program sets memory of its own for it, and what  *)
(* it fills it with.  The drivers of the static variant are built with one *)
(* chain of schedulers each (those before BLAS are named here), those of   *)
(* the dynamic variant take it from the command line, as all do the sizes. *)
(***************************************************************************)
EXTENDS CommandLine

Filling(kind, start, scale) == [kind |-> kind, start |-> start, scale |-> scale]

\* fill_rows_with(start, scale), fill_with(v, 0) and the others
Rows(start, scale) == Filling("rows", start, scale)
With(v)            == Filling("with", v, 0)
Moler              == Filling("moler", 0, 0)
CholDiag           == Filling("chol_diag", 0, 0)
Hilbert            == Filling("hilbert", 0, 0)
NotFilled          == Filling("none", 0, 0)

\* The chain a program of the static variant is bound to at compile time, before
\* BLAS.
Binding ==
    [BLAS_ONLY |-> <<>>, SG_BLAS |-> <<"SG">>, DT_BLAS |-> <<"DT">>, SPU_BLAS |-> <<"SPU">>,
     DT_SG_BLAS |-> <<"DT", "SG">>, DT_SPU_BLAS |-> <<"DT", "SPU">>]
Bound(b) == Range(Binding[b])

\* The sizes a driver takes from its command line: all matrices are M x M, in
\* Mb x Mb blocks of mb x mb blocks each.
SizesOf(params) ==
    [M |-> params.M, N |-> params.M,
     cut |-> <<<<params.Mb, params.Mb>>, <<params.mb, params.mb>>>>]

\* One matrix for each filling, made in the same way.
Matrices(binding, scheds, levels, memory, fills) ==
    {[binding |-> binding, scheds |-> scheds, levels |-> levels, memory |-> memory,
      fill |-> f] : f \in fills}

-------------------------------------------------------------------------------
(* static_binding/src.  A product cuts A, B and C alike; a program with two     *)
(* schedulers before BLAS chains P1 and P2, the others make no P2, or one they  *)
(* do not use.                                                                  *)

main_BLAS_ONLY ==
    Matrices("static", Bound("BLAS_ONLY"), 1, TRUE, {Rows(1, 10), Rows(10, 10), With(0)})
main_SG_BLAS ==
    Matrices("static", Bound("SG_BLAS"), 1, TRUE, {Rows(1, 0), Rows(2, 0), With(0)})
main_DT_BLAS ==
    Matrices("static", Bound("DT_BLAS"), 1, TRUE, {Rows(1, 0), Rows(2, 0), With(0)})

\* DuctTeip allocates the memory.
main_DT_SG_BLAS ==
    Matrices("static", Bound("DT_SG_BLAS"), 2, FALSE, {With(1), With(2), With(0)})

\* The main programs with StarPU call cholesky; mat_mult is there to be called in
\* its place.
SPU_BLAS_mat_mult ==
    Matrices("static", Bound("SPU_BLAS"), 1, TRUE, {Rows(1, 0), Rows(2, 0), With(0)})
SPU_BLAS_cholesky == Matrices("static", Bound("SPU_BLAS"), 1, TRUE, {Rows(1, 0)})
DT_SPU_BLAS_mat_mult ==
    Matrices("static", Bound("DT_SPU_BLAS"), 2, FALSE, {With(1), With(2), With(0)})
\* Memory is set after DuctTeip has given the blocks theirs.
DT_SPU_BLAS_cholesky == Matrices("static", Bound("DT_SPU_BLAS"), 2, TRUE, {Rows(1, 0)})

\* main_cholesky is built with and without DuctTeip: with it the two cuts are
\* chained and nothing is filled, without it the program has the whole matrix.
cholesky_mat_mult ==
    UNION {Matrices("static", Bound(b), 2, FALSE, {With(1), With(2), With(0)}) :
              b \in {"DT_SG_BLAS", "DT_SPU_BLAS"}}
cholesky_DT ==
    UNION {Matrices("static", Bound(b), 2, FALSE, {NotFilled}) :
              b \in {"DT_SG_BLAS", "DT_SPU_BLAS"}}
cholesky_noDT ==
    UNION {Matrices("static", Bound(b), 1, TRUE, {Hilbert}) : b \in {"SG_BLAS", "SPU_BLAS"}}

-------------------------------------------------------------------------------
(* The dynamic variant.  The schedulers keep the data's memory.                 *)

DynamicChains == {{"DT"}, {"SG"}, {"DT", "SG"}}
OverChains(levels, fills) ==
    UNION {Matrices("dynamic", s, levels, FALSE, fills) : s \in DynamicChains}

\* ublas/unit_tests: the product and the scalar product, whose A and B are
\* vectors.  C of the latter is one element that P2 alone cuts into YB2 rows,
\* which have no elements unless YB2 is one: it is left out.
test_ugemm == OverChains(2, {With(1), With(2), With(10)})
test_udot  == OverChains(2, {With(1), With(2)})

\* apps/main.cpp: its main calls test_gemm only.
test_gemm == OverChains(2, {With(1), With(2), With(10)})
test_trsm == Matrices("dynamic", {"SG"}, 1, FALSE, {CholDiag, Moler})

\* mq_scheduler: the first scheduler only sends, so that the chain may also have
\* none that keeps memory.
ugemm_app ==
    OverChains(2, {With(1), With(2), With(10)})
    \cup Matrices("dynamic", {}, 2, FALSE, {With(1), With(2), With(10)})
-------------------------------------------------------------------------------
Products ==
    main_BLAS_ONLY \cup main_SG_BLAS \cup main_DT_BLAS \cup main_DT_SG_BLAS
    \cup SPU_BLAS_mat_mult \cup DT_SPU_BLAS_mat_mult \cup cholesky_mat_mult
    \cup test_ugemm \cup test_udot \cup test_gemm \cup ugemm_app

Factorisations == SPU_BLAS_cholesky \cup DT_SPU_BLAS_cholesky \cup cholesky_DT \cup test_trsm
===============================================================================
