------------------------------ MODULE BlockTree ------------------------------
(***************************************************************************)
(* Where the blocks of a partitioned matrix and its elements are: the      *)
(* arithmetic of GData, shared by its two variants.                        *)
(***************************************************************************)
EXTENDS Integers

\* get_part: the child index of the block in row i and column j of a grid of y
\* rows.  The blocks are numbered down the columns.
GetPart(i, j, y) == j * y + i

\* getCoordination: the row and the column of the child with an index.
Coordination(idx, y) == <<idx % y, idx \div y>>

\* The place of element (i, j) in a block of m rows, as dump and the kernels of
\* BLAS take it.
ColumnMajor(i, j, m) == j * m + i

\* Fault: the row of blocks is skipped by the width of the grid.
ElementOffsetByWidth(i, j, py, px, by) ==
    LET ii == i \div py
        jj == j \div px
    IN jj * py * px + ii * py * px * by + (j % px) * py + (i % py)

\* The place of element (i, j) in a matrix of blocks with py rows and px columns
\* each, by of them in a column of the grid, as fill_rows_with, print and others
\* take it.
ElementOffset(i, j, py, px, by) ==
    LET ii == i \div py
        jj == j \div px
    IN jj * py * px * by + ii * py * px + (j % px) * py + (i % py)
===============================================================================
