------------------------------- MODULE DataTree -------------------------------
(***************************************************************************)
(* The data of the framework: GData and its partitioners, and what the     *)
(* schedulers are told of them.                                            *)
(*                                                                         *)
(* A data is a matrix; set_partition cuts it into a grid of children and   *)
(* goes on to cut these.  Every construction, partitioning and (in the     *)
(* statically bound variant) setting of memory is broadcast to the         *)
(* schedulers, which allocate memory, hand it down and leave their own     *)
(* handle with the data, calling GData back as they do.  One thread does   *)
(* all this; `calls` are the calls still to be made, the next one first,   *)
(* and each action is the body of one function.                            *)
(***************************************************************************)
EXTENDS Integers, Sequences, FiniteSets, SequencesExt, BlockTree

CONSTANTS
    Programs,    \* the programs, see Drivers
    Shapes       \* the sizes they may be run with

\* scheds: the schedulers before BLAS; levels: how many partitions are chained;
\* memory: the program sets memory of its own; fill: what it fills the matrix with.
\* No chain has both SuperGlue and StarPU, the dynamic variant has no StarPU, and its
\* programs leave the memory to the schedulers.
ASSUME ProgramsAssumption ==
    /\ Programs \subseteq
          [binding : {"static", "dynamic"}, scheds : SUBSET {"DT", "SG", "SPU"},
           levels : {1, 2}, memory : BOOLEAN,
           fill : [kind : {"with", "rows", "moler", "chol_diag", "hilbert", "none"},
                   start : Nat, scale : Nat]]
    /\ \A p \in Programs :
          /\ "SPU" \in p.scheds => "SG" \notin p.scheds /\ p.binding = "static"
          /\ p.memory => p.binding = "static"

\* The cuts divide the matrix.  The code truncates the size of a block: the rows
\* left over would belong to no block.
ASSUME ShapesAssumption ==
    \A s \in Shapes :
        /\ s.M \in Nat \ {0} /\ s.N \in Nat \ {0}
        /\ s.cut \in [1..2 -> (Nat \ {0}) \X (Nat \ {0})]
        /\ s.M % (s.cut[1][1] * s.cut[2][1]) = 0
        /\ s.N % (s.cut[1][2] * s.cut[2][2]) = 0

VARIABLES
    program, shape,
    step,        \* how many statements of the program have been reached
    calls,       \* the calls to be made
    partitioners, \* part_list: their cuts, and the next one of each
    data,        \* data[d]: the GData d, for those that exist
    content      \* content[a]: the element at address a, for those written

vars == <<program, shape, step, calls, partitioners, data, content>>

\* A data is the path of child indices from the root.
Root == <<>>
Level(d) == Len(d)
Child(d, i) == Append(d, i)
Parent(d) == Front(d)
\* The grid of blocks a data has been cut into.
Cut(d) == partitioners[data[d].partitioner].cut
Size(d) == data[d].rows * data[d].cols
Static == program.binding = "static"
Has(s) == s \in program.scheds

\* An address is a buffer and an offset.
Null == [buf |-> <<"null">>, ofs |-> 0]
Buffer(b) == [buf |-> b, ofs |-> 0]
Plus(a, n) == [a EXCEPT !.ofs = @ + n]
NoHandle == Buffer(<<"no handle">>)
NoPartitioner == 0
\* The addresses of the elements of d, when it lies at a.
CellsFrom(a, d) == {Plus(a, n) : n \in 0..Size(d) - 1}
Cells(d) == CellsFrom(data[d].memory, d)

\* The calls of the model.
New(d, m, n)      == [fn |-> "GData", d |-> d, rows |-> m, cols |-> n]
NewCut(cut)       == [fn |-> "GPartitioner", d |-> Root, cut |-> cut]
Link(P, Q)        == [fn |-> "set_next", d |-> Root, P |-> P, Q |-> Q]
Partition(d, P)   == [fn |-> "set_partition", d |-> d, P |-> P]
SetMemory(d, m)   == [fn |-> "set_memory", d |-> d, m |-> m]
Fill(d)           == [fn |-> "fill", d |-> d]
Created(s, d)     == [fn |-> "data_created", by |-> s, d |-> d]
Partitioned(s, d) == [fn |-> "data_partitioned", by |-> s, d |-> d]
MemorySet(d, m)   == [fn |-> "data_set_memory", d |-> d, m |-> m]

TypeOK ==
    /\ program \in Programs /\ shape \in Shapes
    /\ step \in 0..7
    /\ \A P \in DOMAIN partitioners : partitioners[P].next \in {NoPartitioner, P + 1}
    /\ \A i \in DOMAIN calls : \A l \in DOMAIN calls[i].d : calls[i].d[l] \in Nat
    /\ \A d \in DOMAIN data :
          /\ data[d].rows \in 1..shape.M /\ data[d].cols \in 1..shape.N
          /\ data[d].partitioner \in {NoPartitioner} \cup DOMAIN partitioners
          /\ data[d].guest \in {"none", "SG", "DT", "DTPart", "SPU"}
          /\ data[d].memory.ofs \in 0..shape.M * shape.N - 1
          /\ d # Root => Last(d) < data[Parent(d)].child_cnt

Init ==
    /\ program \in Programs
    /\ shape \in Shapes
    /\ step = 0
    /\ calls = <<>>
    /\ partitioners = <<>>
    /\ data = [d \in {} |-> Null]
    /\ content = [a \in {} |-> 0]

\* The data the next call is about, when it is a call of fn.
Calling(fn, d) == calls # <<>> /\ Head(calls).fn = fn /\ Head(calls).d = d
Told(fn, s, d) == Calling(fn, d) /\ Head(calls).by = s

\* The next call is replaced by those its body makes.
Makes(cs) == calls' = cs \o Tail(calls) /\ UNCHANGED <<program, shape, step>>

\* The elements at some addresses are written.
Write(cells) ==
    content' = [a \in DOMAIN cells \cup DOMAIN content |->
                   IF a \in DOMAIN cells THEN cells[a] ELSE content[a]]
-------------------------------------------------------------------------------
(* The program *)

\* A partitioner it makes and does not use leaves no trace.
Statements ==
    <<New(Root, shape.M, shape.N)>>
    \o [l \in 1..program.levels |-> NewCut(shape.cut[l])]
    \o (IF program.levels = 2 THEN <<Link(1, 2)>> ELSE <<>>)
    \o <<Partition(Root, 1)>>
    \o (IF program.memory THEN <<SetMemory(Root, Buffer(<<"user">>))>> ELSE <<>>)
    \o (IF program.fill.kind # "none" THEN <<Fill(Root)>> ELSE <<>>)

Statement ==
    /\ calls = <<>> /\ step < Len(Statements)
    /\ calls' = <<Statements[step + 1]>>
    /\ step' = step + 1
    /\ UNCHANGED <<program, shape, partitioners, data, content>>
-------------------------------------------------------------------------------
(* GPartitioner.  The schedulers do nothing when they are told. *)

NewPartitioner ==
    /\ Calling("GPartitioner", Root)
    /\ partitioners' = Append(partitioners, [cut |-> Head(calls).cut, next |-> NoPartitioner])
    /\ Makes(<<>>)

SetNext ==
    /\ Calling("set_next", Root)
    /\ partitioners' = [partitioners EXCEPT ![Head(calls).P].next = Head(calls).Q]
    /\ Makes(<<>>)

\* The partitioner that will cut the blocks P makes.
GetNext(P) == partitioners[P].next
-------------------------------------------------------------------------------
(* GData *)

\* The broadcasts reach the schedulers of the program in a fixed order, in the
\* dynamic variant that of the chain.
Tell(s, call) == IF Has(s) THEN <<call>> ELSE <<>>
TellCreated(d) ==
    IF Static
    THEN Tell("SG", Created("SG", d)) \o Tell("DT", Created("DT", d))
         \o Tell("SPU", Created("SPU", d))
    ELSE Tell("DT", Created("DT", d)) \o Tell("SG", Created("SG", d))
TellPartitioned(d) ==
    IF Static
    THEN Tell("SG", Partitioned("SG", d)) \o Tell("DT", Partitioned("DT", d))
    ELSE Tell("DT", Partitioned("DT", d)) \o Tell("SG", Partitioned("SG", d))

\* The constructor.
CreateData(d) ==
    /\ Calling("GData", d)
    /\ data' = [e \in DOMAIN data \cup {d} |->
                   IF e # d THEN data[e]
                   ELSE [rows |-> Head(calls).rows, cols |-> Head(calls).cols,
                         child_cnt |-> 0, partitioner |-> NoPartitioner,
                         memory |-> Null, guest |-> "none", handle |-> NoHandle]]
    /\ Makes(TellCreated(d))
    /\ UNCHANGED content

\* The children a partitioner makes, in their order, of the size it divides d into.
CutInto(P) == partitioners[P].cut[1] * partitioners[P].cut[2]
NewChildren(d, P) ==
    LET cut == partitioners[P].cut IN
    [i \in 1..CutInto(P) |->
        New(Child(d, i - 1), data[d].rows \div cut[1], data[d].cols \div cut[2])]

\* The next partitioner of the chain, if there is one, cuts the children.
Cascade(d, P) ==
    IF GetNext(P) = NoPartitioner THEN <<>>
    ELSE [i \in 1..CutInto(P) |-> Partition(Child(d, i - 1), GetNext(P))]

\* The schedulers are told when d has its children, before these have theirs.
SetPartition(d) ==
    LET P == Head(calls).P IN
    /\ Calling("set_partition", d)
    /\ data' = [data EXCEPT ![d].child_cnt = CutInto(P), ![d].partitioner = P]
    /\ Makes(NewChildren(d, P)
             \o TellPartitioned(d)
             \o Cascade(d, P))
    /\ UNCHANGED content

\* Fault: the children get the size of their parent.
SetMemoryStaticOfParent(d) ==
    LET m == Head(calls).m
        bz == IF m = Null THEN 0 ELSE Size(d)
    IN
    /\ Calling("set_memory", d) /\ Static
    /\ data' = [data EXCEPT ![d].memory = m]
    /\ Makes((IF Has("SPU") THEN <<MemorySet(d, m)>> ELSE <<>>)
             \o [i \in 1..data[d].child_cnt |-> SetMemory(Child(d, i - 1), Plus(m, (i - 1) * bz))])
    /\ UNCHANGED content

\* The static variant hands the memory down to the children, which exist by now.
SetMemoryStatic(d) ==
    LET m == Head(calls).m
        bz == IF m = Null THEN 0 ELSE Size(Child(d, 0))
    IN
    /\ Calling("set_memory", d) /\ Static
    /\ data' = [data EXCEPT ![d].memory = m]
    /\ Makes((IF Has("SPU") THEN <<MemorySet(d, m)>> ELSE <<>>)
             \o [i \in 1..data[d].child_cnt |-> SetMemory(Child(d, i - 1), Plus(m, (i - 1) * bz))])
    /\ UNCHANGED content

SetMemoryDynamic(d) ==
    /\ Calling("set_memory", d) /\ ~Static
    /\ data' = [data EXCEPT ![d].memory = Head(calls).m]
    /\ Makes(<<>>)
    /\ UNCHANGED content
-------------------------------------------------------------------------------
(* SuperGlue *)

GuestIfNone(d, g) ==
    data' = [data EXCEPT ![d].guest = IF @ = "none" THEN g ELSE @]

\* Fault: the offset is added to no memory, too.
SGCreatedUnchecked(d) ==
    /\ Told("data_created", "SG", d) /\ Static
    /\ GuestIfNone(d, "SG")
    /\ Makes(IF d = Root THEN <<>>
             ELSE <<SetMemory(d, Plus(data[Parent(d)].memory, Last(d) * Size(d)))>>)
    /\ UNCHANGED content

\* SG::data_created.  It would allocate the root's memory if SG::level were
\* zero: it is one with DuctTeip and -1 without.
SGCreated(d) ==
    /\ Told("data_created", "SG", d) /\ Static
    /\ GuestIfNone(d, "SG")
    /\ LET m == data[Parent(d)].memory IN
       Makes(IF d = Root THEN <<>>
             ELSE <<SetMemory(d, IF m = Null THEN m ELSE Plus(m, Last(d) * Size(d)))>>)
    /\ UNCHANGED content

\* SGWrapper::data_created allocates the root's memory and clears it.
SGWrapperCreated(d) ==
    /\ Told("data_created", "SG", d) /\ ~Static
    /\ GuestIfNone(d, "SG")
    /\ IF d = Root
       THEN /\ Makes(<<SetMemory(d, Buffer(<<"SG">>))>>)
            /\ Write([a \in CellsFrom(Buffer(<<"SG">>), d) |-> 0])
       ELSE /\ Makes(<<SetMemory(d, Plus(data[Parent(d)].memory, Last(d) * Size(d)))>>)
            /\ UNCHANGED content

\* for (i < by) for (j < bx) Call(i, j)
OverGrid(d, Call(_, _)) ==
    [k \in 1..data[d].child_cnt |-> Call((k - 1) \div Cut(d)[2], (k - 1) % Cut(d)[2])]

\* Fault: the columns of blocks are skipped by the width of the grid.
HandDownByWidth(d) ==
    OverGrid(d, LAMBDA i, j :
        SetMemory(Child(d, GetPart(i, j, Cut(d)[1])),
                  IF Static /\ data[d].memory = Null THEN Null
                  ELSE Plus(data[d].memory, GetPart(i, j, Cut(d)[2]) * Size(Child(d, 0)))))

\* Both variants of data_partitioned give block (i, j) its part of the memory,
\* the static one checks that there is memory.
HandDown(d) ==
    OverGrid(d, LAMBDA i, j :
        SetMemory(Child(d, GetPart(i, j, Cut(d)[1])),
                  IF Static /\ data[d].memory = Null THEN Null
                  ELSE Plus(data[d].memory, GetPart(i, j, Cut(d)[1]) * Size(Child(d, 0)))))

SGPartitioned(d) ==
    /\ Told("data_partitioned", "SG", d) /\ Static
    /\ Makes(IF Size(Child(d, 0)) = 1 \/ d = Root THEN <<>> ELSE HandDown(d))
    /\ UNCHANGED <<data, content>>

\* get_id() = 1: SuperGlue is the second scheduler of the chain.
SGWrapperPartitioned(d) ==
    /\ Told("data_partitioned", "SG", d) /\ ~Static
    /\ Makes(IF Size(Child(d, 0)) = 1 \/ (d = Root /\ Has("DT")) THEN <<>>
             ELSE HandDown(d))
    /\ UNCHANGED <<data, content>>
-------------------------------------------------------------------------------
(* DuctTeip.  Its blocks have memory of their own, getContentAddress(), on the *)
(* ranks that hold them.                                                       *)

\* A OneLevelData of its own for the data of the first two levels.
NewOneLevelData(d) ==
    /\ data' = IF Level(d) > 1 THEN data ELSE [data EXCEPT ![d].guest = "DT"]
    /\ Makes(<<>>)
    /\ UNCHANGED content

DTCreated(d) == Told("data_created", "DT", d) /\ Static /\ NewOneLevelData(d)
DTWrapperCreated(d) == Told("data_created", "DT", d) /\ ~Static /\ NewOneLevelData(d)

\* Fault: the blocks keep the data that was made when they were constructed.
LinkPartsToNone(d, held) ==
    /\ data' = data
    /\ Makes(OverGrid(d, LAMBDA i, j :
          LET c == GetPart(i, j, Cut(d)[1]) IN
          SetMemory(Child(d, c), IF c \in held THEN Buffer(<<"DT", c>>) ELSE Null)))

\* The blocks of DuctTeip's data become the guests of the root's children, which
\* get their memory.
LinkParts(d, held) ==
    /\ data' = [c \in DOMAIN data |->
                   IF Level(c) = 1 THEN [data[c] EXCEPT !.guest = "DTPart"] ELSE data[c]]
    /\ Makes(OverGrid(d, LAMBDA i, j :
          LET c == GetPart(i, j, Cut(d)[1]) IN
          SetMemory(Child(d, c), IF c \in held THEN Buffer(<<"DT", c>>) ELSE Null)))

\* DT::data_partitioned; `held` are the blocks this rank has memory of.
DTPartitioned(d) ==
    /\ Told("data_partitioned", "DT", d) /\ Static
    /\ \/ d = Root /\ \E held \in SUBSET (0..data[d].child_cnt - 1) : LinkParts(d, held)
       \/ Level(d) = 1 /\ Makes(<<SetMemory(d, data[d].memory)>>) /\ UNCHANGED data
       \/ Level(d) > 1 /\ Makes(<<>>) /\ UNCHANGED data
    /\ UNCHANGED content

\* SGWrapper does not check for memory: every block is taken to have some.
DTWrapperPartitioned(d) ==
    /\ Told("data_partitioned", "DT", d) /\ ~Static
    /\ IF d = Root THEN LinkParts(d, 0..data[d].child_cnt - 1)
       ELSE Makes(<<>>) /\ UNCHANGED data
    /\ UNCHANGED content
-------------------------------------------------------------------------------
(* StarPU *)

\* Below the levels that are DuctTeip's.
OfStarPU(d) == ~Has("DT") \/ Level(d) >= 2

\* The handle of a block that lies at m: the memory StarPU knows it by.  Blocks of
\* more than 2000 x 2000 elements, which are not registered, are left out.
\* register_mem does so whenever memory is set, the constructor of SPUData with
\* the memory the data has by then.
Registered(d, m) == IF m = Null THEN data[d].handle ELSE m
NewSPUData(d) == [data[d] EXCEPT !.guest = "SPU", !.handle = Registered(d, data[d].memory)]

SPUCreated(d) ==
    /\ Told("data_created", "SPU", d)
    /\ data' = IF OfStarPU(d) THEN [data EXCEPT ![d] = NewSPUData(d)] ELSE data
    /\ Makes(<<>>)
    /\ UNCHANGED content

\* Fault: a block that is registered stays where it is.
SPUSetMemoryOnce(d) ==
    LET m == Head(calls).m IN
    /\ Calling("data_set_memory", d)
    /\ data' = IF m # Null /\ d # Root /\ OfStarPU(d) /\ data[d].handle = NoHandle
               THEN [data EXCEPT ![d].handle = m] ELSE data
    /\ Makes(<<>>)
    /\ UNCHANGED content

SPUSetMemory(d) ==
    /\ Calling("data_set_memory", d)
    /\ data' = IF d # Root /\ OfStarPU(d)
               THEN [data EXCEPT ![d].handle = Registered(d, Head(calls).m)] ELSE data
    /\ Makes(<<>>)
    /\ UNCHANGED content
-------------------------------------------------------------------------------
(* The elements *)

\* fill_with(start, 0) fills the data and then each of its children.
FillWith(d) ==
    /\ Calling("fill", d) /\ program.fill.kind = "with"
    /\ IF data[d].memory = Null THEN UNCHANGED content
       ELSE Write([a \in Cells(d) |-> program.fill.start])
    /\ Makes([i \in 1..data[d].child_cnt |-> Fill(Child(d, i - 1))])
    /\ UNCHANGED data

\* fill_rows_with(start, scale), fill_moler, fill_chol_diag: element (i, j).
RowValue(i, j) == program.fill.start + i * program.fill.scale
MolerValue(i, j) == IF i = j THEN i + 1 ELSE (IF i < j THEN i ELSE j) - 1
CholDiagValue(i, j) == IF i = j THEN 1 ELSE -1
\* the denominator of fill_hilbert's
HilbertValue(i, j) == i + j + 1

Wanted(i, j) ==
    CASE program.fill.kind = "with"      -> program.fill.start
      [] program.fill.kind = "rows"      -> RowValue(i, j)
      [] program.fill.kind = "moler"     -> MolerValue(i, j)
      [] program.fill.kind = "chol_diag" -> CholDiagValue(i, j)
      [] program.fill.kind = "hilbert"   -> HilbertValue(i, j)

\* Fault: print shows every data by its columns.
ShownByColumns(d, i, j) == Plus(data[d].memory, ColumnMajor(i, j, data[d].rows))

\* print shows a data block by block, if it is cut.  It follows the cut of the
\* data itself and knows nothing of those of its children.
Shown(d, i, j) ==
    LET cut == IF data[d].child_cnt = 0 THEN <<1, 1>> ELSE Cut(d) IN
    Plus(data[d].memory,
         ElementOffset(i, j, data[d].rows \div cut[1], data[d].cols \div cut[2], cut[1]))

\* fill_hilbert stores by columns of the whole, the others block by block.
StoredAt(i, j) ==
    IF program.fill.kind = "hilbert" THEN ColumnMajor(i, j, shape.N)
    ELSE ElementOffset(i, j, shape.M \div Cut(Root)[1], shape.N \div Cut(Root)[2],
                       Cut(Root)[1])

Elements == (0..shape.M - 1) \X (0..shape.N - 1)

FillByElement(d) ==
    /\ Calling("fill", d) /\ program.fill.kind # "with"
    /\ IF data[d].memory = Null THEN UNCHANGED content
       ELSE LET At(e) == Plus(data[d].memory, StoredAt(e[1], e[2])) IN
            Write([a \in {At(e) : e \in Elements} |->
                      LET e == CHOOSE e \in Elements : At(e) = a IN Wanted(e[1], e[2])])
    /\ Makes(<<>>)
    /\ UNCHANGED data
-------------------------------------------------------------------------------
Terminated ==
    /\ calls = <<>> /\ step = Len(Statements)
    /\ UNCHANGED vars

Body(d) ==
    \/ CreateData(d) \/ SetPartition(d) \/ SetMemoryStatic(d) \/ SetMemoryDynamic(d)
    \/ SGCreated(d) \/ SGWrapperCreated(d) \/ SGPartitioned(d) \/ SGWrapperPartitioned(d)
    \/ DTCreated(d) \/ DTWrapperCreated(d) \/ DTPartitioned(d) \/ DTWrapperPartitioned(d)
    \/ SPUCreated(d) \/ SPUSetMemory(d)
    \/ FillWith(d) \/ FillByElement(d)

Next ==
    \/ Statement
    \/ (NewPartitioner \/ SetNext) /\ UNCHANGED <<data, content>>
    \/ calls # <<>> /\ Body(Head(calls).d) /\ UNCHANGED partitioners
    \/ Terminated

Spec == Init /\ [][Next]_vars
-------------------------------------------------------------------------------
(* Properties *)

\* A statement of the program is over.
AtRest == calls = <<>>

\* The scheduler that gets the tasks on the data of a level: the first one those
\* on the blocks, the second one those on the blocks of the blocks.
SchedulerOf(l) ==
    IF Has("DT") THEN (IF l = 1 THEN {"DT"} ELSE program.scheds \ {"DT"})
    ELSE IF l = 1 THEN program.scheds ELSE {}

\* A scheduler finds its own handle as the guest of the data its tasks name, and
\* DuctTeip the one of the block, not the one made before there was a block:
\* three broadcasts write the guest, and the last one wins.
GuestOfScheduler ==
    AtRest =>
        \A d \in DOMAIN data \ {Root} : \A s \in SchedulerOf(Level(d)) :
            data[d].guest = IF s = "DT" THEN "DTPart" ELSE s

\* The kernels run on the blocks of the level of the last scheduler.
KernelLevel == IF Cardinality(program.scheds) = 2 THEN 2 ELSE 1

Children(d) == {Child(d, i) : i \in 0..data[d].child_cnt - 1}

\* The program has set the memory of the whole.
SetByProgram == \E i \in 1..step : Statements[i].fn = "set_memory"

\* Down to the kernels' level, the blocks of a data that has memory share it out
\* between them, all of it and no two of them an element, whoever handed the
\* memory down last.  The root's memory and the one DuctTeip gives its blocks
\* have nothing to do with each other until the program sets the root's.
BlocksTileMemory ==
    AtRest =>
        \A d \in DOMAIN data :
            data[d].child_cnt > 0 /\ Level(d) < KernelLevel /\ data[d].memory # Null
                /\ (d = Root /\ Has("DT") => SetByProgram)
            => /\ UNION {Cells(c) : c \in Children(d)} = Cells(d)
               /\ \A b, c \in Children(d) : b # c => Cells(b) \cap Cells(c) = {}

\* No address is made up from the null pointer and an offset: a rank that does
\* not hold a block knows it by its memory being null.
NoWildPointer == \A d \in DOMAIN data : data[d].memory.buf = <<"null">> => data[d].memory = Null

\* StarPU transfers the memory the kernels work on: what is registered is where
\* the block is, also after the program has moved the whole.
RegisteredAtMemory ==
    AtRest /\ Has("SPU") =>
        \A d \in DOMAIN data \ {Root} :
            OfStarPU(d) /\ data[d].memory # Null => data[d].handle = data[d].memory

\* The row and the column of the whole at which a block begins.
Origin(d) ==
    LET from[l \in 0..Len(d)] ==
            IF l = 0 THEN <<0, 0>>
            ELSE LET b == SubSeq(d, 1, l)
                     rc == Coordination(d[l], shape.cut[l][1])
                 IN <<from[l - 1][1] + rc[1] * data[b].rows, from[l - 1][2] + rc[2] * data[b].cols>>
    IN from[Len(d)]

\* What the program has filled the matrix with is what the kernels read: element
\* (i, j) of a block, in columns of the block, is the element of the whole the
\* block's coordinates say.
KernelsSeeTheFill ==
    AtRest /\ step = Len(Statements) /\ program.fill.kind # "none" =>
        \A d \in DOMAIN data :
            Level(d) = KernelLevel /\ data[d].memory # Null =>
                \A i \in 0..data[d].rows - 1, j \in 0..data[d].cols - 1 :
                    LET a == Plus(data[d].memory, ColumnMajor(i, j, data[d].rows)) IN
                    a \in DOMAIN content
                    /\ content[a] = Wanted(Origin(d)[1] + i, Origin(d)[2] + j)

\* print of a data that has memory shows the elements the program has filled the
\* matrix with, each in its place, at every level: the fills are written once
\* through the root, and read through the memory and the cut of every block.
PrintShowsTheFill ==
    AtRest /\ step = Len(Statements) /\ program.fill.kind # "none" =>
        \A d \in DOMAIN data :
            data[d].memory # Null /\ Shown(d, 0, 0) \in DOMAIN content =>
                \A i \in 0..data[d].rows - 1, j \in 0..data[d].cols - 1 :
                    content[Shown(d, i, j)] = Wanted(Origin(d)[1] + i, Origin(d)[2] + j)
-------------------------------------------------------------------------------
(* The programs the two properties hold of *)

\* A fill by elements follows the cut of the whole.  Where the blocks are cut again,
\* the elements of one are found by nobody who knows its own cut only, unless they
\* are all the same.
SameValue(fill) == fill.kind = "with" \/ (fill.kind = "rows" /\ fill.scale = 0)

\* It writes through the memory of the whole, too, which with DuctTeip is that of the
\* blocks only if the program has set it.
FilledForKernels(p) ==
    \/ p.fill.kind \in {"with", "none"}
    \/ /\ p.fill.kind # "hilbert"
       /\ "DT" \in p.scheds => p.memory
       /\ p.levels = 1 \/ Cardinality(p.scheds) # 2 \/ SameValue(p.fill)

FilledForPrint(p) ==
    \/ p.fill.kind = "none"
    \/ p.fill.kind # "hilbert" /\ (p.levels = 1 \/ SameValue(p.fill))
===============================================================================
