---------------------------- MODULE DataTreeProof ----------------------------
(***************************************************************************)
(* Proofs about DataTree, for every program and every shape.               *)
(***************************************************************************)
EXTENDS DataTree, SequenceTheorems, FiniteSetTheorems, TLAPS

(* The tree of blocks *)

\* The blocks that partitioner l cuts a data into, and the size of a data of level l.
Count(l)  == shape.cut[l][1] * shape.cut[l][2]
RowsAt(l) ==
    CASE l = 0 -> shape.M
      [] l = 1 -> shape.M \div shape.cut[1][1]
      [] l = 2 -> (shape.M \div shape.cut[1][1]) \div shape.cut[2][1]
ColsAt(l) ==
    CASE l = 0 -> shape.N
      [] l = 1 -> shape.N \div shape.cut[1][2]
      [] l = 2 -> (shape.N \div shape.cut[1][2]) \div shape.cut[2][2]
SizeAt(l) == RowsAt(l) * ColsAt(l)

\* The data there can be.
Nodes == {d \in Seq(Nat) : Len(d) <= 2 /\ \A l \in 1..Len(d) : d[l] < Count(l)}

Pos == Nat \ {0}

\* Two cuts that divide leave nothing over, whether a thing is cut in one or in two
\* steps.
LEMMA CutTwice ==
    ASSUME NEW m \in Pos, NEW a \in Pos, NEW b \in Pos, m % (a * b) = 0
    PROVE  /\ m \div a \in Pos /\ a * (m \div a) = m
           /\ (m \div a) \div b \in Pos /\ b * ((m \div a) \div b) = m \div a
<1> DEFINE q == m \div (a * b)
<1>1. a * b \in Pos
    BY DEF Pos
<1>2. q \in Nat /\ m = (a * b) * q
    BY <1>1, SMT DEF Pos
<1> HIDE DEF q
<1>3. q \in Pos
    BY <1>1, <1>2, SMT DEF Pos
<1>4. b * q \in Pos /\ m = a * (b * q)
    BY <1>2, <1>3, SMT DEF Pos
<1>5. m \div a = b * q
    BY <1>4, SMT DEF Pos
<1>6. (b * q) \div b = q
    BY <1>3, SMT DEF Pos
<1> QED BY <1>3, <1>4, <1>5, <1>6 DEF Pos

\* Each level divides the one above it into its blocks.
LEMMA ShapeFacts ==
    ASSUME shape \in Shapes
    PROVE  /\ \A l \in 1..2 : shape.cut[l][1] \in Pos /\ shape.cut[l][2] \in Pos
           /\ \A l \in 1..2 : Count(l) \in Pos
           /\ \A l \in 0..2 : RowsAt(l) \in Pos /\ ColsAt(l) \in Pos /\ SizeAt(l) \in Pos
           /\ \A l \in 1..2 : RowsAt(l) = RowsAt(l - 1) \div shape.cut[l][1]
           /\ \A l \in 1..2 : ColsAt(l) = ColsAt(l - 1) \div shape.cut[l][2]
           /\ \A l \in 1..2 : shape.cut[l][1] * RowsAt(l) = RowsAt(l - 1)
           /\ \A l \in 1..2 : shape.cut[l][2] * ColsAt(l) = ColsAt(l - 1)
           /\ \A l \in 1..2 : Count(l) * SizeAt(l) = SizeAt(l - 1)
           /\ RowsAt(0) = shape.M /\ ColsAt(0) = shape.N
<1> DEFINE y(l) == shape.cut[l][1]
           x(l) == shape.cut[l][2]
           M == shape.M
           N == shape.N
<1>1. /\ M \in Pos /\ N \in Pos
      /\ \A l \in 1..2 : y(l) \in Pos /\ x(l) \in Pos
      /\ M % (y(1) * y(2)) = 0 /\ N % (x(1) * x(2)) = 0
    BY ShapesAssumption DEF Pos
<1>2. y(1) \in Pos /\ x(1) \in Pos /\ y(2) \in Pos /\ x(2) \in Pos
    BY <1>1
<1>3. /\ M \div y(1) \in Pos /\ y(1) * (M \div y(1)) = M
      /\ (M \div y(1)) \div y(2) \in Pos
      /\ y(2) * ((M \div y(1)) \div y(2)) = M \div y(1)
  <2> HIDE DEF y, M
  <2> QED BY <1>1, <1>2, CutTwice
<1>4. /\ N \div x(1) \in Pos /\ x(1) * (N \div x(1)) = N
      /\ (N \div x(1)) \div x(2) \in Pos
      /\ x(2) * ((N \div x(1)) \div x(2)) = N \div x(1)
  <2> HIDE DEF x, N
  <2> QED BY <1>1, <1>2, CutTwice
<1>5. /\ RowsAt(0) = M /\ RowsAt(1) = M \div y(1) /\ RowsAt(2) = (M \div y(1)) \div y(2)
      /\ ColsAt(0) = N /\ ColsAt(1) = N \div x(1) /\ ColsAt(2) = (N \div x(1)) \div x(2)
    BY DEF RowsAt, ColsAt
<1>6. /\ RowsAt(0) \in Pos /\ RowsAt(1) \in Pos /\ RowsAt(2) \in Pos
      /\ ColsAt(0) \in Pos /\ ColsAt(1) \in Pos /\ ColsAt(2) \in Pos
  <2> HIDE DEF y, x, M, N
  <2> QED BY <1>1, <1>3, <1>4, <1>5
<1>7. /\ y(1) * RowsAt(1) = RowsAt(0) /\ y(2) * RowsAt(2) = RowsAt(1)
      /\ x(1) * ColsAt(1) = ColsAt(0) /\ x(2) * ColsAt(2) = ColsAt(1)
      /\ RowsAt(1) = RowsAt(0) \div y(1) /\ RowsAt(2) = RowsAt(1) \div y(2)
      /\ ColsAt(1) = ColsAt(0) \div x(1) /\ ColsAt(2) = ColsAt(1) \div x(2)
  <2> HIDE DEF y, x, M, N
  <2> QED BY <1>3, <1>4, <1>5
<1>8. \A r, c, p, q \in Pos : (p * q) * (r * c) = (p * r) * (q * c) /\ p * q \in Pos
    BY DEF Pos
<1>9. \A l \in 1..2 : Count(l) = y(l) * x(l)
    BY DEF Count
<1>10. \A l \in 0..2 : SizeAt(l) = RowsAt(l) * ColsAt(l)
    BY DEF SizeAt
<1>11. /\ SizeAt(0) \in Pos /\ SizeAt(1) \in Pos /\ SizeAt(2) \in Pos
       /\ Count(1) \in Pos /\ Count(2) \in Pos
  <2> HIDE DEF y, x
  <2> QED BY <1>2, <1>6, <1>8, <1>9, <1>10
<1>12. Count(1) * SizeAt(1) = SizeAt(0)
  <2> HIDE DEF y, x
  <2> QED BY <1>2, <1>6, <1>7, <1>8, <1>9, <1>10
<1>13. Count(2) * SizeAt(2) = SizeAt(1)
  <2> HIDE DEF y, x
  <2> QED BY <1>2, <1>6, <1>7, <1>8, <1>9, <1>10
<1>14. \A l \in 1..2 : l = 1 \/ l = 2
    OBVIOUS
<1>15. \A l \in 0..2 : l = 0 \/ l = 1 \/ l = 2
    OBVIOUS
<1>16. \A l \in 1..2 : /\ RowsAt(l) = RowsAt(l - 1) \div y(l)
                       /\ ColsAt(l) = ColsAt(l - 1) \div x(l)
                       /\ y(l) * RowsAt(l) = RowsAt(l - 1)
                       /\ x(l) * ColsAt(l) = ColsAt(l - 1)
                       /\ Count(l) * SizeAt(l) = SizeAt(l - 1)
  <2> TAKE l \in 1..2
  <2>1. CASE l = 1
    <3> HIDE DEF y, x
    <3> QED BY <2>1, <1>7, <1>12
  <2>2. CASE l = 2
    <3> HIDE DEF y, x
    <3> QED BY <2>2, <1>7, <1>13
  <2> QED BY <2>1, <2>2, <1>14
<1> QED BY <1>1, <1>5, <1>6, <1>11, <1>14, <1>15, <1>16

(* Types *)

Buffers == {<<"null">>, <<"no handle">>, <<"user">>, <<"SG">>} \cup {<<"DT", c>> : c \in Nat}
Addresses == [buf : Buffers, ofs : Nat]
Tame(m) == m.buf = <<"null">> => m = Null
\* Where a data of level l may lie: nowhere, or within a buffer of the size of the whole.
Place(l) == {m \in Addresses : Tame(m) /\ m.ofs + SizeAt(l) <= SizeAt(0)}

Guests == {"none", "SG", "DT", "DTPart", "SPU"}
Datum == [rows : Nat, cols : Nat, child_cnt : Nat, partitioner : Nat,
          memory : Addresses, guest : Guests, handle : Addresses]
Scheds == {"DT", "SG", "SPU"}

CallTypes ==
         [fn : {"GData"}, d : Nodes, rows : Nat, cols : Nat]
    \cup [fn : {"GPartitioner"}, d : Nodes, cut : Pos \X Pos]
    \cup [fn : {"set_next"}, d : Nodes, P : {1}, Q : {2}]
    \cup [fn : {"set_partition"}, d : Nodes, P : {1, 2}]
    \cup [fn : {"set_memory", "data_set_memory"}, d : Nodes, m : Addresses]
    \cup [fn : {"data_created", "data_partitioned"}, by : Scheds, d : Nodes]
    \cup [fn : {"fill"}, d : Nodes]

(* The calls that are pending *)

Members(q) == {q[i] : i \in 1..Len(q)}
Pending == Members(calls)

\* The calls come in this order: StarPU is told of memory that has been set, memory is
\* set, the schedulers are told of the data that is being made, its siblings are made,
\* the schedulers are told of the data that has been cut, others are cut.
Rank(c) ==
    CASE c.fn = "data_set_memory" -> 0
      [] c.fn = "set_memory" -> 1
      [] c.fn = "data_created" -> 2
      [] c.fn = "GData" -> 3
      [] c.fn = "data_partitioned" -> 4
      [] OTHER -> 5
Sorted(q) == \A i, j \in 1..Len(q) : i < j => Rank(q[i]) <= Rank(q[j])

\* A data is made once and cut once.
Alike(c, e) == c.fn \in {"GData", "set_partition"} /\ c.fn = e.fn /\ c.d = e.d
Distinct(q) == \A i, j \in 1..Len(q) : i # j => ~Alike(q[i], q[j])

\* Partitioners are made and linked by the program alone.
Alone(q) ==
    \A i \in 1..Len(q) : q[i].fn \in {"GPartitioner", "set_next"} => Len(q) = 1

Ordered(q) == Sorted(q) /\ Distinct(q) /\ Alone(q)

(* What is there when a call is made *)

Coming(d) == \E c \in Pending : c.fn = "GData" /\ c.d = d
Made(d) == d \in DOMAIN data \/ Coming(d)
Attached(d) ==
    \/ d = Root
    \/ Parent(d) \in DOMAIN data /\ data[Parent(d)].partitioner = Level(d)
\* All children of d are there.
NoneComing == \A c \in Pending : c.fn # "GData"
Settled(d) == data[d].child_cnt = 0 \/ NoneComing

CallOK(c) ==
    /\ c.fn = "GData" =>
          /\ c.d \notin DOMAIN data /\ Attached(c.d)
          /\ c.rows = RowsAt(Level(c.d)) /\ c.cols = ColsAt(Level(c.d))
    /\ c.fn = "set_next" => 2 \in DOMAIN partitioners
    /\ c.fn = "set_partition" =>
          /\ Made(c.d) /\ (c.d \in DOMAIN data => data[c.d].partitioner = 0)
          /\ c.P = Level(c.d) + 1 /\ c.P \in DOMAIN partitioners
    /\ c.fn \in {"set_memory", "data_set_memory"} =>
          c.d \in DOMAIN data /\ c.m \in Place(Level(c.d)) /\ Settled(c.d)
    /\ c.fn \in {"data_created", "data_partitioned"} => c.by \in program.scheds
    /\ c.fn = "data_created" => c.d \in DOMAIN data /\ data[c.d].partitioner = 0
    /\ c.fn = "data_partitioned" => c.d \in DOMAIN data /\ data[c.d].partitioner # 0
    /\ c.fn = "fill" => c.d \in DOMAIN data
CallsOK == calls \in Seq(CallTypes) /\ Ordered(calls) /\ \A c \in Pending : CallOK(c)

(* What there is *)

PartitionersOK ==
    /\ partitioners \in Seq([cut : Pos \X Pos, next : Nat])
    /\ Len(partitioners) <= program.levels
    /\ \A P \in 1..Len(partitioners) :
          /\ partitioners[P].cut = shape.cut[P]
          /\ \/ partitioners[P].next = NoPartitioner
             \/ partitioners[P].next = P + 1 /\ P + 1 \in 1..Len(partitioners)

DatumOK(d) ==
    /\ data[d].rows = RowsAt(Level(d)) /\ data[d].cols = ColsAt(Level(d))
    /\ data[d].memory \in Place(Level(d))
    /\ Attached(d)
    /\ \/ data[d].partitioner = NoPartitioner /\ data[d].child_cnt = 0
       \/ /\ data[d].partitioner = Level(d) + 1 /\ Level(d) + 1 \in 1..Len(partitioners)
          /\ data[d].child_cnt = Count(Level(d) + 1)
          /\ \A k \in 0..data[d].child_cnt - 1 : Made(Child(d, k))
DataOK ==
    /\ DOMAIN data \subseteq Nodes /\ data \in [DOMAIN data -> Datum]
    /\ \A d \in DOMAIN data : DatumOK(d)

(* How far the program is *)

PartitionStep == 2 * program.levels + 1
Cuts ==
    IF step <= 1 THEN 0 ELSE IF step <= program.levels THEN step - 1 ELSE program.levels
Cutting == \E c \in Pending : c.fn = "GPartitioner"

Phase ==
    /\ step \in 0..Len(Statements)
    /\ step = 0 => calls = <<>> /\ DOMAIN data = {}
    /\ step >= 1 => Made(Root)
    /\ Cutting => Len(partitioners) = Cuts - 1
    /\ ~Cutting => Len(partitioners) = Cuts
    /\ \A c \in Pending : c.fn = "GPartitioner" => c.cut = shape.cut[Cuts]
    /\ step < PartitionStep =>
          /\ \A c \in Pending : c.fn # "set_partition"
          /\ \A d \in DOMAIN data : data[d].partitioner = NoPartitioner

Tree ==
    /\ program \in Programs /\ shape \in Shapes
    /\ PartitionersOK /\ DataOK /\ CallsOK /\ Phase

\* In the dynamic variant SuperGlue adds to the memory of a data without a check: the
\* data has some, or gets it before its children do.
Allocates(c) ==
    \/ c.fn = "set_memory"
    \/ c.fn = "data_created" /\ c.by = "SG"
Allocated ==
    ~Static /\ Has("SG") =>
        /\ \A c \in Pending : c.fn = "set_memory" => c.m # Null
        /\ \A c \in Pending :
              c.fn = "data_created" /\ c.d # Root => data[Parent(c.d)].memory # Null
        /\ \A d \in DOMAIN data :
              \/ data[d].memory # Null
              \/ \E c \in Pending : c.d = d /\ Allocates(c)

(* Sequences of calls *)

\* What is in a sequence that is put together, and in one that is taken apart.
LEMMA MembersConcat ==
    ASSUME NEW S, NEW p \in Seq(S), NEW q \in Seq(S)
    PROVE  p \o q \in Seq(S) /\ Members(p \o q) = Members(p) \cup Members(q)
<1>1. /\ p \o q \in Seq(S) /\ Len(p \o q) = Len(p) + Len(q)
      /\ Len(p) \in Nat /\ Len(q) \in Nat
      /\ \A i \in 1..Len(p) + Len(q) :
            (p \o q)[i] = IF i <= Len(p) THEN p[i] ELSE q[i - Len(p)]
    BY ConcatProperties, LenProperties
<1>2. ASSUME NEW i \in 1..Len(p)
      PROVE  i \in 1..Len(p \o q) /\ (p \o q)[i] = p[i]
    BY <1>1
<1>3. ASSUME NEW i \in 1..Len(q)
      PROVE  i + Len(p) \in 1..Len(p \o q) /\ (p \o q)[i + Len(p)] = q[i]
    BY <1>1
<1>4. ASSUME NEW i \in 1..Len(p \o q)
      PROVE  \/ i \in 1..Len(p) /\ (p \o q)[i] = p[i]
             \/ i - Len(p) \in 1..Len(q) /\ (p \o q)[i] = q[i - Len(p)]
    BY <1>1
<1>5. Members(p \o q) \subseteq Members(p) \cup Members(q)
    BY <1>4 DEF Members
<1>6. Members(p) \subseteq Members(p \o q)
    BY <1>2 DEF Members
<1>7. Members(q) \subseteq Members(p \o q)
    BY <1>3 DEF Members
<1> QED BY <1>1, <1>5, <1>6, <1>7

\* The first call and the others.
LEMMA HeadAndTail ==
    ASSUME NEW S, NEW q \in Seq(S), q # <<>>
    PROVE  /\ Head(q) \in Members(q) /\ Head(q) \in S
           /\ Tail(q) \in Seq(S) /\ Members(q) = {Head(q)} \cup Members(Tail(q))
<1>1. /\ Head(q) = q[1] /\ Len(q) \in Nat /\ Len(q) # 0 /\ Head(q) \in S
      /\ Tail(q) \in Seq(S) /\ Len(Tail(q)) = Len(q) - 1
      /\ \A i \in 1..Len(Tail(q)) : Tail(q)[i] = q[i + 1]
  <2>1. Head(q) = q[1]
      OBVIOUS
  <2> QED BY <2>1, HeadTailProperties, LenProperties, EmptySeq
<1>2. 1 \in 1..Len(q)
    BY <1>1
<1>3. \A i \in 1..Len(q) : i = 1 \/ i - 1 \in 1..Len(Tail(q))
    BY <1>1
<1>4. \A i \in 1..Len(Tail(q)) : i + 1 \in 1..Len(q)
    BY <1>1
<1>5. \A i \in 1..Len(q) : i = 1 \/ q[i] = Tail(q)[i - 1]
    BY <1>1, <1>3
<1>6. Members(q) \subseteq {Head(q)} \cup Members(Tail(q))
    BY <1>1, <1>3, <1>5 DEF Members
<1>7. Members(Tail(q)) \subseteq Members(q)
    BY <1>1, <1>4 DEF Members
<1>8. Head(q) \in Members(q)
    BY <1>1, <1>2 DEF Members
<1> QED BY <1>1, <1>6, <1>7, <1>8

\* The empty sequence has no members.
LEMMA NoMembers == Members(<<>>) = {}
BY DEF Members

\* The calls after the first one are in order, and none of them comes before it.
LEMMA OrderedTail ==
    ASSUME NEW S, NEW q \in Seq(S), q # <<>>, Ordered(q)
    PROVE  /\ Ordered(Tail(q))
           /\ \A c \in Members(Tail(q)) : Rank(Head(q)) <= Rank(c) /\ ~Alike(Head(q), c)
           /\ \A c \in Members(Tail(q)) : c.fn \notin {"GPartitioner", "set_next"}
           /\ Head(q).fn \in {"GPartitioner", "set_next"} => Tail(q) = <<>>
<1>1. /\ Head(q) = q[1] /\ Len(q) \in Nat /\ Len(q) # 0
      /\ Tail(q) \in Seq(S) /\ Len(Tail(q)) = Len(q) - 1
      /\ \A i \in 1..Len(Tail(q)) : Tail(q)[i] = q[i + 1]
  <2>1. Head(q) = q[1]
      OBVIOUS
  <2>2. Len(q) \in Nat /\ Len(q) # 0
      BY LenProperties, EmptySeq
  <2> QED BY <2>1, <2>2, HeadTailProperties
<1>2. 1 \in 1..Len(q)
    BY <1>1
<1>3. \A i \in 1..Len(Tail(q)) : i + 1 \in 1..Len(q) /\ 1 < i + 1
    BY <1>1
<1>4. Sorted(Tail(q))
    BY <1>1, <1>3 DEF Ordered, Sorted
<1>5. Distinct(Tail(q))
    BY <1>1, <1>3 DEF Ordered, Distinct
<1>6. \A i \in 1..Len(Tail(q)) : Tail(q)[i].fn \notin {"GPartitioner", "set_next"}
    BY <1>1, <1>3 DEF Ordered, Alone
<1>7. Alone(Tail(q))
    BY <1>6 DEF Alone
<1>8. \A i \in 1..Len(Tail(q)) :
          Rank(Head(q)) <= Rank(Tail(q)[i]) /\ ~Alike(Head(q), Tail(q)[i])
    BY <1>1, <1>2, <1>3 DEF Ordered, Sorted, Distinct
<1>9. Head(q).fn \in {"GPartitioner", "set_next"} => Tail(q) = <<>>
    BY <1>1, <1>2, EmptySeq DEF Ordered, Alone
<1> QED BY <1>4, <1>5, <1>6, <1>7, <1>8, <1>9 DEF Ordered, Members

\* Calls in order may be made before others in order, if none of these belongs
\* before one of them and nothing is made or cut twice.
LEMMA OrderedConcat ==
    ASSUME NEW S, NEW p \in Seq(S), NEW q \in Seq(S), Ordered(p), Ordered(q),
           \A c \in Members(p), e \in Members(q) : Rank(c) <= Rank(e) /\ ~Alike(c, e),
           \A c \in Members(p) : c.fn \notin {"GPartitioner", "set_next"},
           \A c \in Members(q) : c.fn \notin {"GPartitioner", "set_next"}
    PROVE  Ordered(p \o q)
<1>1. /\ Len(p \o q) = Len(p) + Len(q) /\ Len(p) \in Nat /\ Len(q) \in Nat
      /\ \A i \in 1..Len(p) + Len(q) :
            (p \o q)[i] = IF i <= Len(p) THEN p[i] ELSE q[i - Len(p)]
    BY ConcatProperties, LenProperties
<1>2. ASSUME NEW i \in 1..Len(p \o q)
      PROVE  \/ i \in 1..Len(p) /\ (p \o q)[i] = p[i]
             \/ i - Len(p) \in 1..Len(q) /\ (p \o q)[i] = q[i - Len(p)] /\ i > Len(p)
    BY <1>1
<1>3. ASSUME NEW i \in 1..Len(p), NEW j \in 1..Len(q)
      PROVE  /\ Rank(p[i]) <= Rank(q[j]) /\ ~Alike(p[i], q[j]) /\ ~Alike(q[j], p[i])
    BY DEF Members, Alike
<1>4. \A i \in 1..Len(p \o q) : i \in Int
    OBVIOUS
<1>5. Sorted(p \o q)
  <2> SUFFICES ASSUME NEW i \in 1..Len(p \o q), NEW j \in 1..Len(p \o q), i < j
               PROVE  Rank((p \o q)[i]) <= Rank((p \o q)[j])
      BY DEF Sorted
  <2>1. CASE j \in 1..Len(p) /\ (p \o q)[j] = p[j]
    <3>1. i \in 1..Len(p) /\ (p \o q)[i] = p[i]
        BY <2>1, <1>1, <1>2
    <3> QED BY <2>1, <3>1 DEF Ordered, Sorted
  <2>2. CASE j - Len(p) \in 1..Len(q) /\ (p \o q)[j] = q[j - Len(p)]
    <3>1. CASE i \in 1..Len(p) /\ (p \o q)[i] = p[i]
        BY <2>2, <3>1, <1>3
    <3>2. CASE i - Len(p) \in 1..Len(q) /\ (p \o q)[i] = q[i - Len(p)]
      <4>1. i - Len(p) < j - Len(p)
          BY <1>1
      <4> QED BY <2>2, <3>2, <4>1 DEF Ordered, Sorted
    <3> QED BY <3>1, <3>2, <1>2
  <2> QED BY <2>1, <2>2, <1>2
<1>6. Distinct(p \o q)
  <2> SUFFICES ASSUME NEW i \in 1..Len(p \o q), NEW j \in 1..Len(p \o q), i # j
               PROVE  ~Alike((p \o q)[i], (p \o q)[j])
      BY DEF Distinct
  <2>1. CASE i \in 1..Len(p) /\ (p \o q)[i] = p[i]
    <3>1. CASE j \in 1..Len(p) /\ (p \o q)[j] = p[j]
        BY <2>1, <3>1 DEF Ordered, Distinct
    <3>2. CASE j - Len(p) \in 1..Len(q) /\ (p \o q)[j] = q[j - Len(p)]
        BY <2>1, <3>2, <1>3
    <3> QED BY <3>1, <3>2, <1>2
  <2>2. CASE i - Len(p) \in 1..Len(q) /\ (p \o q)[i] = q[i - Len(p)]
    <3>1. CASE j \in 1..Len(p) /\ (p \o q)[j] = p[j]
        BY <2>2, <3>1, <1>3
    <3>2. CASE j - Len(p) \in 1..Len(q) /\ (p \o q)[j] = q[j - Len(p)]
      <4>1. i - Len(p) # j - Len(p)
          BY <1>1
      <4> QED BY <2>2, <3>2, <4>1 DEF Ordered, Distinct
    <3> QED BY <3>1, <3>2, <1>2
  <2> QED BY <2>1, <2>2, <1>2
<1>7. Alone(p \o q)
  <2>1. \A i \in 1..Len(p \o q) : (p \o q)[i] \in Members(p) \cup Members(q)
      BY <1>2 DEF Members
  <2> QED BY <2>1 DEF Alone
<1> QED BY <1>5, <1>6, <1>7 DEF Ordered

(* The paths *)

\* A child is a node, one level down, and knows its parent and its index.
LEMMA ChildFacts ==
    ASSUME NEW d \in Nodes, NEW k \in Nat
    PROVE  /\ Child(d, k) \in Seq(Nat) /\ Child(d, k) # Root
           /\ Level(Child(d, k)) = Level(d) + 1 /\ Level(d) \in 0..2
           /\ Parent(Child(d, k)) = d /\ Last(Child(d, k)) = k
           /\ Level(d) <= 1 /\ k < Count(Level(d) + 1) => Child(d, k) \in Nodes
           /\ \A e \in Nodes, l \in Nat : Child(d, k) = Child(e, l) => d = e /\ k = l
<1>1. d \in Seq(Nat) /\ Len(d) \in Nat /\ Len(d) <= 2 /\ \A l \in 1..Len(d) : d[l] < Count(l)
    BY LenProperties DEF Nodes
<1>2. /\ Child(d, k) \in Seq(Nat) /\ Len(Child(d, k)) = Len(d) + 1
      /\ \A i \in 1..Len(d) : Child(d, k)[i] = d[i]
      /\ Child(d, k)[Len(d) + 1] = k
    BY <1>1, AppendProperties DEF Child
<1>3. Child(d, k) # Root
    BY <1>1, <1>2 DEF Root
<1>4. Parent(Child(d, k)) = d /\ Last(Child(d, k)) = k
    BY <1>1 DEF Parent, Child, Last, Front
<1>5. ASSUME Level(d) <= 1, k < Count(Level(d) + 1)
      PROVE  Child(d, k) \in Nodes
  <2>1. ASSUME NEW i \in 1..Len(d) + 1
        PROVE  Child(d, k)[i] < Count(i)
      BY <1>1, <1>2, <1>5 DEF Level
  <2> QED BY <1>1, <1>2, <1>5, <2>1 DEF Nodes, Level
<1>6. ASSUME NEW e \in Nodes, NEW l \in Nat, Child(d, k) = Child(e, l)
      PROVE  d = e /\ k = l
  <2>1. Parent(Child(e, l)) = e /\ Last(Child(e, l)) = l
    <3>1. e \in Seq(Nat)
        BY DEF Nodes
    <3> QED BY <3>1 DEF Parent, Child, Last, Front
  <2> QED BY <2>1, <1>4, <1>6
<1>7. Level(Child(d, k)) = Level(d) + 1
    BY <1>2 DEF Level
<1>8. Level(d) \in 0..2
  <2>1. Len(d) \in Nat /\ Len(d) <= 2
      BY <1>1
  <2>2. \A n \in Nat : n <= 2 => n \in 0..2
      OBVIOUS
  <2> QED BY <2>1, <2>2, Zenon DEF Level
<1> QED BY <1>2, <1>3, <1>4, <1>5, <1>6, <1>7, <1>8

\* A node that is not the root is a child of its parent.
LEMMA ParentFacts ==
    ASSUME NEW d \in Nodes, d # Root
    PROVE  /\ Parent(d) \in Nodes /\ Level(Parent(d)) = Level(d) - 1 /\ Level(d) \in 1..2
           /\ Last(d) \in Nat /\ Last(d) < Count(Level(d))
           /\ d = Child(Parent(d), Last(d))
<1>1. d \in Seq(Nat) /\ Len(d) \in Nat /\ Len(d) <= 2 /\ \A l \in 1..Len(d) : d[l] < Count(l)
    BY LenProperties DEF Nodes
<1>2. Len(d) # 0
    BY <1>1, EmptySeq DEF Root
<1>3. /\ Parent(d) \in Seq(Nat) /\ Len(Parent(d)) = Len(d) - 1
      /\ \A i \in 1..Len(d) - 1 : Parent(d)[i] = d[i]
  <2> DEFINE n == Len(d) - 1
  <2>1. n \in Nat /\ 1 \in Int /\ n \in Int
      BY <1>1, <1>2
  <2>2. \A i \in 1..n : i \in 1..Len(d)
      BY <1>1
  <2>3. \A i \in 1..n : d[i] \in Nat
      BY <1>1, <2>2, ElementOfSeq
  <2> HIDE DEF n
  <2>4. /\ SubSeq(d, 1, n) \in Seq(Nat)
        /\ Len(SubSeq(d, 1, n)) = IF 1 <= n THEN n - 1 + 1 ELSE 0
        /\ \A i \in 1..n - 1 + 1 : SubSeq(d, 1, n)[i] = d[1 + i - 1]
      BY <2>1, <2>3, SubSeqProperties
  <2>5. /\ Len(SubSeq(d, 1, n)) = n
        /\ \A i \in 1..n : SubSeq(d, 1, n)[i] = d[i]
      BY <2>1, <2>4
  <2> QED BY <2>4, <2>5 DEF Parent, Front, n
<1>4. Parent(d) \in Nodes
    BY <1>1, <1>2, <1>3 DEF Nodes
<1>5. Last(d) = d[Len(d)] /\ Last(d) \in Nat /\ Last(d) < Count(Len(d))
  <2>1. Len(d) \in 1..Len(d)
      BY <1>1, <1>2
  <2> QED BY <1>1, <2>1, ElementOfSeq DEF Last
<1>6. d = Child(Parent(d), Last(d))
  <2>1. /\ Child(Parent(d), Last(d)) \in Seq(Nat)
        /\ Len(Child(Parent(d), Last(d))) = Len(d)
        /\ \A i \in 1..Len(d) - 1 : Child(Parent(d), Last(d))[i] = d[i]
        /\ Child(Parent(d), Last(d))[Len(d)] = d[Len(d)]
    <3> DEFINE p == Parent(d)
               k == Last(d)
    <3>1. p \in Seq(Nat) /\ k \in Nat /\ Len(p) = Len(d) - 1
        BY <1>3, <1>5
    <3>2. k = d[Len(d)] /\ \A i \in 1..Len(d) - 1 : p[i] = d[i]
        BY <1>3, <1>5
    <3> HIDE DEF p, k
    <3>3. /\ Append(p, k) \in Seq(Nat) /\ Len(Append(p, k)) = Len(p) + 1
          /\ \A i \in 1..Len(p) : Append(p, k)[i] = p[i]
          /\ Append(p, k)[Len(p) + 1] = k
        BY <3>1, AppendProperties
    <3>4. Len(p) + 1 = Len(d)
        BY <3>1, <1>1
    <3>5. /\ Append(p, k) \in Seq(Nat) /\ Len(Append(p, k)) = Len(d)
          /\ \A i \in 1..Len(d) - 1 : Append(p, k)[i] = d[i]
          /\ Append(p, k)[Len(d)] = d[Len(d)]
        BY <3>1, <3>2, <3>3, <3>4
    <3> QED BY <3>5 DEF Child, p, k
  <2>2. \A i \in 1..Len(d) : i = Len(d) \/ i \in 1..Len(d) - 1
      BY <1>1
  <2>3. \A i \in 1..Len(d) : Child(Parent(d), Last(d))[i] = d[i]
      BY <2>1, <2>2
  <2> QED BY <1>1, <2>1, <2>3, SeqEqual
<1> QED BY <1>1, <1>2, <1>3, <1>4, <1>5, <1>6 DEF Level

(* Calls *)

Fns == {"GData", "GPartitioner", "set_next", "set_partition", "set_memory",
        "data_set_memory", "data_created", "data_partitioned", "fill"}

\* What a call carries.
LEMMA CallFields ==
    ASSUME NEW c \in CallTypes
    PROVE  /\ c.fn \in Fns /\ c.d \in Nodes
           /\ c.fn = "GData" => c.rows \in Nat /\ c.cols \in Nat
           /\ c.fn = "GPartitioner" => c.cut \in Pos \X Pos
           /\ c.fn = "set_next" => c.P = 1 /\ c.Q = 2
           /\ c.fn = "set_partition" => c.P \in {1, 2}
           /\ c.fn \in {"set_memory", "data_set_memory"} => c.m \in Addresses
           /\ c.fn \in {"data_created", "data_partitioned"} => c.by \in Scheds
<1> HIDE DEF Nodes, Addresses, Scheds, Pos
<1>1. CASE c \in [fn : {"GData"}, d : Nodes, rows : Nat, cols : Nat]
    BY <1>1 DEF Fns
<1>2. CASE c \in [fn : {"GPartitioner"}, d : Nodes, cut : Pos \X Pos]
    BY <1>2 DEF Fns
<1>3. CASE c \in [fn : {"set_next"}, d : Nodes, P : {1}, Q : {2}]
    BY <1>3 DEF Fns
<1>4. CASE c \in [fn : {"set_partition"}, d : Nodes, P : {1, 2}]
    BY <1>4 DEF Fns
<1>5. CASE c \in [fn : {"set_memory", "data_set_memory"}, d : Nodes, m : Addresses]
    BY <1>5 DEF Fns
<1>6. CASE c \in [fn : {"data_created", "data_partitioned"}, by : Scheds, d : Nodes]
    BY <1>6 DEF Fns
<1>7. CASE c \in [fn : {"fill"}, d : Nodes]
    BY <1>7 DEF Fns
<1> QED BY <1>1, <1>2, <1>3, <1>4, <1>5, <1>6, <1>7 DEF CallTypes

\* The calls that the bodies make.
LEMMA CallsMade ==
    ASSUME NEW d \in Nodes
    PROVE  /\ \A m, n \in Nat :
                 /\ New(d, m, n) \in CallTypes /\ New(d, m, n).fn = "GData"
                 /\ New(d, m, n).d = d
                 /\ New(d, m, n).rows = m /\ New(d, m, n).cols = n
           /\ \A P \in {1, 2} :
                 /\ Partition(d, P) \in CallTypes /\ Partition(d, P).fn = "set_partition"
                 /\ Partition(d, P).d = d /\ Partition(d, P).P = P
           /\ \A m \in Addresses :
                 /\ SetMemory(d, m) \in CallTypes /\ SetMemory(d, m).fn = "set_memory"
                 /\ SetMemory(d, m).d = d /\ SetMemory(d, m).m = m
                 /\ MemorySet(d, m) \in CallTypes /\ MemorySet(d, m).fn = "data_set_memory"
                 /\ MemorySet(d, m).d = d /\ MemorySet(d, m).m = m
           /\ \A s \in Scheds :
                 /\ Created(s, d) \in CallTypes /\ Created(s, d).fn = "data_created"
                 /\ Created(s, d).d = d /\ Created(s, d).by = s
                 /\ Partitioned(s, d) \in CallTypes
                 /\ Partitioned(s, d).fn = "data_partitioned"
                 /\ Partitioned(s, d).d = d /\ Partitioned(s, d).by = s
           /\ Fill(d) \in CallTypes /\ Fill(d).fn = "fill" /\ Fill(d).d = d
<1>1. ASSUME NEW m \in Nat, NEW n \in Nat
      PROVE  /\ New(d, m, n) \in CallTypes /\ New(d, m, n).fn = "GData"
             /\ New(d, m, n).d = d
             /\ New(d, m, n).rows = m /\ New(d, m, n).cols = n
  <2>1. New(d, m, n) \in [fn : {"GData"}, d : Nodes, rows : Nat, cols : Nat]
      BY DEF New
  <2> QED BY <2>1, Zenon DEF New, CallTypes
<1>2. ASSUME NEW P \in {1, 2}
      PROVE  /\ Partition(d, P) \in CallTypes /\ Partition(d, P).fn = "set_partition"
             /\ Partition(d, P).d = d /\ Partition(d, P).P = P
  <2>1. Partition(d, P) \in [fn : {"set_partition"}, d : Nodes, P : {1, 2}]
      BY DEF Partition
  <2> QED BY <2>1, Zenon DEF Partition, CallTypes
<1>3. ASSUME NEW m \in Addresses
      PROVE  /\ SetMemory(d, m) \in CallTypes /\ SetMemory(d, m).fn = "set_memory"
             /\ SetMemory(d, m).d = d /\ SetMemory(d, m).m = m
             /\ MemorySet(d, m) \in CallTypes /\ MemorySet(d, m).fn = "data_set_memory"
             /\ MemorySet(d, m).d = d /\ MemorySet(d, m).m = m
  <2> DEFINE S == [fn : {"set_memory", "data_set_memory"}, d : Nodes, m : Addresses]
  <2>1. SetMemory(d, m) \in S /\ MemorySet(d, m) \in S
      BY DEF SetMemory, MemorySet
  <2> QED BY <2>1, Zenon DEF SetMemory, MemorySet, CallTypes
<1>4. ASSUME NEW s \in Scheds
      PROVE  /\ Created(s, d) \in CallTypes /\ Created(s, d).fn = "data_created"
             /\ Created(s, d).d = d /\ Created(s, d).by = s
             /\ Partitioned(s, d) \in CallTypes
             /\ Partitioned(s, d).fn = "data_partitioned"
             /\ Partitioned(s, d).d = d /\ Partitioned(s, d).by = s
  <2> DEFINE S == [fn : {"data_created", "data_partitioned"}, by : Scheds, d : Nodes]
  <2>1. Created(s, d) \in S /\ Partitioned(s, d) \in S
      BY DEF Created, Partitioned
  <2> QED BY <2>1, Zenon DEF Created, Partitioned, CallTypes
<1>5. Fill(d) \in CallTypes /\ Fill(d).fn = "fill" /\ Fill(d).d = d
  <2>1. Fill(d) \in [fn : {"fill"}, d : Nodes]
      BY DEF Fill
  <2> QED BY <2>1, Zenon DEF Fill, CallTypes
<1> QED BY <1>1, <1>2, <1>3, <1>4, <1>5

\* Memory before announcements, these before constructions, these before the rest.
LEMMA Ranks ==
    ASSUME NEW c \in CallTypes
    PROVE  /\ Rank(c) \in 0..5
           /\ Rank(c) = 0 <=> c.fn = "data_set_memory"
           /\ Rank(c) = 1 <=> c.fn = "set_memory"
           /\ Rank(c) = 2 <=> c.fn = "data_created"
           /\ Rank(c) = 3 <=> c.fn = "GData"
           /\ Rank(c) = 4 <=> c.fn = "data_partitioned"
           /\ Rank(c) = 5 <=> c.fn \notin {"data_set_memory", "set_memory",
                                         "data_created", "GData", "data_partitioned"}
BY DEF Rank

\* Calls of one rank are in order, if nothing is made or cut twice.
LEMMA OrderedOfRank ==
    ASSUME NEW q \in Seq(CallTypes), NEW r,
           \A c \in Members(q) : Rank(c) = r,
           \A c \in Members(q) : c.fn \notin {"GPartitioner", "set_next"},
           Distinct(q)
    PROVE  Ordered(q)
<1>1. \A i \in 1..Len(q) : q[i] \in Members(q) /\ q[i] \in CallTypes
    BY ElementOfSeq DEF Members
<1>2. \A i \in 1..Len(q) : Rank(q[i]) = r /\ r \in 0..5
    BY <1>1, Ranks
<1>3. Sorted(q)
    BY <1>2 DEF Sorted
<1>4. Alone(q)
    BY <1>1 DEF Alone
<1> QED BY <1>3, <1>4 DEF Ordered

\* So are calls that neither make nor cut.
LEMMA OrderedOfRank0 ==
    ASSUME NEW q \in Seq(CallTypes), NEW r,
           \A c \in Members(q) : Rank(c) = r,
           \A c \in Members(q) :
               c.fn \notin {"GPartitioner", "set_next", "GData", "set_partition"}
    PROVE  Ordered(q)
<1>1. \A i \in 1..Len(q) : q[i] \in Members(q)
    BY DEF Members
<1>2. Distinct(q)
    BY <1>1 DEF Distinct, Alike
<1> QED BY <1>2, OrderedOfRank

\* No calls, and one call.
LEMMA OneCall ==
    ASSUME NEW c \in CallTypes
    PROVE  /\ <<c>> \in Seq(CallTypes) /\ Members(<<c>>) = {c} /\ Ordered(<<c>>)
           /\ <<>> \in Seq(CallTypes) /\ Ordered(<<>>)
<1>1. <<c>> \in Seq(CallTypes) /\ <<>> \in Seq(CallTypes)
    OBVIOUS
<1>2. Len(<<c>>) = 1 /\ <<c>>[1] = c /\ Len(<<>>) = 0
    OBVIOUS
<1>3. \A i \in 1..1 : i = 1
    OBVIOUS
<1>4. 1..0 = {}
    OBVIOUS
<1>5. Members(<<c>>) = {c}
    BY <1>2, <1>3 DEF Members
<1>6. Ordered(<<c>>)
  <2>1. Sorted(<<c>>)
      BY <1>2, <1>3 DEF Sorted
  <2>2. Distinct(<<c>>) /\ Alone(<<c>>)
      BY <1>2, <1>3 DEF Distinct, Alone
  <2> QED BY <2>1, <2>2 DEF Ordered
<1>7. Ordered(<<>>)
    BY <1>2, <1>4 DEF Ordered, Sorted, Distinct, Alone
<1> QED BY <1>1, <1>5, <1>6, <1>7

(* Steps that leave the tree as it is *)

\* The program and its shape do not change.
LEMMA SameShape ==
    ASSUME program' = program, shape' = shape
    PROVE  /\ Nodes' = Nodes /\ CallTypes' = CallTypes
           /\ \A l : /\ Count(l)' = Count(l) /\ RowsAt(l)' = RowsAt(l)
                     /\ ColsAt(l)' = ColsAt(l) /\ SizeAt(l)' = SizeAt(l)
                     /\ Place(l)' = Place(l)
           /\ Statements' = Statements /\ PartitionStep' = PartitionStep
<1>1. \A l : /\ Count(l)' = Count(l) /\ RowsAt(l)' = RowsAt(l)
             /\ ColsAt(l)' = ColsAt(l) /\ SizeAt(l)' = SizeAt(l)
    BY DEF Count, RowsAt, ColsAt, SizeAt
<1>2. Nodes' = Nodes
    BY <1>1 DEF Nodes
<1>3. CallTypes' = CallTypes
    BY <1>2 DEF CallTypes
<1>4. \A l : Place(l)' = Place(l)
    BY <1>1 DEF Place
<1>5. Statements' = Statements /\ PartitionStep' = PartitionStep
    BY DEF Statements, PartitionStep
<1> QED BY <1>1, <1>2, <1>3, <1>4, <1>5

\* What is pending after a call has been replaced by those it makes.
LEMMA PendingAfter ==
    ASSUME CallsOK, calls # <<>>, NEW cs \in Seq(CallTypes), calls' = cs \o Tail(calls)
    PROVE  /\ Head(calls) \in CallTypes /\ Head(calls) \in Pending /\ CallOK(Head(calls))
           /\ Tail(calls) \in Seq(CallTypes) /\ calls' \in Seq(CallTypes)
           /\ Pending = {Head(calls)} \cup Members(Tail(calls))
           /\ Pending' = Members(cs) \cup Members(Tail(calls))
           /\ Pending \subseteq CallTypes
           /\ \A c \in Members(Tail(calls)) :
                 /\ CallOK(c) /\ c \in CallTypes
                 /\ Rank(Head(calls)) <= Rank(c) /\ ~Alike(Head(calls), c)
                 /\ c.fn \notin {"GPartitioner", "set_next"}
           /\ Ordered(Tail(calls))
           /\ Head(calls).fn \in {"GPartitioner", "set_next"} => Tail(calls) = <<>>
<1>1. calls \in Seq(CallTypes) /\ Ordered(calls) /\ \A c \in Pending : CallOK(c)
    BY DEF CallsOK
<1>2. /\ Head(calls) \in Members(calls) /\ Head(calls) \in CallTypes
      /\ Tail(calls) \in Seq(CallTypes)
      /\ Members(calls) = {Head(calls)} \cup Members(Tail(calls))
    BY <1>1, HeadAndTail
<1>3. /\ calls' \in Seq(CallTypes) /\ Members(calls') = Members(cs) \cup Members(Tail(calls))
  <2> DEFINE t == Tail(calls)
  <2>1. t \in Seq(CallTypes)
      BY <1>2
  <2> HIDE DEF t
  <2>2. cs \o t \in Seq(CallTypes) /\ Members(cs \o t) = Members(cs) \cup Members(t)
      BY <2>1, MembersConcat, Zenon
  <2> QED BY <2>2, Zenon DEF t
<1>4. Pending' = Members(calls')
    BY DEF Pending, Members
<1>5. Pending \subseteq CallTypes
    BY <1>1, ElementOfSeq DEF Pending, Members
<1>6. /\ Ordered(Tail(calls))
      /\ \A c \in Members(Tail(calls)) :
            Rank(Head(calls)) <= Rank(c) /\ ~Alike(Head(calls), c)
      /\ \A c \in Members(Tail(calls)) : c.fn \notin {"GPartitioner", "set_next"}
      /\ Head(calls).fn \in {"GPartitioner", "set_next"} => Tail(calls) = <<>>
    BY <1>1, OrderedTail
<1> QED BY <1>1, <1>2, <1>3, <1>4, <1>5, <1>6 DEF Pending

\* The calls stay in order when none of those made belongs after those that follow.
LEMMA OrderedAfter ==
    ASSUME CallsOK, calls # <<>>, NEW cs \in Seq(CallTypes), calls' = cs \o Tail(calls),
           Ordered(cs),
           \A c \in Members(cs) :
               /\ \A e \in Members(Tail(calls)) : Rank(c) <= Rank(e) /\ ~Alike(c, e)
               /\ c.fn \notin {"GPartitioner", "set_next"}
    PROVE  Ordered(calls')
<1>1. /\ Tail(calls) \in Seq(CallTypes) /\ Ordered(Tail(calls))
      /\ \A c \in Members(Tail(calls)) : c.fn \notin {"GPartitioner", "set_next"}
    BY PendingAfter
<1> QED BY <1>1, OrderedConcat

Mild ==
    /\ program' = program /\ shape' = shape /\ step' = step
    /\ partitioners' = partitioners
    /\ DOMAIN data' = DOMAIN data /\ data' \in [DOMAIN data -> Datum]
    /\ \A d \in DOMAIN data :
          /\ data'[d].rows = data[d].rows /\ data'[d].cols = data[d].cols
          /\ data'[d].child_cnt = data[d].child_cnt
          /\ data'[d].partitioner = data[d].partitioner
          /\ data'[d].memory \in Place(Level(d))

\* A step that changes the memory, the guest and the handle of data, and makes calls
\* that do so.
LEMMA MildStep ==
    ASSUME Tree, calls # <<>>, Mild,
           NEW cs \in Seq(CallTypes), calls' = cs \o Tail(calls), Ordered(cs),
           Head(calls).fn \notin {"GData", "GPartitioner", "set_partition"},
           \A c \in Members(cs) :
               /\ CallOK(c) /\ Rank(c) <= Rank(Head(calls))
               /\ c.fn \notin {"GData", "GPartitioner", "set_next", "set_partition"}
    PROVE  Tree'
<1> DEFINE h == Head(calls)
           T == Members(Tail(calls))
<1>1. /\ PartitionersOK /\ DataOK /\ CallsOK /\ Phase
      /\ program \in Programs /\ shape \in Shapes
    BY DEF Tree
<1>2. /\ program' = program /\ shape' = shape /\ step' = step
      /\ partitioners' = partitioners /\ DOMAIN data' = DOMAIN data
      /\ data' \in [DOMAIN data -> Datum]
    BY DEF Mild
<1>3. /\ Nodes' = Nodes /\ CallTypes' = CallTypes
      /\ \A l : /\ Count(l)' = Count(l) /\ RowsAt(l)' = RowsAt(l)
                /\ ColsAt(l)' = ColsAt(l) /\ Place(l)' = Place(l)
      /\ Statements' = Statements /\ PartitionStep' = PartitionStep
    BY <1>2, SameShape
<1>4. /\ h \in CallTypes /\ Tail(calls) \in Seq(CallTypes) /\ calls' \in Seq(CallTypes)
      /\ Pending = {h} \cup T /\ Pending' = Members(cs) \cup T
      /\ Pending \subseteq CallTypes
      /\ \A c \in T : CallOK(c) /\ c \in CallTypes /\ Rank(h) <= Rank(c)
    BY <1>1, PendingAfter
<1>5. \A c \in Members(cs) : c \in CallTypes
    BY ElementOfSeq DEF Members
<1>6. \A d : Coming(d)' <=> Coming(d)
  <2>1. \A c : c.fn = "GData" => (c \in Pending <=> c \in Pending')
      BY <1>4
  <2> HIDE DEF Pending
  <2> QED BY <2>1 DEF Coming
<1>7. \A d : Made(d)' <=> Made(d)
    BY <1>2, <1>6 DEF Made
<1>8. \A d \in DOMAIN data : /\ data'[d].rows = data[d].rows /\ data'[d].cols = data[d].cols
                             /\ data'[d].child_cnt = data[d].child_cnt
                             /\ data'[d].partitioner = data[d].partitioner
                             /\ data'[d].memory \in Place(Level(d))
    BY DEF Mild
<1>9. \A d : Attached(d)' <=> Attached(d)
    BY <1>2, <1>8 DEF Attached
<1>10. \A d \in DOMAIN data : Settled(d)' <=> Settled(d)
  <2>1. NoneComing' <=> NoneComing
    <3>1. \A c : c.fn = "GData" => (c \in Pending <=> c \in Pending')
        BY <1>4
    <3> HIDE DEF Pending
    <3> QED BY <3>1 DEF NoneComing
  <2> QED BY <2>1, <1>2, <1>8 DEF Settled
<1>11. ASSUME NEW c \in CallTypes, CallOK(c)
       PROVE  CallOK(c)'
  <2>1. c.fn = "GData" =>
           /\ c.d \notin DOMAIN data' /\ Attached(c.d)'
           /\ c.rows = RowsAt(Level(c.d))' /\ c.cols = ColsAt(Level(c.d))'
      BY <1>2, <1>3, <1>9, <1>11 DEF CallOK
  <2>2. c.fn = "set_next" => 2 \in DOMAIN partitioners'
      BY <1>2, <1>11 DEF CallOK
  <2>3. c.fn = "set_partition" =>
           /\ Made(c.d)' /\ (c.d \in DOMAIN data' => data'[c.d].partitioner = 0)
           /\ c.P = Level(c.d) + 1 /\ c.P \in DOMAIN partitioners'
      BY <1>2, <1>7, <1>8, <1>11 DEF CallOK
  <2>4. c.fn \in {"set_memory", "data_set_memory"} =>
           c.d \in DOMAIN data' /\ c.m \in Place(Level(c.d))' /\ Settled(c.d)'
      BY <1>2, <1>3, <1>10, <1>11 DEF CallOK
  <2>5. c.fn \in {"data_created", "data_partitioned"} => c.by \in (program').scheds
      BY <1>2, <1>11 DEF CallOK
  <2>6. /\ c.fn = "data_created" => c.d \in DOMAIN data' /\ data'[c.d].partitioner = 0
        /\ c.fn = "data_partitioned" => c.d \in DOMAIN data' /\ data'[c.d].partitioner # 0
        /\ c.fn = "fill" => c.d \in DOMAIN data'
      BY <1>2, <1>8, <1>11 DEF CallOK
  <2> QED BY <2>1, <2>2, <2>3, <2>4, <2>5, <2>6 DEF CallOK
<1>12. CallsOK'
  <2>1. \A c \in Pending' : CallOK(c)'
      BY <1>4, <1>5, <1>11
  <2>2. \A c \in Members(cs) : \A e \in T : Rank(c) <= Rank(e) /\ ~Alike(c, e)
    <3>1. ASSUME NEW c \in Members(cs), NEW e \in T
          PROVE  Rank(c) <= Rank(e)
      <4>1. Rank(c) \in Int /\ Rank(h) \in Int /\ Rank(e) \in Int
          BY <1>4, <1>5, Ranks
      <4>2. Rank(c) <= Rank(h) /\ Rank(h) <= Rank(e)
          BY <1>4
      <4> QED BY <4>1, <4>2
    <3>2. \A c \in Members(cs) : \A e \in T : ~Alike(c, e)
        BY DEF Alike
    <3> QED BY <3>1, <3>2
  <2>3. Ordered(calls')
      BY <1>1, <2>2, OrderedAfter
  <2>4. Ordered(calls)' = Ordered(calls')
      BY DEF Ordered, Sorted, Distinct, Alone, Rank, Alike
  <2> QED BY <1>3, <1>4, <2>1, <2>3, <2>4 DEF CallsOK
<1>13. PartitionersOK'
    BY <1>1, <1>2 DEF PartitionersOK
<1>14. DataOK'
  <2>1. ASSUME NEW d \in DOMAIN data
        PROVE  DatumOK(d)'
    <3>1. DatumOK(d)
        BY <1>1 DEF DataOK
    <3> QED BY <3>1, <1>2, <1>3, <1>7, <1>8, <1>9 DEF DatumOK
  <2>2. DOMAIN data \subseteq Nodes
      BY <1>1 DEF DataOK
  <2> QED BY <1>2, <1>3, <2>1, <2>2 DEF DataOK
<1>15. Phase'
  <2>1. /\ step \in 0..Len(Statements) /\ step # 0
        /\ step >= 1 => Made(Root)
        /\ ~Cutting => Len(partitioners) = Cuts
      BY <1>1 DEF Phase
  <2>2. ~Cutting
    <3>1. \A c \in T : c.fn # "GPartitioner"
        BY <1>1, PendingAfter
    <3> QED BY <3>1, <1>4 DEF Cutting
  <2>3. \A c \in Pending' : c.fn # "GPartitioner"
      BY <2>2, <1>4 DEF Cutting
  <2>4. ~Cutting'
      BY <2>3 DEF Cutting
  <2>5. Cuts' = Cuts
      BY <1>2 DEF Cuts
  <2>6. step < PartitionStep =>
           /\ \A c \in Pending' : c.fn # "set_partition"
           /\ \A d \in DOMAIN data : data'[d].partitioner = NoPartitioner
      BY <1>1, <1>4, <1>8 DEF Phase
  <2> HIDE DEF Pending
  <2> QED BY <1>2, <1>3, <1>7, <2>1, <2>2, <2>3, <2>4, <2>5, <2>6 DEF Phase
<1> QED BY <1>1, <1>2, <1>12, <1>13, <1>14, <1>15 DEF Tree

(* Where data lie *)

\* What is known of a data that is there.
LEMMA TreeFacts ==
    ASSUME Tree, NEW d \in DOMAIN data
    PROVE  /\ d \in Nodes /\ Level(d) \in 0..2 /\ data[d] \in Datum /\ DatumOK(d)
           /\ Size(d) = SizeAt(Level(d)) /\ data[d].memory \in Place(Level(d))
           /\ data[d].child_cnt > 0 => data[d].partitioner # NoPartitioner
           /\ data[d].child_cnt \in Nat
           /\ data[d].partitioner # NoPartitioner =>
                 /\ Level(d) \in 0..1 /\ Level(d) + 1 \in 1..2
                 /\ Level(d) + 1 \in 1..Len(partitioners)
                 /\ data[d].partitioner = Level(d) + 1
                 /\ data[d].child_cnt = Count(Level(d) + 1) /\ data[d].child_cnt \in Pos
                 /\ Cut(d) = shape.cut[Level(d) + 1]
           /\ \A k \in 0..data[d].child_cnt - 1 :
                 /\ Child(d, k) \in Nodes /\ Level(Child(d, k)) = Level(d) + 1
                 /\ Made(Child(d, k))
           /\ d # Root =>
                 /\ Parent(d) \in DOMAIN data
                 /\ data[Parent(d)].partitioner # NoPartitioner
                 /\ Level(Parent(d)) + 1 = Level(d) /\ Level(d) \in 1..2
                 /\ Last(d) \in 0..data[Parent(d)].child_cnt - 1
                 /\ d = Child(Parent(d), Last(d))
<1>1. /\ shape \in Shapes /\ program \in Programs
      /\ PartitionersOK /\ DOMAIN data \subseteq Nodes /\ data \in [DOMAIN data -> Datum]
      /\ \A e \in DOMAIN data : DatumOK(e)
    BY DEF Tree, DataOK
<1>2. d \in Nodes /\ data[d] \in Datum /\ DatumOK(d)
    BY <1>1
<1>3. Level(d) \in 0..2
  <2>1. 0 \in Nat
      OBVIOUS
  <2> QED BY <1>2, <2>1, ChildFacts
<1>4. Size(d) = SizeAt(Level(d)) /\ data[d].memory \in Place(Level(d))
    BY <1>2 DEF Size, SizeAt, DatumOK
<1>5. data[d].child_cnt > 0 => data[d].partitioner # NoPartitioner
  <2>1. data[d].partitioner = NoPartitioner => data[d].child_cnt = 0
    <3>1. \A l \in 0..2 : l + 1 # 0
        OBVIOUS
    <3>2. Level(d) + 1 # NoPartitioner
        BY <3>1, <1>3 DEF NoPartitioner
    <3> QED BY <3>2, <1>2 DEF DatumOK
  <2>2. ~(0 > 0)
      OBVIOUS
  <2> QED BY <2>1, <2>2
<1>6. data[d].child_cnt \in Nat
    BY <1>2 DEF Datum
<1>7. Len(partitioners) \in Nat /\ Len(partitioners) <= 2
  <2>1. program.levels \in {1, 2}
      BY <1>1, ProgramsAssumption
  <2>2. Len(partitioners) \in Nat /\ Len(partitioners) <= program.levels
      BY <1>1, LenProperties DEF PartitionersOK
  <2> QED BY <2>1, <2>2
<1>8. ASSUME NEW e \in DOMAIN data, data[e].partitioner # NoPartitioner
      PROVE  /\ Level(e) \in 0..1 /\ Level(e) + 1 \in 1..2
             /\ Level(e) + 1 \in 1..Len(partitioners)
             /\ data[e].partitioner = Level(e) + 1
             /\ data[e].child_cnt = Count(Level(e) + 1) /\ data[e].child_cnt \in Pos
             /\ Cut(e) = shape.cut[Level(e) + 1]
  <2>1. e \in Nodes /\ DatumOK(e) /\ 0 \in Nat
      BY <1>1
  <2>2. Level(e) \in 0..2
      BY <2>1, ChildFacts
  <2>3. /\ data[e].partitioner = Level(e) + 1 /\ data[e].child_cnt = Count(Level(e) + 1)
        /\ Level(e) + 1 \in 1..Len(partitioners)
      BY <2>1, <1>8 DEF DatumOK
  <2>4. Level(e) \in 0..1 /\ Level(e) + 1 \in 1..2
      BY <2>2, <2>3, <1>7
  <2>5. Cut(e) = shape.cut[Level(e) + 1]
      BY <2>3, <1>1 DEF Cut, PartitionersOK
  <2>6. Count(Level(e) + 1) \in Pos
      BY <2>4, <1>1, ShapeFacts
  <2> QED BY <2>3, <2>4, <2>5, <2>6
<1>9. ASSUME NEW k \in 0..data[d].child_cnt - 1
      PROVE  /\ Child(d, k) \in Nodes /\ Level(Child(d, k)) = Level(d) + 1
             /\ Made(Child(d, k))
  <2>1. data[d].child_cnt > 0 /\ k \in Nat /\ k < data[d].child_cnt
      BY <1>6
  <2>2. /\ Level(d) \in 0..1 /\ data[d].child_cnt = Count(Level(d) + 1)
      BY <2>1, <1>5, <1>8
  <2>3. Made(Child(d, k))
      BY <1>2, <1>5, <2>1 DEF DatumOK
  <2>4. Level(d) <= 1
      BY <2>2
  <2> QED BY <2>1, <2>2, <2>3, <2>4, <1>2, ChildFacts
<1>10. ASSUME d # Root
       PROVE  /\ Parent(d) \in DOMAIN data
              /\ data[Parent(d)].partitioner # NoPartitioner
              /\ Level(Parent(d)) + 1 = Level(d) /\ Level(d) \in 1..2
              /\ Last(d) \in 0..data[Parent(d)].child_cnt - 1
              /\ d = Child(Parent(d), Last(d))
  <2>1. /\ Level(Parent(d)) = Level(d) - 1 /\ Level(d) \in 1..2
        /\ Last(d) \in Nat /\ Last(d) < Count(Level(d))
        /\ d = Child(Parent(d), Last(d))
      BY <1>2, <1>10, ParentFacts
  <2>2. /\ Parent(d) \in DOMAIN data /\ data[Parent(d)].partitioner = Level(d)
      BY <1>2, <1>10 DEF DatumOK, Attached
  <2>3. data[Parent(d)].partitioner # NoPartitioner
      BY <2>1, <2>2 DEF NoPartitioner
  <2>4. /\ data[Parent(d)].child_cnt = Count(Level(Parent(d)) + 1)
        /\ data[Parent(d)].child_cnt \in Pos
      BY <2>2, <2>3, <1>8
  <2>5. Level(Parent(d)) + 1 = Level(d)
      BY <2>1
  <2>6. Last(d) \in 0..data[Parent(d)].child_cnt - 1
      BY <2>1, <2>4, <2>5 DEF Pos
  <2> QED BY <2>1, <2>2, <2>3, <2>5, <2>6
<1> QED BY <1>2, <1>3, <1>4, <1>5, <1>6, <1>8, <1>9, <1>10

\* Nothing and the beginning of a buffer are places.
LEMMA PlaceFacts ==
    ASSUME shape \in Shapes
    PROVE  /\ \A l \in 0..2 : Null \in Place(l)
           /\ \A l \in 0..2 : \A b \in Buffers \ {<<"null">>} :
                 Buffer(b) \in Place(l) /\ Buffer(b) # Null
           /\ Null \in Addresses /\ \A b \in Buffers : Buffer(b) \in Addresses
           /\ Null.buf = <<"null">>
           /\ \A l : Place(l) \subseteq Addresses
<1>1. \A l \in 0..2 : SizeAt(l) \in Nat /\ SizeAt(l) <= SizeAt(0)
  <2>1. /\ SizeAt(0) \in Pos /\ SizeAt(1) \in Pos /\ SizeAt(2) \in Pos
        /\ Count(1) \in Pos /\ Count(2) \in Pos
        /\ Count(1) * SizeAt(1) = SizeAt(0) /\ Count(2) * SizeAt(2) = SizeAt(1)
    <3>1. 1 \in 1..2 /\ 2 \in 1..2 /\ 1 - 1 = 0 /\ 2 - 1 = 1
        OBVIOUS
    <3>2. 0 \in 0..2 /\ 1 \in 0..2 /\ 2 \in 0..2
        OBVIOUS
    <3> QED BY <3>1, <3>2, ShapeFacts
  <2>2. \A n, s \in Pos : s <= n * s
      BY DEF Pos
  <2>3. SizeAt(1) <= SizeAt(0) /\ SizeAt(2) <= SizeAt(1)
      BY <2>1, <2>2
  <2>4. SizeAt(2) <= SizeAt(0)
      BY <2>1, <2>3 DEF Pos
  <2>5. \A l \in 0..2 : l = 0 \/ l = 1 \/ l = 2
      OBVIOUS
  <2>6. SizeAt(0) <= SizeAt(0)
      BY <2>1 DEF Pos
  <2>7. SizeAt(0) \in Nat /\ SizeAt(1) \in Nat /\ SizeAt(2) \in Nat
      BY <2>1 DEF Pos
  <2> QED BY <2>3, <2>4, <2>5, <2>6, <2>7
<1>2. \A b \in Buffers : /\ Buffer(b) \in Addresses
                         /\ Buffer(b).ofs = 0 /\ Buffer(b).buf = b
    BY DEF Addresses, Buffer
<1>3. /\ Null \in Addresses /\ Null.ofs = 0 /\ Null.buf = <<"null">>
  <2>1. <<"null">> \in Buffers
      BY DEF Buffers
  <2> QED BY <2>1 DEF Addresses, Null
<1>4. \A l \in 0..2 : Null \in Place(l)
    BY <1>1, <1>3 DEF Place, Tame
<1>5. ASSUME NEW l \in 0..2, NEW b \in Buffers \ {<<"null">>}
      PROVE  Buffer(b) \in Place(l) /\ Buffer(b) # Null
  <2>1. Buffer(b) \in Addresses /\ Buffer(b).ofs = 0 /\ Buffer(b).buf = b
      BY <1>2
  <2>2. b # <<"null">>
      OBVIOUS
  <2>3. Buffer(b) # Null
      BY <2>1, <2>2, <1>3
  <2>4. Tame(Buffer(b))
      BY <2>1, <2>2 DEF Tame
  <2>5. Buffer(b).ofs + SizeAt(l) <= SizeAt(0)
      BY <2>1, <1>1
  <2> QED BY <2>1, <2>3, <2>4, <2>5 DEF Place
<1> QED BY <1>2, <1>3, <1>4, <1>5 DEF Place

\* A part of a place is a place.
LEMMA PartPlace ==
    ASSUME shape \in Shapes, NEW l \in 0..1, NEW m \in Place(l), m # Null,
           NEW k \in Nat, k < Count(l + 1)
    PROVE  /\ Plus(m, k * SizeAt(l + 1)) \in Place(l + 1)
           /\ Plus(m, k * SizeAt(l + 1)) # Null
           /\ Plus(m, k * SizeAt(l + 1)) =
                 [buf |-> m.buf, ofs |-> m.ofs + k * SizeAt(l + 1)]
<1> DEFINE n == Count(l + 1)
           s == SizeAt(l + 1)
           t == SizeAt(l)
           z == SizeAt(0)
<1>1. l + 1 \in 1..2 /\ l + 1 \in 0..2 /\ l \in 0..2 /\ 0 \in 0..2 /\ (l + 1) - 1 = l
    OBVIOUS
<1>2. n \in Pos /\ s \in Pos /\ t \in Pos /\ z \in Pos /\ n * s = t
    BY <1>1, ShapeFacts
<1>3. m \in Addresses /\ Tame(m) /\ m.ofs + t <= z
    BY DEF Place
<1>4. m.buf \in Buffers /\ m.ofs \in Nat /\ m = [buf |-> m.buf, ofs |-> m.ofs]
    BY <1>3 DEF Addresses
<1>5. m.buf # <<"null">>
    BY <1>3 DEF Tame
<1>6. Plus(m, k * s) = [buf |-> m.buf, ofs |-> m.ofs + k * s]
  <2> DEFINE b == m.buf
             o == m.ofs
  <2>1. m = [buf |-> b, ofs |-> o]
      BY <1>4
  <2> HIDE DEF b, o, s
  <2>2. [[buf |-> b, ofs |-> o] EXCEPT !.ofs = @ + k * s] = [buf |-> b, ofs |-> o + k * s]
      OBVIOUS
  <2> QED BY <2>1, <2>2 DEF Plus, b, o
<1> HIDE DEF n, s, t, z
<1>7. k * s \in Nat /\ k * s + s <= t
  <2>1. k * s \in Nat /\ s \in Nat /\ n \in Nat
      BY <1>2, SMT DEF Pos
  <2>2. (k + 1) * s <= n * s
    <3>1. k + 1 <= n
        BY <2>1, SMT DEF n
    <3> QED BY <3>1, <2>1, SMT
  <2>3. (k + 1) * s = k * s + s
      BY <2>1, SMT
  <2> QED BY <2>1, <2>2, <2>3, <1>2
<1>8. m.ofs + k * s \in Nat /\ (m.ofs + k * s) + s <= z
  <2>1. k * s \in Nat /\ k * s + s <= t /\ m.ofs \in Nat /\ m.ofs + t <= z
      BY <1>3, <1>4, <1>7 DEF t, z
  <2>2. s \in Nat /\ t \in Nat /\ z \in Nat
      BY <1>2 DEF Pos
  <2> DEFINE p == k * s
  <2> HIDE DEF p
  <2> QED BY <2>1, <2>2, SMT DEF p
<1>9. /\ Plus(m, k * s) \in Addresses /\ Plus(m, k * s).buf = m.buf
      /\ Plus(m, k * s).ofs = m.ofs + k * s
    BY <1>4, <1>6, <1>8 DEF Addresses
<1>10. Plus(m, k * s) # Null
    BY <1>5, <1>9, PlaceFacts
<1>11. Plus(m, k * s) \in Place(l + 1)
    BY <1>5, <1>8, <1>9 DEF Place, Tame, s, z
<1> QED BY <1>6, <1>10, <1>11 DEF s

(* The calls that the bodies make *)

\* The part of the memory m of a data of level l that its child k gets.
PartOf(m, l, k) == IF m = Null THEN Null ELSE Plus(m, k * SizeAt(l + 1))

\* A function on 1..n is a sequence of calls.
LEMMA FunIsSeq ==
    ASSUME NEW n \in Nat, NEW F \in [1..n -> CallTypes]
    PROVE  /\ F \in Seq(CallTypes) /\ Len(F) = n
           /\ \A c \in Members(F) : \E i \in 1..n : c = F[i]
           /\ \A i \in 1..n : F[i] \in Members(F)
<1>1. F \in Seq(CallTypes) /\ Len(F) = n
    OBVIOUS
<1> QED BY <1>1 DEF Members

\* The children of a data whose children have all been made are there, and have none
\* that are still to be made.
LEMMA SettledChildren ==
    ASSUME Tree, NEW d \in DOMAIN data, Settled(d), NEW k \in 0..data[d].child_cnt - 1
    PROVE  /\ Child(d, k) \in DOMAIN data /\ Settled(Child(d, k))
           /\ NoneComing /\ k \in Nat /\ data[d].child_cnt > 0
           /\ data[d].partitioner # NoPartitioner
<1>1. data[d].child_cnt \in Nat /\ Made(Child(d, k))
    BY TreeFacts
<1>2. data[d].child_cnt > 0 /\ k \in Nat /\ data[d].child_cnt # 0
    BY <1>1
<1>3. NoneComing
    BY <1>2 DEF Settled
<1>4. Child(d, k) \in DOMAIN data
    BY <1>1, <1>3 DEF Made, Coming, NoneComing
<1>5. data[d].partitioner # NoPartitioner
    BY <1>2, TreeFacts
<1> QED BY <1>2, <1>3, <1>4, <1>5 DEF Settled

\* The part that a child gets is a place for it, and the call that gives it is right.
LEMMA PartCall ==
    ASSUME Tree, NEW d \in DOMAIN data, Settled(d), NEW m \in Place(Level(d)),
           NEW k \in 0..data[d].child_cnt - 1
    PROVE  /\ PartOf(m, Level(d), k) \in Place(Level(Child(d, k)))
           /\ Child(d, k) \in Nodes /\ Level(Child(d, k)) = Level(d) + 1
           /\ \A v \in Place(Level(Child(d, k))) :
                 /\ SetMemory(Child(d, k), v) \in CallTypes
                 /\ SetMemory(Child(d, k), v).fn = "set_memory"
                 /\ SetMemory(Child(d, k), v).d = Child(d, k)
                 /\ SetMemory(Child(d, k), v).m = v
                 /\ CallOK(SetMemory(Child(d, k), v))
<1>1. shape \in Shapes
    BY DEF Tree
<1>2. /\ Child(d, k) \in DOMAIN data /\ Settled(Child(d, k)) /\ k \in Nat
      /\ data[d].partitioner # NoPartitioner
    BY SettledChildren
<1>3. /\ Level(d) \in 0..1 /\ Level(d) + 1 \in 1..2 /\ data[d].child_cnt = Count(Level(d) + 1)
      /\ Child(d, k) \in Nodes /\ Level(Child(d, k)) = Level(d) + 1
      /\ Level(d) + 1 \in 0..2 /\ data[d].child_cnt \in Nat
  <2>1. \A l \in 1..2 : l \in 0..2
      OBVIOUS
  <2> QED BY <2>1, <1>2, TreeFacts
<1>4. k < Count(Level(d) + 1)
    BY <1>3
<1>5. PartOf(m, Level(d), k) \in Place(Level(Child(d, k)))
  <2>1. CASE m = Null
    <3>1. Null \in Place(Level(d) + 1)
        BY <1>1, <1>3, PlaceFacts
    <3> QED BY <2>1, <3>1, <1>3 DEF PartOf
  <2>2. CASE m # Null
    <3>1. Plus(m, k * SizeAt(Level(d) + 1)) \in Place(Level(d) + 1)
        BY <2>2, <1>1, <1>2, <1>3, <1>4, PartPlace
    <3> QED BY <2>2, <3>1, <1>3 DEF PartOf
  <2> QED BY <2>1, <2>2
<1>6. ASSUME NEW v \in Place(Level(Child(d, k)))
      PROVE  /\ SetMemory(Child(d, k), v) \in CallTypes
             /\ SetMemory(Child(d, k), v).fn = "set_memory"
             /\ SetMemory(Child(d, k), v).d = Child(d, k)
             /\ SetMemory(Child(d, k), v).m = v
             /\ CallOK(SetMemory(Child(d, k), v))
  <2> DEFINE c == SetMemory(Child(d, k), v)
  <2>1. v \in Addresses
      BY <1>1, PlaceFacts
  <2>2. c \in CallTypes /\ c.fn = "set_memory" /\ c.d = Child(d, k) /\ c.m = v
      BY <1>3, <2>1, CallsMade
  <2> HIDE DEF c
  <2>3. CallOK(c)
      BY <1>2, <2>2 DEF CallOK
  <2> QED BY <2>2, <2>3 DEF c
<1> QED BY <1>3, <1>5, <1>6

\* Calls that set memory are in order.
LEMMA MemoryCalls ==
    ASSUME NEW q \in Seq(CallTypes), \A c \in Members(q) : c.fn = "set_memory"
    PROVE  /\ Ordered(q) /\ \A c \in Members(q) : c \in CallTypes /\ Rank(c) = 1
<1>1. \A c \in Members(q) : c \in CallTypes
    BY ElementOfSeq DEF Members
<1>2. \A c \in Members(q) : Rank(c) = 1
    BY <1>1, Ranks
<1> QED BY <1>1, <1>2, OrderedOfRank0

\* A step that changes the memory, the guest and the handle of data, and makes no calls.
LEMMA QuietStep ==
    ASSUME Tree, calls # <<>>, Mild, calls' = <<>> \o Tail(calls),
           Head(calls).fn \notin {"GData", "GPartitioner", "set_partition"}
    PROVE  Tree'
<1>1. <<>> \in Seq(CallTypes) /\ Ordered(<<>>) /\ Members(<<>>) = {}
  <2>1. <<>> \in Seq(CallTypes) /\ Len(<<>>) = 0 /\ 1..0 = {}
      OBVIOUS
  <2> QED BY <2>1, NoMembers DEF Ordered, Sorted, Distinct, Alone
<1> QED BY <1>1, MildStep

\* A step that changes the memory, the guest and the handle of data, and makes calls
\* that set memory.
LEMMA MemoryStep ==
    ASSUME Tree, calls # <<>>, Mild,
           NEW cs \in Seq(CallTypes), calls' = cs \o Tail(calls),
           Head(calls).fn \in {"data_created", "data_partitioned"},
           \A c \in Members(cs) : CallOK(c) /\ c.fn = "set_memory"
    PROVE  Tree'
<1>1. Head(calls) \in CallTypes
  <2>1. <<>> \in Seq(CallTypes) /\ calls \in Seq(CallTypes)
      BY DEF Tree, CallsOK
  <2> QED BY <2>1, HeadTailProperties
<1>2. Ordered(cs) /\ \A c \in Members(cs) : Rank(c) = 1
    BY MemoryCalls
<1>3. 1 <= Rank(Head(calls))
  <2>1. 1 <= 2 /\ 1 <= 4
      OBVIOUS
  <2>2. Rank(Head(calls)) = 2 \/ Rank(Head(calls)) = 4
      BY <1>1, Ranks
  <2> QED BY <2>1, <2>2
<1>4. \A c \in Members(cs) :
         /\ CallOK(c) /\ Rank(c) <= Rank(Head(calls))
         /\ c.fn \notin {"GData", "GPartitioner", "set_next", "set_partition"}
    BY <1>2, <1>3
<1> QED BY <1>2, <1>4, MildStep

\* Every child is given its part of m.
GivesParts(cs, d, m) ==
    /\ cs \in Seq(CallTypes)
    /\ \A c \in Members(cs) :
          /\ CallOK(c) /\ c.fn = "set_memory"
          /\ \E k \in 0..data[d].child_cnt - 1 :
                c.d = Child(d, k) /\ c.m = PartOf(m, Level(d), k)
    /\ \A k \in 0..data[d].child_cnt - 1 :
          \E c \in Members(cs) :
             c.fn = "set_memory" /\ c.d = Child(d, k) /\ c.m = PartOf(m, Level(d), k)

\* set_memory gives the children their parts.
LEMMA StaticParts ==
    ASSUME Tree, NEW d \in DOMAIN data, Settled(d), NEW m \in Place(Level(d)),
           NEW bz, bz = IF m = Null THEN 0 ELSE Size(Child(d, 0))
    PROVE  GivesParts([i \in 1..data[d].child_cnt |->
                          SetMemory(Child(d, i - 1), Plus(m, (i - 1) * bz))], d, m)
<1> DEFINE n == data[d].child_cnt
           F == [i \in 1..n |-> SetMemory(Child(d, i - 1), Plus(m, (i - 1) * bz))]
           G == [i \in 1..n |-> SetMemory(Child(d, i - 1), PartOf(m, Level(d), i - 1))]
<1>1. shape \in Shapes /\ n \in Nat
    BY TreeFacts DEF Tree
<1>2. ASSUME NEW i \in 1..n
      PROVE  /\ i - 1 \in 0..n - 1 /\ i - 1 \in Nat
             /\ Plus(m, (i - 1) * bz) = PartOf(m, Level(d), i - 1)
  <2>1. i - 1 \in 0..n - 1 /\ i - 1 \in Nat /\ 0 \in 0..n - 1 /\ (i - 1) * 0 = 0
      BY <1>1
  <2>2. CASE m = Null
    <3>1. Plus(Null, 0) = Null
        BY DEF Plus, Null
    <3> QED BY <2>1, <2>2, <3>1 DEF PartOf
  <2>3. CASE m # Null
    <3>1. Child(d, 0) \in DOMAIN data
        BY <2>1, SettledChildren
    <3>2. Level(Child(d, 0)) = Level(d) + 1
        BY <2>1, TreeFacts
    <3>3. Size(Child(d, 0)) = SizeAt(Level(d) + 1)
        BY <3>1, <3>2, TreeFacts
    <3>4. bz = SizeAt(Level(d) + 1)
        BY <2>3, <3>3
    <3> QED BY <2>1, <2>3, <3>4, Zenon DEF PartOf
  <2> QED BY <2>1, <2>2, <2>3
<1>3. F = G
    BY <1>2
<1> HIDE DEF F
<1>4. ASSUME NEW i \in 1..n
      PROVE  /\ G[i] \in CallTypes /\ CallOK(G[i]) /\ G[i].fn = "set_memory"
             /\ G[i].d = Child(d, i - 1) /\ G[i].m = PartOf(m, Level(d), i - 1)
  <2>1. i - 1 \in 0..data[d].child_cnt - 1
      BY <1>2
  <2>2. G[i] = SetMemory(Child(d, i - 1), PartOf(m, Level(d), i - 1))
      OBVIOUS
  <2> HIDE DEF G
  <2> QED BY <2>1, <2>2, PartCall
<1>5. G \in [1..n -> CallTypes]
    BY <1>4
<1> HIDE DEF G
<1>6. /\ G \in Seq(CallTypes)
      /\ \A c \in Members(G) : \E i \in 1..n : c = G[i]
      /\ \A i \in 1..n : G[i] \in Members(G)
  <2> HIDE DEF n
  <2>1. n \in Nat
      BY <1>1
  <2> QED BY <2>1, <1>5, FunIsSeq
<1>7. ASSUME NEW c \in Members(G)
      PROVE  /\ CallOK(c) /\ c.fn = "set_memory"
             /\ \E k \in 0..n - 1 :
                   c.d = Child(d, k) /\ c.m = PartOf(m, Level(d), k)
  <2>1. PICK i \in 1..n : c = G[i]
      BY <1>6
  <2> QED BY <2>1, <1>2, <1>4
<1>8. ASSUME NEW k \in 0..n - 1
      PROVE  \E c \in Members(G) :
                c.fn = "set_memory" /\ c.d = Child(d, k) /\ c.m = PartOf(m, Level(d), k)
  <2>1. k + 1 \in 1..n /\ (k + 1) - 1 = k
      BY <1>1
  <2> QED BY <2>1, <1>4, <1>6
<1>9. GivesParts(G, d, m)
    BY <1>6, <1>7, <1>8 DEF GivesParts
<1> QED BY <1>3, <1>9 DEF F

\* A loop over a grid of y rows and x columns of blocks reaches blocks of the grid only.
LEMMA GridIndex ==
    ASSUME NEW y \in Pos, NEW x \in Pos, NEW k \in Nat, k < y * x
    PROVE  /\ GetPart(k \div x, k % x, y) \in Nat
           /\ GetPart(k \div x, k % x, y) < y * x
<1> DEFINE i == k \div x
           j == k % x
<1>1. i \in Nat /\ j \in Nat /\ j < x /\ k = x * i + j
    BY SMT DEF Pos
<1> HIDE DEF i, j
<1>2. i < y
  <2> SUFFICES ASSUME y <= i PROVE FALSE
      BY <1>1, SMT DEF Pos
  <2>1. x * y <= x * i
      BY <1>1, SMT DEF Pos
  <2> QED BY <1>1, <2>1, SMT DEF Pos
<1>3. j * y <= (x - 1) * y
    BY <1>1, SMT DEF Pos
<1>4. (x - 1) * y = x * y - y
    BY SMT DEF Pos
<1>5. j * y \in Nat
    BY <1>1, SMT DEF Pos
<1>6. j * y + i < y * x
  <2> DEFINE p == j * y
             q == x * y
  <2>1. p <= q - y /\ y * x = q /\ p \in Nat /\ q \in Nat
      BY <1>3, <1>4, <1>5, SMT DEF Pos
  <2> HIDE DEF p, q
  <2>2. p + i < y * x
      BY <2>1, <1>1, <1>2, SMT DEF Pos
  <2> QED BY <2>2 DEF p
<1> QED BY <1>1, <1>5, <1>6 DEF GetPart, i, j

\* What data_partitioned of SuperGlue calls gives every child its part of the memory.
LEMMA HandDownParts ==
    ASSUME Tree, NEW d \in DOMAIN data, NoneComing, data[d].partitioner # NoPartitioner,
           Static \/ data[d].memory # Null
    PROVE  /\ HandDown(d) \in Seq(CallTypes)
           /\ \A c \in Members(HandDown(d)) :
                 /\ CallOK(c) /\ c.fn = "set_memory"
                 /\ \E k \in 0..data[d].child_cnt - 1 :
                       c.d = Child(d, k) /\ c.m = PartOf(data[d].memory, Level(d), k)
<1> DEFINE n == data[d].child_cnt
           m == data[d].memory
           y == Cut(d)[1]
           x == Cut(d)[2]
           At(i) == GetPart((i - 1) \div x, (i - 1) % x, y)
           F == [i \in 1..n |-> SetMemory(Child(d, At(i)), PartOf(m, Level(d), At(i)))]
<1>1. /\ shape \in Shapes /\ n \in Nat /\ m \in Place(Level(d)) /\ Settled(d)
      /\ Level(d) + 1 \in 1..2 /\ n = Count(Level(d) + 1) /\ Cut(d) = shape.cut[Level(d) + 1]
    BY TreeFacts DEF Tree, Settled
<1>2. y \in Pos /\ x \in Pos /\ n = y * x
    BY <1>1, ShapeFacts DEF Count
<1>3. ASSUME NEW i \in 1..n
      PROVE  At(i) \in 0..n - 1
  <2>1. i - 1 \in Nat /\ i - 1 < y * x
      BY <1>1, <1>2
  <2> HIDE DEF y, x
  <2>2. At(i) \in Nat /\ At(i) < y * x
      BY <2>1, <1>2, GridIndex
  <2> HIDE DEF n, At
  <2> QED BY <2>2, <1>1, <1>2
<1>4. ASSUME NEW i \in 1..n
      PROVE  (IF Static /\ m = Null THEN Null
              ELSE Plus(m, At(i) * Size(Child(d, 0)))) = PartOf(m, Level(d), At(i))
  <2>1. CASE m = Null
      BY <2>1 DEF PartOf
  <2>2. CASE m # Null
    <3>1. 0 \in 0..n - 1
        BY <1>1
    <3>2. Child(d, 0) \in DOMAIN data
        BY <3>1, <1>1, SettledChildren
    <3>3. Level(Child(d, 0)) = Level(d) + 1
        BY <3>1, TreeFacts
    <3>4. Size(Child(d, 0)) = SizeAt(Level(d) + 1)
        BY <3>2, <3>3, TreeFacts
    <3> HIDE DEF At, m
    <3> QED BY <2>2, <3>4 DEF PartOf
  <2> QED BY <2>1, <2>2
<1>5. HandDown(d) = F
  <2>1. HandDown(d) =
           [i \in 1..n |->
               SetMemory(Child(d, At(i)),
                         IF Static /\ m = Null THEN Null
                         ELSE Plus(m, At(i) * Size(Child(d, 0))))]
      BY DEF HandDown, OverGrid
  <2> HIDE DEF At, m, n
  <2> QED BY <2>1, <1>4
<1>6. ASSUME NEW i \in 1..n
      PROVE  /\ F[i] \in CallTypes /\ CallOK(F[i]) /\ F[i].fn = "set_memory"
             /\ F[i].d = Child(d, At(i)) /\ F[i].m = PartOf(m, Level(d), At(i))
  <2>1. F[i] = SetMemory(Child(d, At(i)), PartOf(m, Level(d), At(i)))
      BY DEF F
  <2> HIDE DEF F
  <2>2. At(i) \in 0..data[d].child_cnt - 1
      BY <1>3
  <2> HIDE DEF At
  <2> QED BY <2>1, <2>2, <1>1, PartCall
<1> HIDE DEF At
<1>7. F \in [1..n -> CallTypes]
    BY <1>6
<1> HIDE DEF F
<1>8. /\ F \in Seq(CallTypes)
      /\ \A c \in Members(F) : \E i \in 1..n : c = F[i]
  <2> HIDE DEF n
  <2>1. n \in Nat
      BY <1>1
  <2> QED BY <2>1, <1>7, FunIsSeq
<1>9. ASSUME NEW c \in Members(F)
      PROVE  /\ CallOK(c) /\ c.fn = "set_memory"
             /\ \E k \in 0..n - 1 : c.d = Child(d, k) /\ c.m = PartOf(m, Level(d), k)
  <2>1. PICK i \in 1..n : c = F[i]
      BY <1>8
  <2> QED BY <2>1, <1>3, <1>6
<1> QED BY <1>5, <1>8, <1>9

\* The blocks of DuctTeip's data that are held, and what the root's children get.
LinkCalls(d, held) ==
    OverGrid(d, LAMBDA i, j :
        LET c == GetPart(i, j, Cut(d)[1]) IN
        SetMemory(Child(d, c), IF c \in held THEN Buffer(<<"DT", c>>) ELSE Null))

\* data_partitioned of DuctTeip gives the root's children memory of their own or none,
\* those that are held some.
LEMMA LinkCallsParts ==
    ASSUME Tree, NEW d \in DOMAIN data, NoneComing, data[d].partitioner # NoPartitioner,
           NEW held
    PROVE  /\ LinkCalls(d, held) \in Seq(CallTypes)
           /\ \A c \in Members(LinkCalls(d, held)) :
                 /\ CallOK(c) /\ c.fn = "set_memory"
                 /\ \E k \in 0..data[d].child_cnt - 1 :
                       /\ c.d = Child(d, k)
                       /\ \/ c.m = Null /\ k \notin held
                          \/ c.m = Buffer(<<"DT", k>>) /\ c.m # Null
           /\ \A c, e \in Members(LinkCalls(d, held)) : c.d = e.d => c.m = e.m
<1> DEFINE n == data[d].child_cnt
           y == Cut(d)[1]
           x == Cut(d)[2]
           At(i) == GetPart((i - 1) \div x, (i - 1) % x, y)
           Own(k) == IF k \in held THEN Buffer(<<"DT", k>>) ELSE Null
           F == [i \in 1..n |-> SetMemory(Child(d, At(i)), Own(At(i)))]
<1>1. /\ shape \in Shapes /\ n \in Nat /\ Settled(d)
      /\ Level(d) + 1 \in 1..2 /\ n = Count(Level(d) + 1) /\ Cut(d) = shape.cut[Level(d) + 1]
      /\ data[d].memory \in Place(Level(d))
    BY TreeFacts DEF Tree, Settled
<1>2. y \in Pos /\ x \in Pos /\ n = y * x
    BY <1>1, ShapeFacts DEF Count
<1>3. ASSUME NEW i \in 1..n
      PROVE  At(i) \in 0..n - 1
  <2>1. i - 1 \in Nat /\ i - 1 < y * x
      BY <1>1, <1>2
  <2> HIDE DEF y, x
  <2>2. At(i) \in Nat /\ At(i) < y * x
      BY <2>1, <1>2, GridIndex
  <2> HIDE DEF n, At
  <2> QED BY <2>2, <1>1, <1>2
<1>4. ASSUME NEW k \in 0..n - 1
      PROVE  /\ Own(k) \in Place(Level(Child(d, k)))
             /\ \/ Own(k) = Null /\ k \notin held
                \/ Own(k) = Buffer(<<"DT", k>>) /\ Own(k) # Null
  <2>1. Level(Child(d, k)) \in 0..2
    <3>1. Level(Child(d, k)) = Level(d) + 1
        BY TreeFacts
    <3> QED BY <3>1, <1>1
  <2>2. k \in Nat
      BY <1>1
  <2>3. <<"DT", k>> \in Buffers \ {<<"null">>}
    <3>1. <<"DT", k>> \in Buffers
        BY <2>2 DEF Buffers
    <3>2. <<"DT", k>> # <<"null">>
        OBVIOUS
    <3> QED BY <3>1, <3>2
  <2> QED BY <2>1, <2>3, <1>1, PlaceFacts
<1>5. LinkCalls(d, held) = F
    BY DEF LinkCalls, OverGrid
<1> HIDE DEF Own
<1>6. ASSUME NEW i \in 1..n
      PROVE  /\ F[i] \in CallTypes /\ CallOK(F[i]) /\ F[i].fn = "set_memory"
             /\ F[i].d = Child(d, At(i)) /\ F[i].m = Own(At(i))
  <2>1. F[i] = SetMemory(Child(d, At(i)), Own(At(i)))
      BY DEF F
  <2> HIDE DEF F
  <2>2. At(i) \in 0..data[d].child_cnt - 1
      BY <1>3
  <2> HIDE DEF At
  <2>3. Own(At(i)) \in Place(Level(Child(d, At(i))))
      BY <2>2, <1>4
  <2> QED BY <2>1, <2>2, <2>3, <1>1, PartCall
<1> HIDE DEF At
<1>7. F \in [1..n -> CallTypes]
    BY <1>6
<1> HIDE DEF F
<1>8. /\ F \in Seq(CallTypes)
      /\ \A c \in Members(F) : \E i \in 1..n : c = F[i]
  <2> HIDE DEF n
  <2>1. n \in Nat
      BY <1>1
  <2> QED BY <2>1, <1>7, FunIsSeq
<1>9. ASSUME NEW c \in Members(F)
      PROVE  /\ CallOK(c) /\ c.fn = "set_memory"
             /\ \E k \in 0..n - 1 :
                   /\ c.d = Child(d, k)
                   /\ \/ c.m = Null /\ k \notin held
                      \/ c.m = Buffer(<<"DT", k>>) /\ c.m # Null
  <2>1. PICK i \in 1..n : c = F[i]
      BY <1>8
  <2>2. At(i) \in 0..n - 1
      BY <1>3
  <2>3. c.d = Child(d, At(i)) /\ c.m = Own(At(i)) /\ CallOK(c) /\ c.fn = "set_memory"
      BY <2>1, <1>6
  <2> QED BY <2>2, <2>3, <1>4
<1>10. ASSUME NEW c \in Members(F), NEW e \in Members(F), c.d = e.d
       PROVE  c.m = e.m
  <2>1. PICK i \in 1..n : c = F[i]
      BY <1>8
  <2>2. PICK j \in 1..n : e = F[j]
      BY <1>8
  <2>3. At(i) \in 0..n - 1 /\ At(j) \in 0..n - 1
      BY <1>3
  <2>4. At(i) \in Nat /\ At(j) \in Nat
      BY <1>1, <2>3
  <2>5. /\ c.d = Child(d, At(i)) /\ c.m = Own(At(i))
        /\ e.d = Child(d, At(j)) /\ e.m = Own(At(j))
      BY <2>1, <2>2, <1>6
  <2>6. d \in Nodes
      BY TreeFacts
  <2>7. \A a, b \in Nat : Child(d, a) = Child(d, b) => a = b
      BY <2>6, ChildFacts
  <2>8. At(i) = At(j)
      BY <1>10, <2>4, <2>5, <2>7
  <2> QED BY <2>5, <2>8
<1> QED BY <1>5, <1>8, <1>9, <1>10

(* The bodies that do not change the tree *)

\* What is known of the call that is made, and of those that follow it.
LEMMA HeadFacts ==
    ASSUME Tree, calls # <<>>
    PROVE  /\ Head(calls) \in CallTypes /\ Head(calls) \in Pending /\ CallOK(Head(calls))
           /\ Head(calls).d \in Nodes
           /\ Head(calls).fn \in {"data_partitioned", "fill", "set_partition"} => NoneComing
           /\ Head(calls).fn \in {"data_partitioned", "fill", "set_partition", "GData"} =>
                 \A c \in Pending :
                     c.fn \notin {"set_memory", "data_set_memory", "data_created"}
           /\ Head(calls).fn = "data_created" =>
                 \A c \in Pending : c.fn \notin {"set_memory", "data_set_memory"}
           /\ Head(calls).fn = "set_memory" =>
                 \A c \in Pending : c.fn # "data_set_memory"
           /\ Head(calls).fn = "set_partition" =>
                 \A c \in Pending : c.fn # "data_partitioned"
           /\ \A c \in Pending : c \in CallTypes /\ CallOK(c)
<1>1. /\ <<>> \in Seq(CallTypes) /\ calls \in Seq(CallTypes) /\ Ordered(calls)
      /\ \A c \in Pending : CallOK(c)
    BY DEF Tree, CallsOK
<1>2. /\ Head(calls) \in CallTypes /\ Head(calls) \in Pending
      /\ Pending = {Head(calls)} \cup Members(Tail(calls))
    BY <1>1, HeadAndTail DEF Pending
<1>3. \A c \in Pending : c \in CallTypes
    BY <1>1, ElementOfSeq DEF Pending, Members
<1>4. \A c \in Members(Tail(calls)) : Rank(Head(calls)) <= Rank(c)
    BY <1>1, OrderedTail
<1>5. \A c \in Pending : Rank(Head(calls)) <= Rank(c)
  <2>1. Rank(Head(calls)) \in Int
      BY <1>2, Ranks
  <2>2. Rank(Head(calls)) <= Rank(Head(calls))
      BY <2>1
  <2> QED BY <1>2, <1>4, <2>2
<1>6. Head(calls).d \in Nodes
    BY <1>2, CallFields
<1> DEFINE r == Rank(Head(calls))
<1>7. /\ Head(calls).fn \in {"data_partitioned", "fill", "set_partition"} => r \in {4, 5}
      /\ Head(calls).fn = "set_partition" => r = 5
      /\ Head(calls).fn = "GData" => r = 3
      /\ Head(calls).fn = "data_created" => r = 2
      /\ Head(calls).fn = "set_memory" => r = 1
    BY <1>2 DEF Rank
<1>8. /\ ~(5 <= 4) /\ ~(5 <= 3) /\ ~(5 <= 2) /\ ~(5 <= 1) /\ ~(5 <= 0)
      /\ ~(4 <= 3) /\ ~(4 <= 2) /\ ~(4 <= 1) /\ ~(4 <= 0) /\ ~(3 <= 2) /\ ~(3 <= 1)
      /\ ~(3 <= 0) /\ ~(2 <= 1) /\ ~(2 <= 0) /\ ~(1 <= 0)
    OBVIOUS
<1>9. ASSUME NEW c \in Pending
      PROVE  /\ r \in {4, 5} => c.fn \notin {"GData", "data_created", "set_memory",
                                            "data_set_memory"}
             /\ r = 5 => c.fn # "data_partitioned"
             /\ r = 3 => c.fn \notin {"data_created", "set_memory", "data_set_memory"}
             /\ r = 2 => c.fn \notin {"set_memory", "data_set_memory"}
             /\ r = 1 => c.fn # "data_set_memory"
  <2>1. /\ c.fn = "set_memory" => Rank(c) = 1
        /\ c.fn = "data_set_memory" => Rank(c) = 0
        /\ c.fn = "data_created" => Rank(c) = 2
        /\ c.fn = "GData" => Rank(c) = 3
        /\ c.fn = "data_partitioned" => Rank(c) = 4
      BY DEF Rank
  <2>2. r <= Rank(c)
      BY <1>5
  <2> HIDE DEF Pending, r
  <2> QED BY <2>1, <2>2, <1>8, Zenon
<1> HIDE DEF r
<1> QED BY <1>1, <1>2, <1>3, <1>6, <1>7, <1>9 DEF NoneComing

\* The memory of one data changes.
LEMMA MildMemory ==
    ASSUME Tree, NEW d \in DOMAIN data, NEW m \in Place(Level(d)),
           data' = [data EXCEPT ![d].memory = m],
           program' = program, shape' = shape, step' = step, partitioners' = partitioners
    PROVE  Mild
<1>1. data \in [DOMAIN data -> Datum] /\ data[d] \in Datum
    BY DEF Tree, DataOK
<1>2. m \in Addresses
    BY DEF Place
<1>3. DOMAIN data' = DOMAIN data
    OBVIOUS
<1>4. /\ data'[d] = [data[d] EXCEPT !.memory = m]
      /\ \A e \in DOMAIN data : e # d => data'[e] = data[e]
    BY <1>1
<1>5. data'[d] \in Datum
    BY <1>1, <1>2, <1>4 DEF Datum
<1>6. /\ data'[d].rows = data[d].rows /\ data'[d].cols = data[d].cols
      /\ data'[d].child_cnt = data[d].child_cnt
      /\ data'[d].partitioner = data[d].partitioner
      /\ data'[d].memory = m
    BY <1>1, <1>4 DEF Datum
<1>7. data' \in [DOMAIN data -> Datum]
    BY <1>1, <1>4, <1>5
<1>8. \A e \in DOMAIN data : data[e].memory \in Place(Level(e))
    BY TreeFacts
<1> QED BY <1>3, <1>4, <1>6, <1>7, <1>8 DEF Mild

\* The guest of one data changes.
LEMMA MildGuest ==
    ASSUME Tree, NEW d \in DOMAIN data, NEW g \in Guests,
           data' = [data EXCEPT ![d].guest = g],
           program' = program, shape' = shape, step' = step, partitioners' = partitioners
    PROVE  Mild
<1>1. data \in [DOMAIN data -> Datum] /\ data[d] \in Datum
    BY DEF Tree, DataOK
<1>3. DOMAIN data' = DOMAIN data
    OBVIOUS
<1>4. /\ data'[d] = [data[d] EXCEPT !.guest = g]
      /\ \A e \in DOMAIN data : e # d => data'[e] = data[e]
    BY <1>1
<1>5. data'[d] \in Datum
    BY <1>1, <1>4 DEF Datum
<1>6. /\ data'[d].rows = data[d].rows /\ data'[d].cols = data[d].cols
      /\ data'[d].child_cnt = data[d].child_cnt
      /\ data'[d].partitioner = data[d].partitioner
      /\ data'[d].memory = data[d].memory
    BY <1>1, <1>4 DEF Datum
<1>7. data' \in [DOMAIN data -> Datum]
    BY <1>1, <1>4, <1>5
<1>8. \A e \in DOMAIN data : data[e].memory \in Place(Level(e))
    BY TreeFacts
<1> QED BY <1>3, <1>4, <1>6, <1>7, <1>8 DEF Mild

\* One data changes, but neither its place in the tree nor its memory.
LEMMA MildHandle ==
    ASSUME Tree, NEW d \in DOMAIN data, NEW r \in Datum,
           r.rows = data[d].rows, r.cols = data[d].cols, r.child_cnt = data[d].child_cnt,
           r.partitioner = data[d].partitioner, r.memory = data[d].memory,
           data' = [data EXCEPT ![d] = r],
           program' = program, shape' = shape, step' = step, partitioners' = partitioners
    PROVE  Mild
<1>1. data \in [DOMAIN data -> Datum] /\ data[d] \in Datum
    BY DEF Tree, DataOK
<1>2. DOMAIN data' = DOMAIN data
    OBVIOUS
<1>3. data'[d] = r /\ \A e \in DOMAIN data : e # d => data'[e] = data[e]
    BY <1>1
<1>4. data' \in [DOMAIN data -> Datum]
    BY <1>1, <1>3
<1>5. \A e \in DOMAIN data : data[e].memory \in Place(Level(e))
    BY TreeFacts
<1> QED BY <1>2, <1>3, <1>4, <1>5 DEF Mild

\* Nothing changes.
LEMMA MildSame ==
    ASSUME Tree, data' = data,
           program' = program, shape' = shape, step' = step, partitioners' = partitioners
    PROVE  Mild
<1>1. data \in [DOMAIN data -> Datum]
    BY DEF Tree, DataOK
<1>2. \A e \in DOMAIN data : data[e].memory \in Place(Level(e))
    BY TreeFacts
<1> QED BY <1>1, <1>2 DEF Mild

\* The calls that follow the next one.
Rest == Members(Tail(calls))

\* set_memory, in the variant that hands the memory down: StarPU is told, and the
\* children are given their parts.
LEMMA SetMemoryStaticStep ==
    ASSUME Tree, NEW d \in Nodes, SetMemoryStatic(d), partitioners' = partitioners
    PROVE  /\ Tree' /\ Rest \subseteq Pending'
           /\ \A c \in Pending' :
                 \/ c \in Rest
                 \/ c = MemorySet(d, Head(calls).m) /\ Has("SPU")
                 \/ /\ c.fn = "set_memory"
                    /\ \E k \in 0..data[d].child_cnt - 1 :
                          c.d = Child(d, k) /\ c.m = PartOf(Head(calls).m, Level(d), k)
           /\ Has("SPU") => MemorySet(d, Head(calls).m) \in Pending'
           /\ \A k \in 0..data[d].child_cnt - 1 :
                 \E c \in Pending' :
                    /\ c.fn = "set_memory" /\ c.d = Child(d, k)
                    /\ c.m = PartOf(Head(calls).m, Level(d), k)
<1> DEFINE m == Head(calls).m
           n == data[d].child_cnt
           bz == IF m = Null THEN 0 ELSE Size(Child(d, 0))
           parts == [i \in 1..n |-> SetMemory(Child(d, i - 1), Plus(m, (i - 1) * bz))]
           told == IF Has("SPU") THEN <<MemorySet(d, m)>> ELSE <<>>
<1>1. /\ calls # <<>> /\ Head(calls).fn = "set_memory" /\ Head(calls).d = d
      /\ data' = [data EXCEPT ![d].memory = m]
      /\ calls' = (told \o parts) \o Tail(calls)
      /\ program' = program /\ shape' = shape /\ step' = step
    BY DEF SetMemoryStatic, Calling, Makes
<1>2. shape \in Shapes /\ CallsOK
    BY DEF Tree
<1>3. d \in DOMAIN data /\ m \in Place(Level(d)) /\ Settled(d)
  <2>1. CallOK(Head(calls))
      BY <1>1, HeadFacts
  <2> QED BY <1>1, <2>1 DEF CallOK
<1>4. GivesParts(parts, d, m)
  <2> HIDE DEF m
  <2> QED BY <1>3, StaticParts
<1>5. m \in Addresses
    BY <1>2, <1>3, PlaceFacts
<1> DEFINE t == MemorySet(d, m)
<1>6. t \in CallTypes /\ t.fn = "data_set_memory" /\ t.d = d /\ t.m = m
  <2> HIDE DEF m
  <2> QED BY <1>5, CallsMade
<1> HIDE DEF m, n, parts, t
<1>7. CallOK(t) /\ Rank(t) = 0
    BY <1>3, <1>6 DEF CallOK, Rank
<1>8. /\ told \in Seq(CallTypes) /\ Ordered(told)
      /\ \A c \in Members(told) : c = t /\ Has("SPU")
      /\ Has("SPU") => t \in Members(told)
  <2>1. CASE Has("SPU")
    <3>1. told = <<t>>
        BY <2>1 DEF t
    <3>2. <<t>> \in Seq(CallTypes) /\ Members(<<t>>) = {t} /\ Ordered(<<t>>)
        BY <1>6, OneCall
    <3> HIDE DEF told
    <3> QED BY <2>1, <3>1, <3>2
  <2>2. CASE ~Has("SPU")
    <3>1. told = <<>>
        BY <2>2
    <3> HIDE DEF told
    <3> QED BY <2>2, <3>1, <1>6, OneCall, NoMembers
  <2> QED BY <2>1, <2>2
<1> HIDE DEF told
<1>9. /\ parts \in Seq(CallTypes)
      /\ \A c \in Members(parts) :
            /\ CallOK(c) /\ c.fn = "set_memory"
            /\ \E k \in 0..n - 1 : c.d = Child(d, k) /\ c.m = PartOf(m, Level(d), k)
      /\ \A k \in 0..n - 1 :
            \E c \in Members(parts) :
               c.fn = "set_memory" /\ c.d = Child(d, k) /\ c.m = PartOf(m, Level(d), k)
    BY <1>4 DEF GivesParts, n
<1>10. Ordered(parts) /\ \A c \in Members(parts) : Rank(c) = 1
    BY <1>9, MemoryCalls
<1>11. /\ told \o parts \in Seq(CallTypes)
       /\ Members(told \o parts) = Members(told) \cup Members(parts)
    BY <1>8, <1>9, MembersConcat
<1>12. Ordered(told \o parts)
  <2>1. ASSUME NEW c \in Members(told), NEW e \in Members(parts)
        PROVE  Rank(c) <= Rank(e) /\ ~Alike(c, e)
    <3>1. c = t /\ Rank(c) = 0 /\ Rank(e) = 1
        BY <1>7, <1>8, <1>10
    <3>2. c.fn = "data_set_memory"
        BY <3>1, <1>6
    <3> QED BY <3>1, <3>2 DEF Alike
  <2>2. \A c \in Members(told) : c.fn \notin {"GPartitioner", "set_next"}
      BY <1>6, <1>8
  <2>3. \A c \in Members(parts) : c.fn \notin {"GPartitioner", "set_next"}
      BY <1>9
  <2> QED BY <1>8, <1>9, <1>10, <2>1, <2>2, <2>3, OrderedConcat
<1>13. Rank(Head(calls)) = 1
    BY <1>1 DEF Rank
<1>14. \A c \in Members(told \o parts) :
          /\ CallOK(c) /\ Rank(c) <= Rank(Head(calls))
          /\ c.fn \notin {"GData", "GPartitioner", "set_next", "set_partition"}
  <2>1. ASSUME NEW c \in Members(told \o parts)
        PROVE  /\ CallOK(c) /\ Rank(c) \in {0, 1}
               /\ c.fn \in {"data_set_memory", "set_memory"}
      BY <1>6, <1>7, <1>8, <1>9, <1>10, <1>11
  <2> QED BY <1>13, <2>1
<1>15. Mild
    BY <1>1, <1>3, MildMemory
<1>16. Tree'
    BY <1>1, <1>11, <1>12, <1>14, <1>15, MildStep
<1>17. Pending' = Members(told \o parts) \cup Rest
    BY <1>1, <1>2, <1>11, PendingAfter DEF Rest
<1> HIDE DEF Pending
<1>18. Rest \subseteq Pending' /\ (Has("SPU") => t \in Pending')
    BY <1>8, <1>11, <1>17
<1>19. ASSUME NEW c \in Pending'
       PROVE  \/ c \in Rest
              \/ c = t /\ Has("SPU")
              \/ /\ c.fn = "set_memory"
                 /\ \E k \in 0..n - 1 : c.d = Child(d, k) /\ c.m = PartOf(m, Level(d), k)
    BY <1>8, <1>9, <1>11, <1>17
<1>20. \A k \in 0..n - 1 :
          \E c \in Pending' :
             c.fn = "set_memory" /\ c.d = Child(d, k) /\ c.m = PartOf(m, Level(d), k)
    BY <1>9, <1>11, <1>17
<1> QED BY <1>16, <1>18, <1>19, <1>20 DEF n, m, t

\* The bodies that make no call: the tree stays, and the call is done with.
LEMMA QuietBodies ==
    ASSUME Tree, NEW d \in Nodes, partitioners' = partitioners,
           \/ SetMemoryDynamic(d) \/ SPUCreated(d) \/ SPUSetMemory(d)
           \/ DTCreated(d) \/ DTWrapperCreated(d)
    PROVE  Tree' /\ Pending' = Rest /\ d \in DOMAIN data /\ DOMAIN data' = DOMAIN data
<1>1. /\ calls # <<>> /\ Head(calls).d = d
      /\ calls' = <<>> \o Tail(calls)
      /\ program' = program /\ shape' = shape /\ step' = step
      /\ Head(calls).fn \in {"set_memory", "data_created", "data_set_memory"}
    BY DEF SetMemoryDynamic, SPUCreated, SPUSetMemory, DTCreated, DTWrapperCreated,
           Told, Calling, Makes, NewOneLevelData
<1>2. shape \in Shapes /\ CallsOK /\ CallOK(Head(calls))
    BY <1>1, HeadFacts DEF Tree
<1>3. d \in DOMAIN data
    BY <1>1, <1>2 DEF CallOK
<1>4. data[d] \in Datum /\ data[d].guest \in Guests /\ data[d].handle \in Addresses
      /\ data[d].memory \in Addresses /\ "SPU" \in Guests /\ "DT" \in Guests
  <2>1. data[d] \in Datum
      BY <1>3, TreeFacts
  <2>2. "SPU" \in Guests /\ "DT" \in Guests
      BY Zenon DEF Guests
  <2> QED BY <2>1, <2>2 DEF Datum
<1>5. Mild
  <2>1. CASE SetMemoryDynamic(d)
    <3>1. data' = [data EXCEPT ![d].memory = Head(calls).m]
        BY <2>1 DEF SetMemoryDynamic
    <3>2. Head(calls).m \in Place(Level(d))
        BY <2>1, <1>1, <1>2 DEF SetMemoryDynamic, Calling, CallOK
    <3> QED BY <3>1, <3>2, <1>1, <1>3, MildMemory
  <2>2. CASE SPUCreated(d)
    <3>1. CASE OfStarPU(d)
      <4>1. data' = [data EXCEPT ![d] = NewSPUData(d)]
          BY <2>2, <3>1 DEF SPUCreated
      <4> DEFINE h == Registered(d, data[d].memory)
      <4>2. h \in Addresses
          BY <1>4 DEF Registered
      <4> HIDE DEF h
      <4>3. NewSPUData(d) = [[data[d] EXCEPT !.guest = "SPU"] EXCEPT !.handle = h]
          BY DEF NewSPUData, h
      <4>4. /\ NewSPUData(d) \in Datum
            /\ NewSPUData(d).rows = data[d].rows
            /\ NewSPUData(d).cols = data[d].cols
            /\ NewSPUData(d).child_cnt = data[d].child_cnt
            /\ NewSPUData(d).partitioner = data[d].partitioner
            /\ NewSPUData(d).memory = data[d].memory
          BY <4>2, <4>3, <1>4 DEF Datum
      <4> QED BY <4>1, <4>4, <1>1, <1>3, MildHandle
    <3>2. CASE ~OfStarPU(d)
      <4>1. data' = data
          BY <2>2, <3>2 DEF SPUCreated
      <4> QED BY <4>1, <1>1, MildSame
    <3> QED BY <3>1, <3>2
  <2>3. CASE SPUSetMemory(d)
    <3>1. CASE d # Root /\ OfStarPU(d)
      <4> DEFINE h == Registered(d, Head(calls).m)
      <4>1. data' = [data EXCEPT ![d].handle = h]
          BY <2>3, <3>1 DEF SPUSetMemory
      <4>2. Head(calls).m \in Addresses
        <5>1. Head(calls).m \in Place(Level(d))
            BY <2>3, <1>1, <1>2 DEF SPUSetMemory, Calling, CallOK
        <5> QED BY <5>1 DEF Place
      <4>3. h \in Addresses
          BY <1>4, <4>2 DEF Registered
      <4> HIDE DEF h
      <4> DEFINE r == [data[d] EXCEPT !.handle = h]
      <4>4. data' = [data EXCEPT ![d] = r]
          BY <4>1
      <4>5. /\ r \in Datum
            /\ r.rows = data[d].rows /\ r.cols = data[d].cols
            /\ r.child_cnt = data[d].child_cnt
            /\ r.partitioner = data[d].partitioner /\ r.memory = data[d].memory
          BY <4>3, <1>4 DEF Datum
      <4> HIDE DEF r
      <4> QED BY <4>4, <4>5, <1>1, <1>3, MildHandle
    <3>2. CASE ~(d # Root /\ OfStarPU(d))
      <4>1. data' = data
          BY <2>3, <3>2 DEF SPUSetMemory
      <4> QED BY <4>1, <1>1, MildSame
    <3> QED BY <3>1, <3>2
  <2>4. CASE DTCreated(d) \/ DTWrapperCreated(d)
    <3>1. data' = IF Level(d) > 1 THEN data ELSE [data EXCEPT ![d].guest = "DT"]
        BY <2>4 DEF DTCreated, DTWrapperCreated, NewOneLevelData
    <3>3. CASE Level(d) > 1
      <4>1. data' = data
          BY <3>1, <3>3
      <4> QED BY <4>1, <1>1, MildSame
    <3>4. CASE ~(Level(d) > 1)
      <4>1. data' = [data EXCEPT ![d].guest = "DT"]
          BY <3>1, <3>4
      <4> QED BY <4>1, <1>1, <1>3, <1>4, MildGuest
    <3> QED BY <3>3, <3>4
  <2> QED BY <2>1, <2>2, <2>3, <2>4
<1>6. Tree'
    BY <1>1, <1>5, QuietStep
<1>7. Pending' = Rest
  <2>1. <<>> \in Seq(CallTypes)
      OBVIOUS
  <2>2. Pending' = Members(<<>>) \cup Rest
      BY <1>1, <1>2, <2>1, PendingAfter DEF Rest
  <2> QED BY <2>2, NoMembers
<1> QED BY <1>3, <1>5, <1>6, <1>7 DEF Mild

\* data_created of SuperGlue gives a data its part of the memory of its parent, the
\* dynamic variant the root a buffer.
LEMMA SGCreatedStep ==
    ASSUME Tree, Allocated, NEW d \in Nodes, SGCreated(d) \/ SGWrapperCreated(d),
           partitioners' = partitioners
    PROVE  /\ Tree' /\ Rest \subseteq Pending' /\ d \in DOMAIN data
           /\ \A c \in Pending' :
                 \/ c \in Rest
                 \/ /\ c.fn = "set_memory" /\ c.d = d
                    /\ d # Root =>
                          c.m = PartOf(data[Parent(d)].memory, Level(Parent(d)), Last(d))
                    /\ d = Root => c.m = Buffer(<<"SG">>) /\ ~Static
                    /\ ~Static => c.m # Null
           /\ d # Root \/ ~Static =>
                 \E c \in Pending' : c.fn = "set_memory" /\ c.d = d
<1> DEFINE p == data[Parent(d)].memory
           v == IF d = Root THEN Buffer(<<"SG">>) ELSE PartOf(p, Level(Parent(d)), Last(d))
           none == d = Root /\ Static
           cs == IF none THEN <<>> ELSE <<SetMemory(d, v)>>
           s == SetMemory(d, v)
<1>1. /\ calls # <<>> /\ Head(calls).fn = "data_created" /\ Head(calls).d = d
      /\ Head(calls).by = "SG"
      /\ GuestIfNone(d, "SG")
      /\ program' = program /\ shape' = shape /\ step' = step
    BY DEF SGCreated, SGWrapperCreated, Told, Calling, Makes
<1>2. /\ shape \in Shapes /\ CallsOK /\ CallOK(Head(calls)) /\ Head(calls) \in Pending
      /\ 0 \in Nat
    BY <1>1, HeadFacts DEF Tree
<1>3. d \in DOMAIN data /\ data[d].partitioner = NoPartitioner /\ Has("SG")
    BY <1>1, <1>2 DEF CallOK, NoPartitioner, Has
<1>4. Level(d) \in 0..2 /\ Size(d) = SizeAt(Level(d)) /\ Settled(d)
  <2>1. data[d].child_cnt = 0
    <3>1. data[d].child_cnt \in Nat /\ ~(data[d].child_cnt > 0)
        BY <1>3, TreeFacts
    <3> QED BY <3>1
  <2> QED BY <2>1, <1>3, TreeFacts DEF Settled
<1>5. <<"SG">> \in Buffers \ {<<"null">>}
  <2>1. <<"SG">> \in Buffers
      BY DEF Buffers
  <2>2. <<"SG">> # <<"null">>
      OBVIOUS
  <2> QED BY <2>1, <2>2
<1>6. ASSUME d # Root
      PROVE  /\ Parent(d) \in DOMAIN data /\ p \in Place(Level(Parent(d)))
             /\ Level(Parent(d)) \in 0..1 /\ Level(Parent(d)) + 1 = Level(d)
             /\ Last(d) \in Nat /\ Last(d) < Count(Level(Parent(d)) + 1)
  <2>1. /\ Parent(d) \in DOMAIN data /\ data[Parent(d)].partitioner # NoPartitioner
        /\ Level(Parent(d)) + 1 = Level(d) /\ Last(d) \in 0..data[Parent(d)].child_cnt - 1
      BY <1>3, <1>6, TreeFacts
  <2>2. /\ p \in Place(Level(Parent(d))) /\ Level(Parent(d)) \in 0..1
        /\ data[Parent(d)].child_cnt = Count(Level(Parent(d)) + 1)
        /\ data[Parent(d)].child_cnt \in Nat
      BY <2>1, TreeFacts
  <2>3. Last(d) \in Nat /\ Last(d) < Count(Level(Parent(d)) + 1)
      BY <2>1, <2>2
  <2> QED BY <2>1, <2>2, <2>3
<1>7. d # Root /\ ~Static => p # Null
    BY <1>1, <1>2, <1>3 DEF Allocated
<1>8. v \in Place(Level(d)) /\ (~Static => v # Null)
  <2>1. CASE d = Root
      BY <2>1, <1>2, <1>4, <1>5, PlaceFacts
  <2>2. CASE d # Root
    <3>1. v = PartOf(p, Level(Parent(d)), Last(d))
        BY <2>2
    <3>2. CASE p = Null
        BY <2>2, <3>1, <3>2, <1>2, <1>4, <1>7, PlaceFacts DEF PartOf
    <3>3. CASE p # Null
      <4>1. /\ Plus(p, Last(d) * SizeAt(Level(Parent(d)) + 1))
                  \in Place(Level(Parent(d)) + 1)
            /\ Plus(p, Last(d) * SizeAt(Level(Parent(d)) + 1)) # Null
        <5> HIDE DEF p
        <5> QED BY <2>2, <3>3, <1>2, <1>6, PartPlace
      <4> QED BY <2>2, <3>1, <3>3, <4>1, <1>6 DEF PartOf
    <3> QED BY <3>2, <3>3
  <2> QED BY <2>1, <2>2
<1>9. calls' = cs \o Tail(calls)
  <2>1. CASE SGCreated(d)
    <3>1. Static /\ calls' = (IF d = Root THEN <<>>
             ELSE <<SetMemory(d, IF p = Null THEN p ELSE Plus(p, Last(d) * Size(d)))>>)
             \o Tail(calls)
        BY <2>1 DEF SGCreated, Makes
    <3>2. d # Root => v = IF p = Null THEN p ELSE Plus(p, Last(d) * Size(d))
        BY <1>4, <1>6 DEF PartOf
    <3> HIDE DEF v
    <3> QED BY <3>1, <3>2
  <2>2. CASE SGWrapperCreated(d)
    <3>1. /\ ~Static
          /\ d = Root => calls' = <<SetMemory(d, Buffer(<<"SG">>))>> \o Tail(calls)
          /\ d # Root =>
                calls' = <<SetMemory(d, Plus(p, Last(d) * Size(d)))>> \o Tail(calls)
        BY <2>2 DEF SGWrapperCreated, Makes
    <3>2. d # Root => v = Plus(p, Last(d) * Size(d))
        BY <3>1, <1>4, <1>6, <1>7 DEF PartOf
    <3>3. d = Root => v = Buffer(<<"SG">>)
        OBVIOUS
    <3> HIDE DEF v
    <3> QED BY <3>1, <3>2, <3>3
  <2> QED BY <2>1, <2>2
<1>10. s \in CallTypes /\ s.fn = "set_memory" /\ s.d = d /\ s.m = v
  <2>1. v \in Addresses
      BY <1>2, <1>8, PlaceFacts
  <2> HIDE DEF v
  <2> QED BY <2>1, CallsMade
<1> HIDE DEF v, s
<1>11. CallOK(s)
    BY <1>3, <1>4, <1>8, <1>10 DEF CallOK
<1>12. /\ cs \in Seq(CallTypes) /\ \A c \in Members(cs) : c = s
       /\ ~none => s \in Members(cs)
       /\ \A c \in Members(cs) : d = Root => ~Static
  <2>1. CASE none
    <3>1. cs = <<>> /\ <<>> \in Seq(CallTypes)
        BY <2>1
    <3> HIDE DEF cs
    <3> QED BY <2>1, <3>1, NoMembers
  <2>2. CASE ~none
    <3>1. cs = <<s>>
        BY <2>2 DEF s
    <3>2. <<s>> \in Seq(CallTypes) /\ Members(<<s>>) = {s}
        BY <1>10, OneCall
    <3> HIDE DEF cs
    <3> QED BY <2>2, <3>1, <3>2
  <2> QED BY <2>1, <2>2
<1> HIDE DEF cs
<1>13. Mild
  <2> DEFINE g == IF data[d].guest = "none" THEN "SG" ELSE data[d].guest
  <2>1. data' = [data EXCEPT ![d].guest = g]
      BY <1>1 DEF GuestIfNone
  <2>2. g \in Guests
    <3>1. data[d].guest \in Guests
        BY <1>3, TreeFacts DEF Datum
    <3>2. "SG" \in Guests
        BY Zenon DEF Guests
    <3> QED BY <3>1, <3>2
  <2> HIDE DEF g
  <2> QED BY <2>1, <2>2, <1>1, <1>3, MildGuest
<1>14. Tree'
    BY <1>1, <1>9, <1>10, <1>11, <1>12, <1>13, MemoryStep
<1>15. Pending' = Members(cs) \cup Rest
    BY <1>1, <1>2, <1>9, <1>12, PendingAfter DEF Rest
<1> HIDE DEF Pending
<1>16. Rest \subseteq Pending' /\ (~none => s \in Pending')
    BY <1>12, <1>15
<1>17. \A c \in Pending' : c \in Rest \/ (c = s /\ (d = Root => ~Static))
    BY <1>12, <1>15
<1>18. /\ d # Root => v = PartOf(p, Level(Parent(d)), Last(d))
       /\ d = Root => v = Buffer(<<"SG">>)
    BY DEF v
<1> QED BY <1>3, <1>8, <1>10, <1>14, <1>16, <1>17, <1>18

\* data_partitioned of SuperGlue gives children of a data their parts of its memory.
LEMMA SGPartitionedStep ==
    ASSUME Tree, Allocated, NEW d \in Nodes, SGPartitioned(d) \/ SGWrapperPartitioned(d),
           partitioners' = partitioners
    PROVE  /\ Tree' /\ Rest \subseteq Pending' /\ d \in DOMAIN data /\ NoneComing
           /\ ~Static => data[d].memory # Null
           /\ \A c \in Pending' :
                 \/ c \in Rest
                 \/ /\ c.fn = "set_memory"
                    /\ \E k \in 0..data[d].child_cnt - 1 :
                          c.d = Child(d, k) /\ c.m = PartOf(data[d].memory, Level(d), k)
<1> DEFINE none == Size(Child(d, 0)) = 1 \/ (d = Root /\ (Static \/ Has("DT")))
           cs == IF none THEN <<>> ELSE HandDown(d)
<1>1. /\ calls # <<>> /\ Head(calls).fn = "data_partitioned" /\ Head(calls).d = d
      /\ Head(calls).by = "SG" /\ data' = data
      /\ program' = program /\ shape' = shape /\ step' = step
    BY DEF SGPartitioned, SGWrapperPartitioned, Told, Calling, Makes
<1>2. /\ CallsOK /\ CallOK(Head(calls)) /\ NoneComing
      /\ \A c \in Pending : c.fn \notin {"set_memory", "data_created"}
    BY <1>1, HeadFacts DEF Tree
<1>3. d \in DOMAIN data /\ data[d].partitioner # NoPartitioner /\ Has("SG")
    BY <1>1, <1>2 DEF CallOK, NoPartitioner, Has
<1>4. ~Static => data[d].memory # Null
  <2> HIDE DEF Pending
  <2> QED BY <1>2, <1>3 DEF Allocated, Allocates
<1>5. calls' = cs \o Tail(calls)
  <2>1. CASE SGPartitioned(d)
    <3>1. /\ Static /\ calls' = (IF Size(Child(d, 0)) = 1 \/ d = Root THEN <<>>
                                 ELSE HandDown(d)) \o Tail(calls)
        BY <2>1 DEF SGPartitioned, Makes
    <3> QED BY <3>1
  <2>2. CASE SGWrapperPartitioned(d)
    <3>1. /\ ~Static /\ calls' = (IF Size(Child(d, 0)) = 1 \/ (d = Root /\ Has("DT"))
                                  THEN <<>> ELSE HandDown(d)) \o Tail(calls)
        BY <2>2 DEF SGWrapperPartitioned, Makes
    <3> QED BY <3>1
  <2> QED BY <2>1, <2>2
<1>6. /\ cs \in Seq(CallTypes)
      /\ \A c \in Members(cs) :
            /\ CallOK(c) /\ c.fn = "set_memory"
            /\ \E k \in 0..data[d].child_cnt - 1 :
                  c.d = Child(d, k) /\ c.m = PartOf(data[d].memory, Level(d), k)
  <2>1. CASE none
    <3>1. cs = <<>> /\ <<>> \in Seq(CallTypes)
        BY <2>1
    <3> HIDE DEF cs
    <3> QED BY <3>1, NoMembers
  <2>2. CASE ~none
    <3>1. cs = HandDown(d)
        BY <2>2
    <3> HIDE DEF cs
    <3> QED BY <3>1, <1>2, <1>3, <1>4, HandDownParts
  <2> QED BY <2>1, <2>2
<1> HIDE DEF cs
<1>7. Mild
    BY <1>1, MildSame
<1>8. Tree'
    BY <1>1, <1>5, <1>6, <1>7, MemoryStep
<1>9. Pending' = Members(cs) \cup Rest
    BY <1>1, <1>2, <1>5, <1>6, PendingAfter DEF Rest
<1> HIDE DEF Pending
<1> QED BY <1>2, <1>3, <1>4, <1>6, <1>8, <1>9

\* data_partitioned of DuctTeip gives the root's children memory of their own, and sets
\* that of a data below to what it is.
LEMMA DTPartitionedStep ==
    ASSUME Tree, NEW d \in Nodes, DTPartitioned(d) \/ DTWrapperPartitioned(d),
           partitioners' = partitioners
    PROVE  /\ Tree' /\ Rest \subseteq Pending' /\ d \in DOMAIN data /\ NoneComing
           /\ data[d].partitioner # NoPartitioner
           /\ DOMAIN data' = DOMAIN data
           /\ \A e \in DOMAIN data :
                 /\ data'[e].memory = data[e].memory /\ data'[e].handle = data[e].handle
                 /\ data'[e].guest = IF d = Root /\ Level(e) = 1 THEN "DTPart"
                                     ELSE data[e].guest
           /\ \A c \in Pending' :
                 \/ c \in Rest
                 \/ /\ c.fn = "set_memory" /\ d = Root /\ (~Static => c.m # Null)
                    /\ \E k \in 0..data[d].child_cnt - 1 :
                          /\ c.d = Child(d, k)
                          /\ c.m = Null \/ c.m = Buffer(<<"DT", k>>)
                 \/ /\ c = SetMemory(d, data[d].memory) /\ Static
                    /\ Level(d) = 1 /\ c.fn = "set_memory"
                    /\ c.d = d /\ c.m = data[d].memory
           /\ \A c, e \in Pending' : c.d = e.d => c \in Rest \/ e \in Rest \/ c.m = e.m
<1>1. /\ calls # <<>> /\ Head(calls).fn = "data_partitioned" /\ Head(calls).d = d
      /\ Head(calls).by = "DT"
    BY DEF DTPartitioned, DTWrapperPartitioned, Told, Calling
<1>2. CallsOK /\ CallOK(Head(calls)) /\ NoneComing
    BY <1>1, HeadFacts DEF Tree
<1>3. /\ d \in DOMAIN data /\ data[d].partitioner # NoPartitioner /\ Has("DT")
      /\ data \in [DOMAIN data -> Datum] /\ Settled(d)
    BY <1>1, <1>2 DEF CallOK, NoPartitioner, Has, Tree, DataOK, Settled
<1>4. Level(Root) = 0
    BY DEF Level, Root
<1>5. \A e \in DOMAIN data : /\ data[e].memory \in Place(Level(e)) /\ data[e] \in Datum
    BY TreeFacts
<1>6. data[d].memory \in Addresses
    BY <1>3, <1>5 DEF Place
<1> DEFINE s == SetMemory(d, data[d].memory)
<1>7. s \in CallTypes /\ s.fn = "set_memory" /\ s.d = d /\ s.m = data[d].memory
    BY <1>6, CallsMade
<1> HIDE DEF s
<1>8. CallOK(s)
    BY <1>3, <1>5, <1>7 DEF CallOK
<1>9. ASSUME NEW cs \in Seq(CallTypes), calls' = cs \o Tail(calls), Mild,
             \A c \in Members(cs) : CallOK(c) /\ c.fn = "set_memory"
      PROVE  Tree' /\ Pending' = Members(cs) \cup Rest
  <2>1. Tree'
      BY <1>1, <1>9, MemoryStep
  <2> QED BY <2>1, <1>1, <1>2, <1>9, PendingAfter DEF Rest
<1>10. CASE /\ d = Root
            /\ \E held :
                  LinkParts(d, held) /\ (~Static => held = 0..data[d].child_cnt - 1)
  <2>1. PICK held : LinkParts(d, held) /\ (~Static => held = 0..data[d].child_cnt - 1)
      BY <1>10
  <2> DEFINE cs == LinkCalls(d, held)
  <2>2. /\ data' = [c \in DOMAIN data |->
                 IF Level(c) = 1 THEN [data[c] EXCEPT !.guest = "DTPart"] ELSE data[c]]
        /\ calls' = cs \o Tail(calls)
        /\ program' = program /\ shape' = shape /\ step' = step
      BY <2>1 DEF LinkParts, LinkCalls, OverGrid, Makes
  <2>3. /\ cs \in Seq(CallTypes)
        /\ \A c \in Members(cs) :
               /\ CallOK(c) /\ c.fn = "set_memory"
               /\ \E k \in 0..data[d].child_cnt - 1 :
                     /\ c.d = Child(d, k)
                     /\ \/ c.m = Null /\ k \notin held
                        \/ c.m = Buffer(<<"DT", k>>) /\ c.m # Null
        /\ \A c, e \in Members(cs) : c.d = e.d => c.m = e.m
      BY <1>2, <1>3, LinkCallsParts
  <2> HIDE DEF cs
  <2>4. ASSUME NEW c \in Members(cs)
        PROVE  /\ CallOK(c) /\ c.fn = "set_memory" /\ (~Static => c.m # Null)
               /\ \E k \in 0..data[d].child_cnt - 1 :
                     c.d = Child(d, k) /\ (c.m = Null \/ c.m = Buffer(<<"DT", k>>))
      BY <2>1, <2>3
  <2> DEFINE part == "DTPart"
  <2>5. part \in Guests
      BY DEF Guests
  <2>6. data' = [c \in DOMAIN data |->
                    IF Level(c) = 1 THEN [data[c] EXCEPT !.guest = part] ELSE data[c]]
      BY <2>2
  <2> HIDE DEF part
  <2>7. ASSUME NEW e \in DOMAIN data
        PROVE  /\ data'[e] \in Datum
               /\ data'[e].rows = data[e].rows /\ data'[e].cols = data[e].cols
               /\ data'[e].child_cnt = data[e].child_cnt
               /\ data'[e].partitioner = data[e].partitioner
               /\ data'[e].memory = data[e].memory /\ data'[e].handle = data[e].handle
               /\ data'[e].guest = IF Level(e) = 1 THEN part ELSE data[e].guest
    <3>1. CASE Level(e) = 1
      <4>1. data'[e] = [data[e] EXCEPT !.guest = part]
          BY <3>1, <2>6
      <4> QED BY <3>1, <4>1, <2>5, <1>5 DEF Datum
    <3>2. CASE Level(e) # 1
        BY <3>2, <2>6, <1>5
    <3> QED BY <3>1, <3>2
  <2>8. DOMAIN data' = DOMAIN data /\ data' \in [DOMAIN data -> Datum]
    <3>1. DOMAIN data' = DOMAIN data
        BY <2>6
    <3> QED BY <3>1, <2>6, <2>7
  <2>9. Mild
      BY <1>5, <2>2, <2>7, <2>8 DEF Mild
  <2>10. Tree' /\ Pending' = Members(cs) \cup Rest
      BY <2>2, <2>3, <2>9, <1>9
  <2> HIDE DEF Pending
  <2>11. \A e \in DOMAIN data :
            /\ data'[e].memory = data[e].memory /\ data'[e].handle = data[e].handle
            /\ data'[e].guest = IF d = Root /\ Level(e) = 1 THEN "DTPart"
                                ELSE data[e].guest
      BY <2>7, <1>10 DEF part
  <2>12. \A c \in Pending' :
            \/ c \in Rest
            \/ /\ c.fn = "set_memory" /\ d = Root /\ (~Static => c.m # Null)
               /\ \E k \in 0..data[d].child_cnt - 1 :
                     c.d = Child(d, k) /\ (c.m = Null \/ c.m = Buffer(<<"DT", k>>))
      BY <2>4, <2>10, <1>10
  <2>13. \A c, e \in Pending' : c.d = e.d => c \in Rest \/ e \in Rest \/ c.m = e.m
      BY <2>3, <2>10
  <2> QED BY <1>2, <1>3, <2>8, <2>10, <2>11, <2>12, <2>13
<1>11. CASE /\ d # Root /\ data' = data
            /\ \/ Makes(<<>>)
               \/ Makes(<<SetMemory(d, data[d].memory)>>) /\ Static /\ Level(d) = 1
  <2> DEFINE quiet == ~(Static /\ Level(d) = 1) \/ Makes(<<>>)
             cs == IF quiet THEN <<>> ELSE <<s>>
  <2>1. /\ calls' = cs \o Tail(calls)
        /\ program' = program /\ shape' = shape /\ step' = step
      BY <1>11 DEF Makes, s
  <2>2. /\ cs \in Seq(CallTypes)
        /\ \A c \in Members(cs) : c = s /\ Static /\ Level(d) = 1
    <3>1. CASE quiet
      <4>1. cs = <<>> /\ <<>> \in Seq(CallTypes)
          BY <3>1
      <4> HIDE DEF cs
      <4> QED BY <4>1, NoMembers
    <3>2. CASE ~quiet
      <4>1. cs = <<s>> /\ Static /\ Level(d) = 1
          BY <3>2
      <4>2. <<s>> \in Seq(CallTypes) /\ Members(<<s>>) = {s}
          BY <1>7, OneCall
      <4> HIDE DEF cs
      <4> QED BY <4>1, <4>2
    <3> QED BY <3>1, <3>2
  <2> HIDE DEF cs, quiet
  <2>3. Mild
      BY <1>11, <2>1, MildSame
  <2>4. Tree' /\ Pending' = Members(cs) \cup Rest
      BY <1>7, <1>8, <1>9, <2>1, <2>2, <2>3
  <2> HIDE DEF Pending
  <2>5. \A c \in Pending' :
           \/ c \in Rest
           \/ /\ c = SetMemory(d, data[d].memory) /\ Static
              /\ Level(d) = 1 /\ c.fn = "set_memory" /\ c.d = d /\ c.m = data[d].memory
      BY <1>7, <2>2, <2>4 DEF s
  <2>6. \A c, e \in Pending' : c.d = e.d => c \in Rest \/ e \in Rest \/ c.m = e.m
      BY <2>2, <2>4
  <2> QED BY <1>2, <1>3, <1>11, <2>4, <2>5, <2>6
<1>12. \/ /\ d = Root
          /\ \E held :
                LinkParts(d, held) /\ (~Static => held = 0..data[d].child_cnt - 1)
       \/ /\ d # Root /\ data' = data
          /\ \/ Makes(<<>>)
             \/ Makes(<<SetMemory(d, data[d].memory)>>) /\ Static /\ Level(d) = 1
  <2>1. CASE DTPartitioned(d)
    <3>1. /\ Static
          /\ \/ /\ d = Root
                /\ \E held \in SUBSET (0..data[d].child_cnt - 1) : LinkParts(d, held)
             \/ Level(d) = 1 /\ Makes(<<SetMemory(d, data[d].memory)>>) /\ data' = data
             \/ Level(d) > 1 /\ Makes(<<>>) /\ data' = data
        BY <2>1 DEF DTPartitioned
    <3>2. ~(0 > 1) /\ 0 # 1
        OBVIOUS
    <3>3. Level(d) > 1 \/ Level(d) = 1 => d # Root
        BY <1>4, <3>2
    <3> QED BY <3>1, <3>3
  <2>2. CASE DTWrapperPartitioned(d)
    <3>1. /\ ~Static
          /\ d = Root => LinkParts(d, 0..data[d].child_cnt - 1)
          /\ d # Root => Makes(<<>>) /\ data' = data
        BY <2>2 DEF DTWrapperPartitioned
    <3> QED BY <3>1
  <2> QED BY <2>1, <2>2
<1> QED BY <1>10, <1>11, <1>12

\* A fill goes on with fills.
LEMMA FillStep ==
    ASSUME Tree, NEW d \in Nodes, FillWith(d) \/ FillByElement(d),
           partitioners' = partitioners
    PROVE  /\ Tree' /\ Rest \subseteq Pending' /\ data' = data
           /\ \A c \in Pending' : c \in Rest \/ c.fn = "fill"
<1> DEFINE n == data[d].child_cnt
           fills == [i \in 1..n |-> Fill(Child(d, i - 1))]
<1>1. /\ calls # <<>> /\ Head(calls).fn = "fill" /\ Head(calls).d = d /\ data' = data
      /\ program' = program /\ shape' = shape /\ step' = step
      /\ calls' = fills \o Tail(calls) \/ calls' = <<>> \o Tail(calls)
    BY DEF FillWith, FillByElement, Calling, Makes
<1>2. CallsOK /\ CallOK(Head(calls)) /\ NoneComing
    BY <1>1, HeadFacts DEF Tree
<1>3. d \in DOMAIN data /\ n \in Nat /\ Settled(d)
    BY <1>1, <1>2, TreeFacts DEF CallOK, Settled
<1>4. ASSUME NEW i \in 1..n
      PROVE  fills[i] \in CallTypes /\ fills[i].fn = "fill" /\ CallOK(fills[i])
  <2>1. i - 1 \in 0..data[d].child_cnt - 1
      BY <1>3
  <2>2. Child(d, i - 1) \in DOMAIN data /\ Child(d, i - 1) \in Nodes
      BY <2>1, <1>3, SettledChildren, TreeFacts
  <2> DEFINE c == Fill(Child(d, i - 1))
  <2>3. c \in CallTypes /\ c.fn = "fill" /\ c.d = Child(d, i - 1)
      BY <2>2, CallsMade
  <2>4. fills[i] = c
      OBVIOUS
  <2> HIDE DEF c, fills
  <2>5. CallOK(c)
      BY <2>2, <2>3 DEF CallOK
  <2> QED BY <2>3, <2>4, <2>5
<1>5. fills \in [1..n -> CallTypes]
    BY <1>4
<1> HIDE DEF fills
<1>6. fills \in Seq(CallTypes) /\ \A c \in Members(fills) : \E i \in 1..n : c = fills[i]
  <2> HIDE DEF n
  <2>1. n \in Nat
      BY <1>3
  <2> QED BY <2>1, <1>5, FunIsSeq
<1>7. PICK cs \in Seq(CallTypes) :
          /\ calls' = cs \o Tail(calls)
          /\ \A c \in Members(cs) : c \in CallTypes /\ c.fn = "fill" /\ CallOK(c)
  <2>1. CASE calls' = fills \o Tail(calls)
      BY <2>1, <1>4, <1>6
  <2>2. CASE calls' = <<>> \o Tail(calls)
    <3>1. <<>> \in Seq(CallTypes)
        OBVIOUS
    <3> QED BY <2>2, <3>1, NoMembers
  <2> QED BY <2>1, <2>2, <1>1
<1>8. \A c \in Members(cs) : Rank(c) = 5
    BY <1>7 DEF Rank
<1>9. Ordered(cs)
    BY <1>7, <1>8, OrderedOfRank0
<1>10. Rank(Head(calls)) = 5
    BY <1>1 DEF Rank
<1>11. \A c \in Members(cs) :
          /\ CallOK(c) /\ Rank(c) <= Rank(Head(calls))
          /\ c.fn \notin {"GData", "GPartitioner", "set_next", "set_partition"}
    BY <1>7, <1>8, <1>10
<1>12. Mild
    BY <1>1, MildSame
<1>13. Tree'
    BY <1>1, <1>7, <1>9, <1>11, <1>12, MildStep
<1>14. Pending' = Members(cs) \cup Rest
    BY <1>1, <1>2, <1>7, PendingAfter DEF Rest
<1> HIDE DEF Pending
<1> QED BY <1>1, <1>7, <1>13, <1>14

(* The bodies that make and cut data *)

\* Every scheduler of the program is told of a data that is made, in the order of calls.
LEMMA TellCreatedCalls ==
    ASSUME program \in Programs, NEW d \in Nodes
    PROVE  /\ TellCreated(d) \in Seq(CallTypes) /\ Ordered(TellCreated(d))
           /\ \A c \in Members(TellCreated(d)) :
                 /\ c \in CallTypes /\ c.fn = "data_created" /\ c.d = d
                 /\ c.by \in program.scheds /\ Rank(c) = 2
           /\ \A s \in program.scheds : Created(s, d) \in Members(TellCreated(d))
<1> DEFINE t(s) == Tell(s, Created(s, d))
<1>1. /\ program.scheds \subseteq Scheds /\ program.binding \in {"static", "dynamic"}
      /\ Has("SPU") => Static
    BY ProgramsAssumption DEF Scheds, Has, Static
<1>2. ASSUME NEW s \in Scheds
      PROVE  /\ t(s) \in Seq(CallTypes)
             /\ \A c \in Members(t(s)) : c = Created(s, d) /\ s \in program.scheds
             /\ s \in program.scheds => Created(s, d) \in Members(t(s))
  <2> DEFINE k == Created(s, d)
             q == IF s \in program.scheds THEN <<k>> ELSE <<>>
  <2>1. k \in CallTypes
      BY CallsMade
  <2> HIDE DEF k
  <2>2. <<k>> \in Seq(CallTypes) /\ Members(<<k>>) = {k}
        /\ <<>> \in Seq(CallTypes) /\ Members(<<>>) = {}
      BY <2>1, OneCall, NoMembers
  <2>3. q \in Seq(CallTypes) /\ (\A c \in Members(q) : c = k /\ s \in program.scheds)
        /\ (s \in program.scheds => k \in Members(q))
    <3>1. CASE s \in program.scheds
      <4>1. q = <<k>>
          BY <3>1
      <4> HIDE DEF q
      <4> QED BY <3>1, <4>1, <2>2
    <3>2. CASE s \notin program.scheds
      <4>1. q = <<>>
          BY <3>2
      <4> HIDE DEF q
      <4> QED BY <3>2, <4>1, <2>2
    <3> QED BY <3>1, <3>2
  <2>4. t(s) = q
      BY DEF Tell, Has, k
  <2> HIDE DEF q, t
  <2> QED BY <2>3, <2>4 DEF k
<1> DEFINE sg == t("SG")
           dt == t("DT")
           spu == t("SPU")
           two == sg \o dt
           both == IF Static THEN two \o spu ELSE dt \o sg
<1>3. TellCreated(d) = both
    BY DEF TellCreated
<1>4. "SG" \in Scheds /\ "DT" \in Scheds /\ "SPU" \in Scheds
    BY DEF Scheds
<1>5. sg \in Seq(CallTypes) /\ dt \in Seq(CallTypes) /\ spu \in Seq(CallTypes)
    BY <1>2, <1>4
<1> HIDE DEF t
<1>6. /\ both \in Seq(CallTypes)
      /\ Members(both) =
            Members(sg) \cup Members(dt) \cup (IF Static THEN Members(spu) ELSE {})
  <2> HIDE DEF sg, dt, spu
  <2>1. /\ two \in Seq(CallTypes) /\ Members(two) = Members(sg) \cup Members(dt)
        /\ dt \o sg \in Seq(CallTypes) /\ Members(dt \o sg) = Members(sg) \cup Members(dt)
      BY <1>5, MembersConcat
  <2> HIDE DEF two
  <2>2. two \o spu \in Seq(CallTypes) /\ Members(two \o spu) = Members(two) \cup Members(spu)
      BY <1>5, <2>1, MembersConcat
  <2> QED BY <2>1, <2>2
<1> HIDE DEF both
<1>7. \A s \in program.scheds : Created(s, d) \in Members(both)
  <2>1. \A s \in program.scheds : s \in Scheds /\ Created(s, d) \in Members(t(s))
      BY <1>1, <1>2
  <2>2. \A s \in Scheds : s = "SG" \/ s = "DT" \/ s = "SPU"
      BY DEF Scheds
  <2> QED BY <1>1, <1>6, <2>1, <2>2 DEF Has
<1>8. ASSUME NEW c \in Members(both)
      PROVE  /\ c \in CallTypes /\ c.fn = "data_created" /\ c.d = d
             /\ c.by \in program.scheds /\ Rank(c) = 2
  <2>1. \E s \in Scheds : c \in Members(t(s))
      BY <1>4, <1>6
  <2>2. PICK s \in Scheds : c = Created(s, d) /\ s \in program.scheds
      BY <2>1, <1>2
  <2> DEFINE k == Created(s, d)
  <2>3. k \in CallTypes /\ k.fn = "data_created" /\ k.d = d /\ k.by = s
      BY CallsMade
  <2> HIDE DEF k
  <2>4. Rank(k) = 2
      BY <2>3 DEF Rank
  <2> QED BY <2>2, <2>3, <2>4 DEF k
<1>9. Ordered(both)
    BY <1>6, <1>8, OrderedOfRank0
<1> QED BY <1>3, <1>6, <1>7, <1>8, <1>9

\* SuperGlue and DuctTeip are told of a data that has been cut.
LEMMA TellPartitionedCalls ==
    ASSUME program \in Programs, NEW d \in Nodes
    PROVE  /\ TellPartitioned(d) \in Seq(CallTypes) /\ Ordered(TellPartitioned(d))
           /\ \A c \in Members(TellPartitioned(d)) :
                 /\ c \in CallTypes /\ c.fn = "data_partitioned" /\ c.d = d
                 /\ c.by \in program.scheds /\ Rank(c) = 4
           /\ \A s \in program.scheds \cap {"SG", "DT"} :
                 Partitioned(s, d) \in Members(TellPartitioned(d))
<1> DEFINE t(s) == Tell(s, Partitioned(s, d))
<1>1. program.scheds \subseteq Scheds
    BY ProgramsAssumption DEF Scheds
<1>2. ASSUME NEW s \in Scheds
      PROVE  /\ t(s) \in Seq(CallTypes)
             /\ \A c \in Members(t(s)) : c = Partitioned(s, d) /\ s \in program.scheds
             /\ s \in program.scheds => Partitioned(s, d) \in Members(t(s))
  <2> DEFINE k == Partitioned(s, d)
             q == IF s \in program.scheds THEN <<k>> ELSE <<>>
  <2>1. k \in CallTypes
      BY CallsMade
  <2> HIDE DEF k
  <2>2. <<k>> \in Seq(CallTypes) /\ Members(<<k>>) = {k}
        /\ <<>> \in Seq(CallTypes) /\ Members(<<>>) = {}
      BY <2>1, OneCall, NoMembers
  <2>3. q \in Seq(CallTypes) /\ (\A c \in Members(q) : c = k /\ s \in program.scheds)
        /\ (s \in program.scheds => k \in Members(q))
    <3>1. CASE s \in program.scheds
      <4>1. q = <<k>>
          BY <3>1
      <4> HIDE DEF q
      <4> QED BY <3>1, <4>1, <2>2
    <3>2. CASE s \notin program.scheds
      <4>1. q = <<>>
          BY <3>2
      <4> HIDE DEF q
      <4> QED BY <3>2, <4>1, <2>2
    <3> QED BY <3>1, <3>2
  <2>4. t(s) = q
      BY DEF Tell, Has, k
  <2> HIDE DEF q, t
  <2> QED BY <2>3, <2>4 DEF k
<1> DEFINE sg == t("SG")
           dt == t("DT")
           both == IF Static THEN sg \o dt ELSE dt \o sg
<1>3. TellPartitioned(d) = both
    BY DEF TellPartitioned
<1>4. "SG" \in Scheds /\ "DT" \in Scheds
    BY DEF Scheds
<1>5. sg \in Seq(CallTypes) /\ dt \in Seq(CallTypes)
    BY <1>2, <1>4
<1> HIDE DEF t
<1>6. both \in Seq(CallTypes) /\ Members(both) = Members(sg) \cup Members(dt)
  <2> HIDE DEF sg, dt
  <2>1. /\ sg \o dt \in Seq(CallTypes) /\ Members(sg \o dt) = Members(sg) \cup Members(dt)
        /\ dt \o sg \in Seq(CallTypes) /\ Members(dt \o sg) = Members(sg) \cup Members(dt)
      BY <1>5, MembersConcat
  <2> QED BY <2>1
<1> HIDE DEF both
<1>7. \A s \in program.scheds \cap {"SG", "DT"} : Partitioned(s, d) \in Members(both)
  <2>1. \A s \in program.scheds : s \in Scheds /\ Partitioned(s, d) \in Members(t(s))
      BY <1>1, <1>2
  <2> QED BY <1>6, <2>1
<1>8. ASSUME NEW c \in Members(both)
      PROVE  /\ c \in CallTypes /\ c.fn = "data_partitioned" /\ c.d = d
             /\ c.by \in program.scheds /\ Rank(c) = 4
  <2>1. \E s \in Scheds : c \in Members(t(s))
      BY <1>4, <1>6
  <2>2. PICK s \in Scheds : c = Partitioned(s, d) /\ s \in program.scheds
      BY <2>1, <1>2
  <2> DEFINE k == Partitioned(s, d)
  <2>3. k \in CallTypes /\ k.fn = "data_partitioned" /\ k.d = d /\ k.by = s
      BY CallsMade
  <2> HIDE DEF k
  <2>4. Rank(k) = 4
      BY <2>3 DEF Rank
  <2> QED BY <2>2, <2>3, <2>4 DEF k
<1>9. Ordered(both)
    BY <1>6, <1>8, OrderedOfRank0
<1> QED BY <1>3, <1>6, <1>7, <1>8, <1>9

\* The constructor: there is one data more, and the schedulers are told.
LEMMA CreateDataStep ==
    ASSUME Tree, NEW d \in Nodes, CreateData(d), partitioners' = partitioners
    PROVE  /\ Tree' /\ d \notin DOMAIN data /\ DOMAIN data' = DOMAIN data \cup {d}
           /\ \A e \in DOMAIN data : e # d /\ data'[e] = data[e]
           /\ data'[d].memory = Null /\ data'[d].guest = "none" /\ data'[d].child_cnt = 0
           /\ Attached(d) /\ Rest \subseteq Pending'
           /\ \A c \in Rest :
                 /\ c.fn \notin {"set_memory", "data_set_memory", "data_created"}
                 /\ c.fn = "GData" => c.d # d
           /\ \A c \in Pending' :
                 \/ c \in Rest
                 \/ c.fn = "data_created" /\ c.d = d /\ c.by \in program.scheds
           /\ \A s \in program.scheds : Created(s, d) \in Pending'
<1> DEFINE h == Head(calls)
           new == [rows |-> h.rows, cols |-> h.cols, child_cnt |-> 0,
                   partitioner |-> NoPartitioner, memory |-> Null, guest |-> "none",
                   handle |-> NoHandle]
           cs == TellCreated(d)
<1>1. /\ calls # <<>> /\ h.fn = "GData" /\ h.d = d
      /\ data' = [e \in DOMAIN data \cup {d} |-> IF e # d THEN data[e] ELSE new]
      /\ calls' = cs \o Tail(calls)
      /\ program' = program /\ shape' = shape /\ step' = step
    BY DEF CreateData, Calling, Makes
<1>2. /\ PartitionersOK /\ DataOK /\ CallsOK /\ Phase
      /\ program \in Programs /\ shape \in Shapes
    BY DEF Tree
<1>3. /\ Nodes' = Nodes /\ CallTypes' = CallTypes
      /\ \A l : /\ Count(l)' = Count(l) /\ RowsAt(l)' = RowsAt(l)
                /\ ColsAt(l)' = ColsAt(l) /\ Place(l)' = Place(l)
      /\ Statements' = Statements /\ PartitionStep' = PartitionStep
    BY <1>1, SameShape
<1>4. /\ h \in CallTypes /\ CallOK(h) /\ h \in Pending
      /\ \A c \in Pending :
            c.fn \notin {"set_memory", "data_set_memory", "data_created"}
    BY <1>1, HeadFacts
<1>5. /\ d \notin DOMAIN data /\ Attached(d)
      /\ h.rows = RowsAt(Level(d)) /\ h.cols = ColsAt(Level(d))
      /\ h.rows \in Nat /\ h.cols \in Nat
    BY <1>1, <1>4, CallFields DEF CallOK
<1>6. /\ cs \in Seq(CallTypes) /\ Ordered(cs)
      /\ \A c \in Members(cs) :
            /\ c \in CallTypes /\ c.fn = "data_created" /\ c.d = d
            /\ c.by \in program.scheds /\ Rank(c) = 2
      /\ \A s \in program.scheds : Created(s, d) \in Members(cs)
    BY <1>2, TellCreatedCalls
<1> HIDE DEF cs
<1>7. /\ calls' \in Seq(CallTypes) /\ Pending = {h} \cup Rest
      /\ Pending' = Members(cs) \cup Rest
      /\ \A c \in Rest : /\ CallOK(c) /\ c \in CallTypes
                         /\ Rank(h) <= Rank(c) /\ ~Alike(h, c)
                         /\ c.fn \notin {"GPartitioner", "set_next"}
    BY <1>1, <1>2, <1>6, PendingAfter DEF Rest
<1>8. /\ DOMAIN data' = DOMAIN data \cup {d} /\ data'[d] = new
      /\ \A e \in DOMAIN data : e # d /\ data'[e] = data[e]
    BY <1>1, <1>5
<1>9. /\ new \in Datum /\ new.rows = h.rows /\ new.cols = h.cols /\ new.child_cnt = 0
      /\ new.partitioner = NoPartitioner /\ new.memory = Null /\ new.guest = "none"
  <2>1. NoHandle \in Addresses /\ Null \in Addresses
    <3> DEFINE b == <<"no handle">>
    <3>1. b \in Buffers
        BY Zenon DEF Buffers
    <3>2. NoHandle = Buffer(b)
        BY Zenon DEF NoHandle
    <3> HIDE DEF b
    <3> QED BY <3>1, <3>2, <1>2, PlaceFacts
  <2>2. "none" \in Guests /\ NoPartitioner \in Nat /\ 0 \in Nat
      BY DEF Guests, NoPartitioner
  <2> QED BY <1>5, <2>1, <2>2 DEF Datum
<1> HIDE DEF new, h
<1>10. \A c \in Rest : c.fn = "GData" => c.d # d
    BY <1>1, <1>7 DEF Alike
<1>11. /\ 1 \in Nat /\ 0 \in Nat /\ Level(d) \in 0..2
  <2>1. 1 \in Nat /\ 0 \in Nat
      OBVIOUS
  <2> QED BY <2>1, ChildFacts
<1>12. ASSUME NEW e
       PROVE  Made(e)' <=> Made(e)
  <2>1. CASE e = d
    <3>1. Coming(d)
        BY <1>1, <1>4 DEF Coming
    <3> QED BY <2>1, <3>1, <1>8 DEF Made
  <2>2. CASE e # d
    <3>1. \A c : c.fn = "GData" /\ c.d = e => (c \in Pending <=> c \in Pending')
        BY <2>2, <1>1, <1>6, <1>7
    <3> HIDE DEF Pending
    <3>2. Coming(e)' <=> Coming(e)
        BY <3>1 DEF Coming
    <3> QED BY <2>2, <3>2, <1>8 DEF Made
  <2> QED BY <2>1, <2>2
<1>13. ASSUME NEW e, Attached(e)
       PROVE  Attached(e)'
    BY <1>8, <1>13 DEF Attached
<1>14. ASSUME NEW c \in Rest
       PROVE  CallOK(c)'
  <2>1. CallOK(c) /\ c \in CallTypes /\ c.fn \notin {"GPartitioner", "set_next"}
      BY <1>7
  <2>2. c.fn \notin {"set_memory", "data_set_memory", "data_created"}
      BY <1>4, <1>7
  <2>3. c.fn = "GData" =>
           /\ c.d \notin DOMAIN data' /\ Attached(c.d)'
           /\ c.rows = RowsAt(Level(c.d))' /\ c.cols = ColsAt(Level(c.d))'
      BY <1>3, <1>8, <1>10, <1>13, <2>1 DEF CallOK
  <2>4. c.fn = "set_partition" =>
           /\ Made(c.d)' /\ (c.d \in DOMAIN data' => data'[c.d].partitioner = 0)
           /\ c.P = Level(c.d) + 1 /\ c.P \in DOMAIN partitioners'
    <3>1. CASE c.d = d
        BY <3>1, <1>8, <1>9, <1>12, <2>1 DEF CallOK, NoPartitioner
    <3>2. CASE c.d # d
        BY <3>2, <1>8, <1>12, <2>1 DEF CallOK
    <3> QED BY <3>1, <3>2
  <2>5. c.fn = "data_partitioned" =>
           /\ c.by \in (program').scheds
           /\ c.d \in DOMAIN data' /\ data'[c.d].partitioner # 0
      BY <1>1, <1>8, <2>1 DEF CallOK
  <2>6. c.fn = "fill" => c.d \in DOMAIN data'
      BY <1>8, <2>1 DEF CallOK
  <2> QED BY <2>1, <2>2, <2>3, <2>4, <2>5, <2>6 DEF CallOK
<1>15. ASSUME NEW c \in Members(cs)
       PROVE  CallOK(c)'
  <2>1. c.d \in DOMAIN data' /\ data'[c.d].partitioner = 0
      BY <1>6, <1>8, <1>9 DEF NoPartitioner
  <2> QED BY <1>1, <1>6, <2>1 DEF CallOK
<1>16. CallsOK'
  <2>1. Rank(h) = 3
      BY <1>1 DEF Rank
  <2>2. ASSUME NEW c \in Members(cs), NEW e \in Rest
        PROVE  Rank(c) <= Rank(e) /\ ~Alike(c, e)
    <3>1. Rank(c) = 2 /\ 3 <= Rank(e) /\ Rank(e) \in Int
        BY <1>6, <1>7, <2>1, Ranks
    <3>2. ~Alike(c, e)
        BY <1>6 DEF Alike
    <3> QED BY <3>1, <3>2
  <2>3. \A c \in Members(cs) :
           /\ \A e \in Members(Tail(calls)) : Rank(c) <= Rank(e) /\ ~Alike(c, e)
           /\ c.fn \notin {"GPartitioner", "set_next"}
      BY <1>6, <2>2 DEF Rest
  <2>4. Ordered(calls')
      BY <1>1, <1>2, <1>6, <2>3, OrderedAfter
  <2>5. Ordered(calls)' = Ordered(calls')
      BY DEF Ordered, Sorted, Distinct, Alone, Rank, Alike
  <2>6. \A c \in Pending' : CallOK(c)'
      BY <1>7, <1>14, <1>15
  <2> QED BY <1>3, <1>7, <2>4, <2>5, <2>6 DEF CallsOK
<1>17. PartitionersOK'
    BY <1>1, <1>2 DEF PartitionersOK
<1>18. DataOK'
  <2>1. ASSUME NEW e \in DOMAIN data
        PROVE  DatumOK(e)'
    <3>1. DatumOK(e) /\ e # d
        BY <1>2, <1>8 DEF DataOK
    <3>2. Attached(e)'
        BY <3>1, <1>13 DEF DatumOK
    <3> QED BY <3>1, <3>2, <1>1, <1>3, <1>8, <1>12 DEF DatumOK
  <2>2. DatumOK(d)'
    <3>1. Attached(d)'
        BY <1>5, <1>13
    <3>2. Null \in Place(Level(d))
        BY <1>2, <1>11, PlaceFacts
    <3> QED BY <3>1, <3>2, <1>3, <1>5, <1>8, <1>9 DEF DatumOK
  <2>3. DOMAIN data \subseteq Nodes /\ data \in [DOMAIN data -> Datum]
      BY <1>2 DEF DataOK
  <2>4. data' \in [DOMAIN data' -> Datum]
    <3>1. data' = [e \in DOMAIN data' |-> data'[e]]
        BY <1>1
    <3>2. \A e \in DOMAIN data' : data'[e] \in Datum
        BY <1>8, <1>9, <2>3
    <3> QED BY <3>1, <3>2
  <2>5. DOMAIN data' \subseteq Nodes'
      BY <1>3, <1>8, <2>3
  <2>6. \A e \in DOMAIN data' : DatumOK(e)'
      BY <1>8, <2>1, <2>2
  <2> QED BY <2>4, <2>5, <2>6 DEF DataOK
<1>19. Phase'
  <2>1. /\ step \in 0..Len(Statements) /\ step # 0
        /\ step >= 1 => Made(Root)
        /\ ~Cutting => Len(partitioners) = Cuts
        /\ step < PartitionStep =>
              /\ \A c \in Pending : c.fn # "set_partition"
              /\ \A e \in DOMAIN data : data[e].partitioner = NoPartitioner
      BY <1>1, <1>2 DEF Phase
  <2>2. \A c \in Pending \cup Pending' : c.fn # "GPartitioner"
      BY <1>1, <1>6, <1>7
  <2> HIDE DEF Pending
  <2>3. ~Cutting /\ ~Cutting'
      BY <2>2 DEF Cutting
  <2>4. Cuts' = Cuts
      BY <1>1 DEF Cuts
  <2>5. step < PartitionStep =>
           /\ \A c \in Pending' : c.fn # "set_partition"
           /\ \A e \in DOMAIN data' : data'[e].partitioner = NoPartitioner
      BY <1>6, <1>7, <1>8, <1>9, <2>1
  <2> QED BY <1>1, <1>3, <1>12, <2>1, <2>2, <2>3, <2>4, <2>5 DEF Phase
<1>20. Tree'
    BY <1>1, <1>2, <1>16, <1>17, <1>18, <1>19 DEF Tree
<1> HIDE DEF Pending
<1>21. /\ \A c \in Rest :
              /\ c.fn \notin {"set_memory", "data_set_memory", "data_created"}
              /\ c.fn = "GData" => c.d # d
       /\ Rest \subseteq Pending'
       /\ \A c \in Pending' :
             \/ c \in Rest
             \/ c.fn = "data_created" /\ c.d = d /\ c.by \in program.scheds
       /\ \A s \in program.scheds : Created(s, d) \in Pending'
    BY <1>4, <1>6, <1>7, <1>10
<1> QED BY <1>5, <1>8, <1>9, <1>20, <1>21

\* A data that is cut is there and has not been cut, so none of its children is there
\* or is to be cut itself.
LEMMA CutFacts ==
    ASSUME Tree, NEW d \in Nodes, Calling("set_partition", d), NEW P, P = Head(calls).P
    PROVE  /\ d \in DOMAIN data /\ data[d].partitioner = NoPartitioner /\ NoneComing
           /\ P = Level(d) + 1 /\ Level(d) \in 0..1 /\ P \in 1..2
           /\ P \in 1..Len(partitioners) /\ partitioners[P].cut = shape.cut[P]
           /\ CutInto(P) = Count(P) /\ Count(P) \in Pos
           /\ \A k \in 0..Count(P) - 1 :
                 /\ Child(d, k) \in Nodes /\ Level(Child(d, k)) = P /\ Parent(Child(d, k)) = d
                 /\ Child(d, k) # Root /\ Child(d, k) \notin DOMAIN data
                 /\ \A c \in Pending : c.fn = "set_partition" => c.d # Child(d, k)
           /\ \/ GetNext(P) = NoPartitioner
              \/ P = 1 /\ GetNext(P) = 2 /\ 2 \in DOMAIN partitioners
<1>1. calls # <<>> /\ Head(calls).fn = "set_partition" /\ Head(calls).d = d
    BY DEF Calling
<1>2. /\ shape \in Shapes /\ program \in Programs /\ PartitionersOK /\ DataOK
    BY DEF Tree
<1>3. /\ CallOK(Head(calls)) /\ NoneComing /\ Head(calls) \in CallTypes
      /\ \A c \in Pending : c \in CallTypes /\ CallOK(c)
    BY <1>1, HeadFacts
<1>4. \A e : Made(e) => e \in DOMAIN data
    BY <1>3 DEF Made, Coming, NoneComing
<1>5. /\ d \in DOMAIN data /\ data[d].partitioner = NoPartitioner
      /\ P = Level(d) + 1 /\ P \in DOMAIN partitioners /\ P \in {1, 2}
    BY <1>1, <1>3, <1>4, CallFields DEF CallOK, NoPartitioner
<1>6. Level(d) \in 0..2 /\ Level(d) \in 0..1 /\ P \in 1..2
  <2>1. Level(d) \in 0..2
      BY <1>5, TreeFacts
  <2> QED BY <2>1, <1>5
<1>7. /\ DOMAIN partitioners = 1..Len(partitioners) /\ Len(partitioners) \in Nat
      /\ Len(partitioners) <= 2
  <2>1. program.levels \in {1, 2}
      BY <1>2, ProgramsAssumption
  <2>2. Len(partitioners) \in Nat /\ Len(partitioners) <= program.levels
      BY <1>2, LenProperties DEF PartitionersOK
  <2>3. DOMAIN partitioners = 1..Len(partitioners)
      BY <1>2 DEF PartitionersOK
  <2> QED BY <2>1, <2>2, <2>3
<1>8. P \in 1..Len(partitioners) /\ partitioners[P].cut = shape.cut[P]
    BY <1>2, <1>5, <1>7 DEF PartitionersOK
<1>9. CutInto(P) = Count(P) /\ Count(P) \in Pos
    BY <1>2, <1>6, <1>8, ShapeFacts DEF CutInto, Count
<1>10. \/ GetNext(P) = NoPartitioner
       \/ P = 1 /\ GetNext(P) = 2 /\ 2 \in DOMAIN partitioners
  <2>1. \/ GetNext(P) = NoPartitioner
        \/ GetNext(P) = P + 1 /\ P + 1 \in 1..Len(partitioners)
      BY <1>2, <1>8 DEF PartitionersOK, GetNext
  <2> HIDE DEF GetNext
  <2> QED BY <2>1, <1>6, <1>7
<1>11. ASSUME NEW k \in 0..Count(P) - 1
       PROVE  /\ Child(d, k) \in Nodes /\ Level(Child(d, k)) = P /\ Parent(Child(d, k)) = d
              /\ Child(d, k) # Root /\ Child(d, k) \notin DOMAIN data
              /\ \A c \in Pending : c.fn = "set_partition" => c.d # Child(d, k)
  <2>1. k \in Nat /\ k < Count(Level(d) + 1) /\ Level(d) <= 1
      BY <1>5, <1>6, <1>9 DEF Pos
  <2>2. /\ Child(d, k) \in Nodes /\ Level(Child(d, k)) = P /\ Parent(Child(d, k)) = d
        /\ Child(d, k) # Root
      BY <2>1, <1>5, ChildFacts
  <2>3. Child(d, k) \notin DOMAIN data
    <3> SUFFICES ASSUME Child(d, k) \in DOMAIN data PROVE FALSE
        OBVIOUS
    <3>1. Attached(Child(d, k))
        BY <1>2 DEF DataOK, DatumOK
    <3>2. data[d].partitioner = P
        BY <2>2, <3>1 DEF Attached
    <3> QED BY <3>2, <1>5, <1>6 DEF NoPartitioner
  <2>4. \A c \in Pending : c.fn = "set_partition" => c.d \in DOMAIN data
      BY <1>3, <1>4 DEF CallOK
  <2> QED BY <2>2, <2>3, <2>4
<1> QED BY <1>3, <1>5, <1>6, <1>8, <1>9, <1>10, <1>11

\* A partitioner makes every child once.
LEMMA NewChildrenCalls ==
    ASSUME Tree, NEW d \in Nodes, Calling("set_partition", d), NEW P, P = Head(calls).P
    PROVE  /\ NewChildren(d, P) \in Seq(CallTypes) /\ Ordered(NewChildren(d, P))
           /\ \A c \in Members(NewChildren(d, P)) :
                 /\ c \in CallTypes /\ c.fn = "GData" /\ Rank(c) = 3
                 /\ c.rows = RowsAt(P) /\ c.cols = ColsAt(P)
                 /\ \E k \in 0..Count(P) - 1 : c.d = Child(d, k)
           /\ \A k \in 0..Count(P) - 1 :
                 \E c \in Members(NewChildren(d, P)) : c.fn = "GData" /\ c.d = Child(d, k)
<1> DEFINE n == Count(P)
           r == RowsAt(P)
           s == ColsAt(P)
           F == [i \in 1..n |-> New(Child(d, i - 1), r, s)]
<1>1. /\ d \in DOMAIN data /\ P = Level(d) + 1 /\ P \in 1..2 /\ P - 1 = Level(d)
      /\ partitioners[P].cut = shape.cut[P] /\ CutInto(P) = n /\ n \in Pos
      /\ \A k \in 0..n - 1 : Child(d, k) \in Nodes
  <2>1. Level(d) \in 0..1 /\ P = Level(d) + 1
      BY CutFacts
  <2>2. P - 1 = Level(d)
      BY <2>1
  <2> QED BY <2>2, CutFacts
<1>2. shape \in Shapes /\ r \in Nat /\ s \in Nat
  <2>1. shape \in Shapes
      BY DEF Tree
  <2>2. \A l \in 1..2 : l \in 0..2
      OBVIOUS
  <2> QED BY <2>1, <2>2, <1>1, ShapeFacts DEF Pos
<1>3. /\ data[d].rows \div partitioners[P].cut[1] = r
      /\ data[d].cols \div partitioners[P].cut[2] = s
  <2>1. DatumOK(d)
      BY <1>1, TreeFacts
  <2> QED BY <2>1, <1>1, <1>2, ShapeFacts DEF DatumOK
<1>4. NewChildren(d, P) = F
  <2> DEFINE u == data[d].rows \div partitioners[P].cut[1]
             v == data[d].cols \div partitioners[P].cut[2]
  <2>1. NewChildren(d, P) = [i \in 1..CutInto(P) |-> New(Child(d, i - 1), u, v)]
      BY DEF NewChildren
  <2>2. u = r /\ v = s /\ CutInto(P) = n
      BY <1>1, <1>3
  <2> HIDE DEF u, v, n, r, s
  <2> QED BY <2>1, <2>2 DEF F
<1> HIDE DEF r, s
<1>5. ASSUME NEW i \in 1..n
      PROVE  /\ i - 1 \in 0..n - 1 /\ F[i] \in CallTypes /\ F[i].fn = "GData"
             /\ F[i].d = Child(d, i - 1) /\ F[i].rows = r /\ F[i].cols = s
  <2>1. i - 1 \in 0..n - 1
      BY <1>1 DEF Pos
  <2>2. F[i] = New(Child(d, i - 1), r, s)
      OBVIOUS
  <2> HIDE DEF F
  <2> QED BY <2>1, <2>2, <1>1, <1>2, CallsMade
<1>6. F \in [1..n -> CallTypes]
    BY <1>5
<1> HIDE DEF F
<1>7. /\ F \in Seq(CallTypes) /\ Len(F) = n
      /\ \A c \in Members(F) : \E i \in 1..n : c = F[i]
      /\ \A i \in 1..n : F[i] \in Members(F)
  <2> HIDE DEF n
  <2>1. n \in Nat
      BY <1>1 DEF Pos
  <2> QED BY <2>1, <1>6, FunIsSeq
<1>8. ASSUME NEW c \in Members(F)
      PROVE  /\ c \in CallTypes /\ c.fn = "GData" /\ Rank(c) = 3
             /\ c.rows = r /\ c.cols = s /\ \E k \in 0..n - 1 : c.d = Child(d, k)
  <2>1. PICK i \in 1..n : c = F[i]
      BY <1>7
  <2> QED BY <2>1, <1>5 DEF Rank
<1>9. ASSUME NEW k \in 0..n - 1
      PROVE  \E c \in Members(F) : c.fn = "GData" /\ c.d = Child(d, k)
  <2>1. k + 1 \in 1..n /\ (k + 1) - 1 = k
      BY <1>1 DEF Pos
  <2> QED BY <2>1, <1>5, <1>7
<1>10. Distinct(F)
  <2> SUFFICES ASSUME NEW i \in 1..n, NEW j \in 1..n, i # j
               PROVE  F[i].d # F[j].d
      BY <1>7 DEF Distinct, Alike
  <2>1. i - 1 \in Nat /\ j - 1 \in Nat /\ i - 1 # j - 1
      BY <1>1 DEF Pos
  <2>2. Child(d, i - 1) # Child(d, j - 1)
      BY <2>1, ChildFacts
  <2> QED BY <2>2, <1>5
<1>11. Ordered(F)
    BY <1>7, <1>8, <1>10, OrderedOfRank
<1> QED BY <1>4, <1>7, <1>8, <1>9, <1>11 DEF r, s

\* The next partitioner cuts every child once.
LEMMA CascadeCalls ==
    ASSUME Tree, NEW d \in Nodes, Calling("set_partition", d), NEW P, P = Head(calls).P
    PROVE  /\ Cascade(d, P) \in Seq(CallTypes) /\ Ordered(Cascade(d, P))
           /\ \A c \in Members(Cascade(d, P)) :
                 /\ c \in CallTypes /\ c.fn = "set_partition" /\ Rank(c) = 5
                 /\ c.P = P + 1 /\ c.P \in DOMAIN partitioners
                 /\ \E k \in 0..Count(P) - 1 : c.d = Child(d, k)
<1> DEFINE n == Count(P)
           F == [i \in 1..n |-> Partition(Child(d, i - 1), 2)]
<1>1. /\ CutInto(P) = n /\ n \in Pos /\ \A k \in 0..n - 1 : Child(d, k) \in Nodes
      /\ \/ GetNext(P) = NoPartitioner
         \/ P = 1 /\ GetNext(P) = 2 /\ 2 \in DOMAIN partitioners
    BY CutFacts
<1>2. CASE GetNext(P) = NoPartitioner
  <2>1. Cascade(d, P) = <<>>
      BY <1>2 DEF Cascade
  <2>2. <<>> \in Seq(CallTypes) /\ Ordered(<<>>)
    <3>1. Fill(d) \in CallTypes
        BY CallsMade
    <3> QED BY <3>1, OneCall
  <2> QED BY <2>1, <2>2, NoMembers
<1>3. CASE GetNext(P) # NoPartitioner
  <2>1. P = 1 /\ GetNext(P) = 2 /\ 2 \in DOMAIN partitioners /\ 2 = P + 1
      BY <1>1, <1>3
  <2>2. Cascade(d, P) = F
      BY <2>1, <1>1, <1>3 DEF Cascade
  <2>3. ASSUME NEW i \in 1..n
        PROVE  /\ i - 1 \in 0..n - 1 /\ F[i] \in CallTypes /\ F[i].fn = "set_partition"
               /\ F[i].d = Child(d, i - 1) /\ F[i].P = 2
    <3>1. i - 1 \in 0..n - 1 /\ 2 \in {1, 2}
        BY <1>1 DEF Pos
    <3>2. F[i] = Partition(Child(d, i - 1), 2)
        OBVIOUS
    <3> HIDE DEF F
    <3> QED BY <3>1, <3>2, <1>1, CallsMade
  <2>4. F \in [1..n -> CallTypes]
      BY <2>3
  <2> HIDE DEF F
  <2>5. /\ F \in Seq(CallTypes) /\ Len(F) = n
        /\ \A c \in Members(F) : \E i \in 1..n : c = F[i]
    <3> HIDE DEF n
    <3>1. n \in Nat
        BY <1>1 DEF Pos
    <3> QED BY <3>1, <2>4, FunIsSeq
  <2>6. ASSUME NEW c \in Members(F)
        PROVE  /\ c \in CallTypes /\ c.fn = "set_partition" /\ Rank(c) = 5
               /\ c.P = P + 1 /\ c.P \in DOMAIN partitioners
               /\ \E k \in 0..n - 1 : c.d = Child(d, k)
    <3>1. PICK i \in 1..n : c = F[i]
        BY <2>5
    <3> QED BY <3>1, <2>1, <2>3 DEF Rank
  <2>7. Distinct(F)
    <3> SUFFICES ASSUME NEW i \in 1..n, NEW j \in 1..n, i # j
                 PROVE  F[i].d # F[j].d
        BY <2>5 DEF Distinct, Alike
    <3>1. i - 1 \in Nat /\ j - 1 \in Nat /\ i - 1 # j - 1
        BY <1>1 DEF Pos
    <3>2. Child(d, i - 1) # Child(d, j - 1)
        BY <3>1, ChildFacts
    <3> QED BY <3>2, <2>3
  <2>8. Ordered(F)
      BY <2>5, <2>6, <2>7, OrderedOfRank
  <2> QED BY <2>2, <2>5, <2>6, <2>8
<1> QED BY <1>2, <1>3

\* set_partition: the data is cut, its children will be made, the schedulers told, and
\* the children cut.
LEMMA SetPartitionStep ==
    ASSUME Tree, NEW d \in Nodes, SetPartition(d), partitioners' = partitioners
    PROVE  /\ Tree' /\ d \in DOMAIN data /\ data[d].partitioner = NoPartitioner
           /\ DOMAIN data' = DOMAIN data /\ Level(d) \in 0..1
           /\ \A e \in DOMAIN data :
                 /\ data'[e].memory = data[e].memory /\ data'[e].handle = data[e].handle
                 /\ data'[e].guest = data[e].guest
                 /\ e # d => data'[e] = data[e]
           /\ Rest \subseteq Pending' /\ NoneComing
           /\ \A c \in Pending :
                 c.fn \notin {"set_memory", "data_set_memory", "data_created"}
           /\ \A c \in Pending' :
                 \/ c \in Rest
                 \/ c.fn = "GData" /\ \E k \in 0..Count(Level(d) + 1) - 1 : c.d = Child(d, k)
                 \/ c.fn = "data_partitioned" /\ c.d = d /\ c.by \in program.scheds
                 \/ c.fn = "set_partition"
           /\ \A k \in 0..Count(Level(d) + 1) - 1 : Coming(Child(d, k))'
           /\ \A s \in program.scheds \cap {"SG", "DT"} : Partitioned(s, d) \in Pending'
<1> DEFINE h == Head(calls)
           P == Head(calls).P
           new == NewChildren(d, P)
           told == TellPartitioned(d)
           cut == Cascade(d, P)
           two == new \o told
           cs == two \o cut
<1>1. /\ calls # <<>> /\ h.fn = "set_partition" /\ h.d = d /\ h.P = P
      /\ Calling("set_partition", d)
      /\ data' = [data EXCEPT ![d].child_cnt = CutInto(P), ![d].partitioner = P]
      /\ calls' = cs \o Tail(calls)
      /\ program' = program /\ shape' = shape /\ step' = step
    BY DEF SetPartition, Calling, Makes
<1>2. /\ PartitionersOK /\ DataOK /\ CallsOK /\ Phase
      /\ program \in Programs /\ shape \in Shapes
    BY DEF Tree
<1>3. /\ Nodes' = Nodes /\ CallTypes' = CallTypes
      /\ \A l : /\ Count(l)' = Count(l) /\ RowsAt(l)' = RowsAt(l)
                /\ ColsAt(l)' = ColsAt(l) /\ Place(l)' = Place(l)
      /\ Statements' = Statements /\ PartitionStep' = PartitionStep
    BY <1>1, SameShape
<1>4. /\ h \in CallTypes /\ CallOK(h) /\ h \in Pending
      /\ \A c \in Pending :
            c.fn \notin {"set_memory", "data_set_memory", "data_created", "data_partitioned"}
    BY <1>1, HeadFacts
<1> DEFINE n == Count(P)
<1>5. /\ d \in DOMAIN data /\ data[d].partitioner = NoPartitioner /\ NoneComing
      /\ P = Level(d) + 1 /\ Level(d) \in 0..1 /\ P \in 1..2
      /\ P \in 1..Len(partitioners) /\ CutInto(P) = n /\ n \in Pos
      /\ \A k \in 0..n - 1 :
            /\ Child(d, k) \in Nodes /\ Level(Child(d, k)) = P /\ Parent(Child(d, k)) = d
            /\ Child(d, k) # Root /\ Child(d, k) \notin DOMAIN data
            /\ \A c \in Pending : c.fn = "set_partition" => c.d # Child(d, k)
    BY <1>1, CutFacts
<1>6. /\ new \in Seq(CallTypes) /\ Ordered(new)
      /\ \A c \in Members(new) :
            /\ c \in CallTypes /\ c.fn = "GData" /\ Rank(c) = 3
            /\ c.rows = RowsAt(P) /\ c.cols = ColsAt(P)
            /\ \E k \in 0..n - 1 : c.d = Child(d, k)
      /\ \A k \in 0..n - 1 : \E c \in Members(new) : c.fn = "GData" /\ c.d = Child(d, k)
    BY <1>1, NewChildrenCalls
<1>7. /\ told \in Seq(CallTypes) /\ Ordered(told)
      /\ \A c \in Members(told) :
            /\ c \in CallTypes /\ c.fn = "data_partitioned" /\ c.d = d
            /\ c.by \in program.scheds /\ Rank(c) = 4
      /\ \A s \in program.scheds \cap {"SG", "DT"} : Partitioned(s, d) \in Members(told)
    BY <1>2, TellPartitionedCalls
<1>8. /\ cut \in Seq(CallTypes) /\ Ordered(cut)
      /\ \A c \in Members(cut) :
            /\ c \in CallTypes /\ c.fn = "set_partition" /\ Rank(c) = 5
            /\ c.P = P + 1 /\ c.P \in DOMAIN partitioners
            /\ \E k \in 0..n - 1 : c.d = Child(d, k)
    BY <1>1, CascadeCalls
<1> HIDE DEF new, told, cut, n, P, h
<1>9. /\ two \in Seq(CallTypes) /\ Members(two) = Members(new) \cup Members(told)
      /\ Ordered(two)
  <2>1. ASSUME NEW c \in Members(new), NEW e \in Members(told)
        PROVE  Rank(c) <= Rank(e) /\ ~Alike(c, e)
    <3>1. Rank(c) = 3 /\ Rank(e) = 4 /\ c.fn # e.fn
        BY <1>6, <1>7
    <3> QED BY <3>1 DEF Alike
  <2>2. /\ \A c \in Members(new) : c.fn \notin {"GPartitioner", "set_next"}
        /\ \A c \in Members(told) : c.fn \notin {"GPartitioner", "set_next"}
      BY <1>6, <1>7
  <2> QED BY <1>6, <1>7, <2>1, <2>2, MembersConcat, OrderedConcat
<1> HIDE DEF two
<1>10. /\ cs \in Seq(CallTypes) /\ Members(cs) = Members(two) \cup Members(cut)
       /\ Ordered(cs)
  <2>1. ASSUME NEW c \in Members(two), NEW e \in Members(cut)
        PROVE  Rank(c) <= Rank(e) /\ ~Alike(c, e)
    <3>1. Rank(c) \in {3, 4} /\ Rank(e) = 5 /\ c.fn # e.fn
        BY <1>6, <1>7, <1>8, <1>9
    <3> QED BY <3>1 DEF Alike
  <2>2. /\ \A c \in Members(two) : c.fn \notin {"GPartitioner", "set_next"}
        /\ \A c \in Members(cut) : c.fn \notin {"GPartitioner", "set_next"}
      BY <1>6, <1>7, <1>8, <1>9
  <2> QED BY <1>8, <1>9, <2>1, <2>2, MembersConcat, OrderedConcat
<1> HIDE DEF cs
<1>11. Members(cs) = Members(new) \cup Members(told) \cup Members(cut)
    BY <1>9, <1>10
<1>12. /\ calls' \in Seq(CallTypes) /\ Pending = {h} \cup Rest
       /\ Pending' = Members(cs) \cup Rest
       /\ \A c \in Rest : /\ CallOK(c) /\ c \in CallTypes
                          /\ Rank(h) <= Rank(c) /\ ~Alike(h, c)
                          /\ c.fn \notin {"GPartitioner", "set_next"}
    BY <1>1, <1>2, <1>10, PendingAfter DEF Rest, h
<1>13. \A c \in Rest :
          /\ c.fn \notin {"set_memory", "data_set_memory", "data_created", "GData",
                          "GPartitioner", "set_next", "data_partitioned"}
          /\ Rank(c) = 5 /\ (c.fn = "set_partition" => c.d # d)
  <2>1. ASSUME NEW c \in Rest
        PROVE  /\ c.fn \notin {"set_memory", "data_set_memory", "data_created", "GData",
                               "GPartitioner", "set_next", "data_partitioned"}
               /\ Rank(c) = 5
      BY <1>4, <1>5, <1>12 DEF NoneComing, Rank
  <2>2. \A c \in Rest : c.fn = "set_partition" => c.d # d
      BY <1>1, <1>12 DEF Alike
  <2> QED BY <2>1, <2>2
<1>14. /\ DOMAIN data' = DOMAIN data /\ data' \in [DOMAIN data -> Datum]
       /\ data'[d].partitioner = P /\ data'[d].child_cnt = n
       /\ data'[d].rows = data[d].rows /\ data'[d].cols = data[d].cols
       /\ data'[d].memory = data[d].memory /\ data'[d].handle = data[d].handle
       /\ data'[d].guest = data[d].guest
       /\ \A e \in DOMAIN data : e # d => data'[e] = data[e]
  <2> DEFINE b == [data[d] EXCEPT !.child_cnt = n]
             a == [b EXCEPT !.partitioner = P]
  <2>1. data \in [DOMAIN data -> Datum] /\ data[d] \in Datum
      BY <1>2, <1>5 DEF DataOK
  <2>2. n \in Nat /\ P \in Nat
      BY <1>5 DEF Pos
  <2>3. b \in Datum /\ a \in Datum /\ a.partitioner = P /\ a.child_cnt = n
        /\ a.rows = data[d].rows /\ a.cols = data[d].cols /\ a.memory = data[d].memory
        /\ a.handle = data[d].handle /\ a.guest = data[d].guest
      BY <2>1, <2>2 DEF Datum
  <2>4. DOMAIN data' = DOMAIN data /\ \A e \in DOMAIN data : e # d => data'[e] = data[e]
      BY <1>1
  <2>5. data'[d] = a
      BY <1>1, <1>5, <2>1
  <2>6. data' \in [DOMAIN data -> Datum]
    <3> HIDE DEF a
    <3>1. \A e \in DOMAIN data : data'[e] \in Datum
        BY <2>1, <2>3, <2>4, <2>5
    <3>2. data' = [e \in DOMAIN data' |-> data'[e]]
        BY <1>1
    <3> QED BY <2>4, <3>1, <3>2
  <2> HIDE DEF a
  <2> QED BY <2>3, <2>4, <2>5, <2>6
<1>15. \A k \in 0..n - 1 : Coming(Child(d, k))'
  <2> SUFFICES ASSUME NEW k \in 0..n - 1 PROVE Coming(Child(d, k))'
      OBVIOUS
  <2>1. PICK c \in Members(new) : c.fn = "GData" /\ c.d = Child(d, k)
      BY <1>6
  <2>2. c \in Pending'
      BY <2>1, <1>11, <1>12
  <2> HIDE DEF Pending
  <2> QED BY <2>1, <2>2 DEF Coming
<1>16. \A e : Made(e) => e \in DOMAIN data /\ Made(e)'
    BY <1>5, <1>14 DEF Made, Coming, NoneComing
<1>17. ASSUME NEW e \in Nodes, Attached(e)
       PROVE  Attached(e)'
  <2>1. CASE e = Root
      BY <2>1 DEF Attached
  <2>2. CASE e # Root
    <3>1. Parent(e) \in DOMAIN data /\ data[Parent(e)].partitioner = Level(e)
        BY <2>2, <1>17 DEF Attached
    <3>2. Level(e) \in 1..2
        BY <2>2, ParentFacts
    <3>3. Parent(e) # d
        BY <3>1, <3>2, <1>5 DEF NoPartitioner
    <3> QED BY <3>1, <3>3, <1>14 DEF Attached
  <2> QED BY <2>1, <2>2
<1>18. ASSUME NEW c \in Rest
       PROVE  CallOK(c)'
  <2>1. /\ CallOK(c) /\ c \in CallTypes
        /\ c.fn \notin {"set_memory", "data_set_memory", "data_created", "GData",
                        "GPartitioner", "set_next"}
        /\ c.fn = "set_partition" => c.d # d
      BY <1>12, <1>13
  <2>2. c.fn = "set_partition" =>
           /\ Made(c.d)' /\ (c.d \in DOMAIN data' => data'[c.d].partitioner = 0)
           /\ c.P = Level(c.d) + 1 /\ c.P \in DOMAIN partitioners'
      BY <1>14, <1>16, <2>1 DEF CallOK
  <2>3. c.fn = "data_partitioned" =>
           /\ c.by \in (program').scheds
           /\ c.d \in DOMAIN data' /\ data'[c.d].partitioner # 0
      BY <1>1, <1>5, <1>14, <2>1 DEF CallOK, NoPartitioner
  <2>4. c.fn = "fill" => c.d \in DOMAIN data'
      BY <1>14, <2>1 DEF CallOK
  <2> QED BY <2>1, <2>2, <2>3, <2>4 DEF CallOK
<1>19. ASSUME NEW c \in Members(new)
       PROVE  CallOK(c)'
  <2>1. /\ c.fn = "GData" /\ c.rows = RowsAt(P) /\ c.cols = ColsAt(P)
        /\ \E k \in 0..n - 1 : c.d = Child(d, k)
      BY <1>6
  <2>2. PICK k \in 0..n - 1 : c.d = Child(d, k)
      BY <2>1
  <2>3. /\ Level(c.d) = P /\ Parent(c.d) = d /\ c.d \notin DOMAIN data
      BY <1>5, <2>2
  <2>4. Attached(c.d)'
      BY <1>5, <1>14, <2>3 DEF Attached
  <2> QED BY <1>3, <1>14, <2>1, <2>3, <2>4 DEF CallOK
<1>20. ASSUME NEW c \in Members(told)
       PROVE  CallOK(c)'
  <2>1. P # 0
      BY <1>5
  <2> QED BY <1>1, <1>5, <1>7, <1>14, <2>1 DEF CallOK
<1>21. ASSUME NEW c \in Members(cut)
       PROVE  CallOK(c)'
  <2>1. PICK k \in 0..n - 1 : c.d = Child(d, k)
      BY <1>8
  <2>2. Level(c.d) = P /\ c.d \notin DOMAIN data /\ Made(c.d)'
      BY <1>5, <1>15, <2>1 DEF Made
  <2> QED BY <1>1, <1>8, <1>14, <2>2 DEF CallOK
<1>22. CallsOK'
  <2>1. ASSUME NEW c \in Members(cs), NEW e \in Rest
        PROVE  /\ Rank(c) <= Rank(e) /\ ~Alike(c, e)
               /\ c.fn \notin {"GPartitioner", "set_next"}
    <3>1. Rank(c) \in {3, 4, 5} /\ Rank(e) = 5
        BY <1>6, <1>7, <1>8, <1>11, <1>13
    <3>2. CASE c \in Members(cut)
      <4>1. c.fn = "set_partition" /\ \E k \in 0..n - 1 : c.d = Child(d, k)
          BY <3>2, <1>8
      <4>2. e.fn = "set_partition" => e.d # c.d
          BY <4>1, <1>5, <1>12
      <4> QED BY <3>1, <4>1, <4>2 DEF Alike
    <3>3. CASE c \in Members(new) \cup Members(told)
      <4>1. c.fn \in {"GData", "data_partitioned"} /\ e.fn # "GData"
          BY <3>3, <1>6, <1>7, <1>13
      <4> QED BY <3>1, <4>1 DEF Alike
    <3> QED BY <3>2, <3>3, <1>11
  <2>2. \A c \in Members(cs) :
           /\ \A e \in Members(Tail(calls)) : Rank(c) <= Rank(e) /\ ~Alike(c, e)
           /\ c.fn \notin {"GPartitioner", "set_next"}
    <3>1. \A c \in Members(cs) : c.fn \notin {"GPartitioner", "set_next"}
        BY <1>6, <1>7, <1>8, <1>11
    <3> QED BY <2>1, <3>1 DEF Rest
  <2>3. Ordered(calls')
      BY <1>1, <1>2, <1>10, <2>2, OrderedAfter
  <2>4. Ordered(calls)' = Ordered(calls')
      BY DEF Ordered, Sorted, Distinct, Alone, Rank, Alike
  <2>5. \A c \in Pending' : CallOK(c)'
      BY <1>11, <1>12, <1>18, <1>19, <1>20, <1>21
  <2> QED BY <1>3, <1>12, <2>3, <2>4, <2>5 DEF CallsOK
<1>23. PartitionersOK'
    BY <1>1, <1>2 DEF PartitionersOK
<1>24. DataOK'
  <2>1. ASSUME NEW e \in DOMAIN data, e # d
        PROVE  DatumOK(e)'
    <3>1. DatumOK(e) /\ e \in Nodes
        BY <1>2 DEF DataOK
    <3>2. Attached(e)'
        BY <3>1, <1>17 DEF DatumOK
    <3> QED BY <2>1, <3>1, <3>2, <1>1, <1>3, <1>14, <1>16 DEF DatumOK
  <2>2. DatumOK(d)'
    <3>1. DatumOK(d) /\ d \in Nodes
        BY <1>2, <1>5 DEF DataOK
    <3>2. Attached(d)'
        BY <3>1, <1>17 DEF DatumOK
    <3>3. \A k \in 0..n - 1 : Made(Child(d, k))'
        BY <1>15 DEF Made
    <3>4. /\ (data')[d].partitioner = Level(d) + 1
          /\ Level(d) + 1 \in 1..Len(partitioners')
          /\ (data')[d].child_cnt = Count(Level(d) + 1)'
          /\ n = (data')[d].child_cnt
        BY <1>1, <1>3, <1>5, <1>14 DEF n
    <3>5. /\ (data')[d].rows = RowsAt(Level(d))' /\ (data')[d].cols = ColsAt(Level(d))'
          /\ (data')[d].memory \in Place(Level(d))'
        BY <3>1, <1>3, <1>14 DEF DatumOK
    <3> QED BY <3>2, <3>3, <3>4, <3>5 DEF DatumOK
  <2> QED BY <1>2, <1>3, <1>14, <2>1, <2>2 DEF DataOK
<1>25. Phase'
  <2>1. /\ step \in 0..Len(Statements) /\ step # 0
        /\ step >= 1 => Made(Root)
        /\ ~Cutting => Len(partitioners) = Cuts
        /\ ~(step < PartitionStep)
      BY <1>1, <1>2, <1>4 DEF Phase
  <2>2. \A c \in Pending \cup Pending' : c.fn # "GPartitioner"
      BY <1>1, <1>6, <1>7, <1>8, <1>11, <1>12
  <2> HIDE DEF Pending
  <2>3. ~Cutting /\ ~Cutting'
      BY <2>2 DEF Cutting
  <2>4. Cuts' = Cuts
      BY <1>1 DEF Cuts
  <2> QED BY <1>1, <1>3, <1>16, <2>1, <2>2, <2>3, <2>4 DEF Phase
<1>26. Tree'
    BY <1>1, <1>2, <1>22, <1>23, <1>24, <1>25 DEF Tree
<1>27. Count(Level(d) + 1) = n
    BY <1>5 DEF n
<1> HIDE DEF Pending
<1>28. /\ Rest \subseteq Pending'
       /\ \A s \in program.scheds \cap {"SG", "DT"} : Partitioned(s, d) \in Pending'
       /\ \A c \in Pending' :
             \/ c \in Rest
             \/ c.fn = "GData" /\ \E k \in 0..n - 1 : c.d = Child(d, k)
             \/ c.fn = "data_partitioned" /\ c.d = d /\ c.by \in program.scheds
             \/ c.fn = "set_partition"
    BY <1>6, <1>7, <1>8, <1>11, <1>12
<1>29. \A e \in DOMAIN data :
          /\ data'[e].memory = data[e].memory /\ data'[e].handle = data[e].handle
          /\ data'[e].guest = data[e].guest
          /\ e # d => data'[e] = data[e]
    BY <1>14
<1> QED BY <1>4, <1>5, <1>14, <1>15, <1>26, <1>27, <1>28, <1>29

(* The program *)

\* What the k-th statement is.
IsStatement(k, c) ==
    /\ c \in CallTypes /\ c.d = Root
    /\ \/ k = 1 /\ c.fn = "GData" /\ c.rows = shape.M /\ c.cols = shape.N
       \/ k \in 2..program.levels + 1 /\ c.fn = "GPartitioner" /\ c.cut = shape.cut[k - 1]
       \/ program.levels = 2 /\ k = 4 /\ c.fn = "set_next"
       \/ k = PartitionStep /\ c.fn = "set_partition" /\ c.P = 1
       \/ /\ k = PartitionStep + 1 /\ c.fn = "set_memory"
          /\ c.m = Buffer(<<"user">>) /\ program.memory
       \/ k > PartitionStep /\ c.fn = "fill"

\* A program makes the whole, its partitioners, links them, cuts the whole, and may set
\* its memory and fill it.
LEMMA StatementFacts ==
    ASSUME program \in Programs, shape \in Shapes
    PROVE  /\ program.levels \in {1, 2}
           /\ Len(Statements) \in PartitionStep..7
           /\ \A k \in 1..Len(Statements) : IsStatement(k, Statements[k])
           /\ program.memory => \E k \in 1..Len(Statements) : Statements[k].fn = "set_memory"
           /\ program.fill.kind # "none" =>
                 /\ Statements[Len(Statements)] = Fill(Root)
                 /\ Len(Statements) > PartitionStep
           /\ \A k \in 1..Len(Statements) : Statements[k].fn = "fill" =>
                 k = Len(Statements) /\ program.fill.kind # "none"
<1> DEFINE L == program.levels
           a == New(Root, shape.M, shape.N)
           b(l) == NewCut(shape.cut[l])
           c == Link(1, 2)
           p == Partition(Root, 1)
           m == SetMemory(Root, Buffer(<<"user">>))
           f == Fill(Root)
           q1 == <<a>>
           q2 == [l \in 1..L |-> b(l)]
           q3 == IF L = 2 THEN <<c>> ELSE <<>>
           q4 == <<p>>
           q5 == IF program.memory THEN <<m>> ELSE <<>>
           q6 == IF program.fill.kind # "none" THEN <<f>> ELSE <<>>
           s2 == q1 \o q2
           s3 == s2 \o q3
           s4 == s3 \o q4
           s5 == s4 \o q5
           s6 == s5 \o q6
<1>1. Statements = s6
    BY DEF Statements
<1>2. L \in {1, 2} /\ L \in Nat
    BY ProgramsAssumption
<1>3. /\ shape.M \in Nat /\ shape.N \in Nat
      /\ \A l \in 1..2 : shape.cut[l] \in Pos \X Pos
    BY ShapesAssumption DEF Pos
<1>4. Root \in Nodes /\ Root \in Seq(Nat)
    BY DEF Root, Nodes
<1>5. a \in CallTypes /\ a.fn = "GData" /\ a.d = Root /\ a.rows = shape.M /\ a.cols = shape.N
    BY <1>3, <1>4, CallsMade
<1>6. ASSUME NEW l \in 1..2
      PROVE  /\ b(l) \in CallTypes /\ b(l).fn = "GPartitioner" /\ b(l).d = Root
             /\ b(l).cut = shape.cut[l]
  <2>1. b(l) \in [fn : {"GPartitioner"}, d : Nodes, cut : Pos \X Pos]
      BY <1>3, <1>4 DEF NewCut
  <2> QED BY <2>1, Zenon DEF NewCut, CallTypes
<1>7. c \in CallTypes /\ c.fn = "set_next" /\ c.d = Root
  <2>1. c \in [fn : {"set_next"}, d : Nodes, P : {1}, Q : {2}]
      BY <1>4 DEF Link
  <2> QED BY <2>1, Zenon DEF Link, CallTypes
<1>8. p \in CallTypes /\ p.fn = "set_partition" /\ p.d = Root /\ p.P = 1
  <2>1. 1 \in {1, 2}
      OBVIOUS
  <2> QED BY <2>1, <1>4, CallsMade
<1>9. m \in CallTypes /\ m.fn = "set_memory" /\ m.d = Root /\ m.m = Buffer(<<"user">>)
  <2>1. <<"user">> \in Buffers
      BY DEF Buffers
  <2>2. Buffer(<<"user">>) \in Addresses
      BY <2>1, PlaceFacts
  <2> QED BY <2>2, <1>4, CallsMade
<1>10. f \in CallTypes /\ f.fn = "fill" /\ f.d = Root
    BY <1>4, CallsMade
<1> HIDE DEF a, b, c, p, m, f
<1>11. PartitionStep = 2 * L + 1 /\ PartitionStep \in {3, 5}
    BY <1>2 DEF PartitionStep
<1>12. ASSUME NEW x \in Seq(CallTypes), NEW y \in Seq(CallTypes),
              \A k \in 1..Len(x) : IsStatement(k, x[k]),
              \A k \in 1..Len(y) : IsStatement(Len(x) + k, y[k])
       PROVE  /\ x \o y \in Seq(CallTypes) /\ Len(x \o y) = Len(x) + Len(y)
              /\ \A k \in 1..Len(x \o y) : IsStatement(k, (x \o y)[k])
  <2>1. /\ x \o y \in Seq(CallTypes) /\ Len(x \o y) = Len(x) + Len(y)
        /\ Len(x) \in Nat /\ Len(y) \in Nat
        /\ \A k \in 1..Len(x) + Len(y) :
              (x \o y)[k] = IF k <= Len(x) THEN x[k] ELSE y[k - Len(x)]
      BY ConcatProperties, LenProperties
  <2>2. ASSUME NEW k \in 1..Len(x \o y)
        PROVE  IsStatement(k, (x \o y)[k])
    <3>1. CASE k <= Len(x)
      <4>1. k \in 1..Len(x) /\ (x \o y)[k] = x[k]
          BY <3>1, <2>1
      <4> QED BY <4>1, <1>12
    <3>2. CASE ~(k <= Len(x))
      <4>1. /\ k - Len(x) \in 1..Len(y) /\ (x \o y)[k] = y[k - Len(x)]
            /\ Len(x) + (k - Len(x)) = k
          BY <3>2, <2>1
      <4>2. IsStatement(Len(x) + (k - Len(x)), y[k - Len(x)])
          BY <4>1, <1>12
      <4> QED BY <4>1, <4>2
    <3> QED BY <3>1, <3>2
  <2> QED BY <2>1, <2>2
<1>13. ASSUME NEW t \in CallTypes
       PROVE  /\ <<t>> \in Seq(CallTypes) /\ Len(<<t>>) = 1 /\ <<>> \in Seq(CallTypes)
              /\ Len(<<>>) = 0 /\ \A k \in 1..1 : <<t>>[k] = t /\ k = 1
    OBVIOUS
<1>14. /\ q1 \in Seq(CallTypes) /\ Len(q1) = 1
       /\ \A k \in 1..1 : IsStatement(k, q1[k])
    BY <1>5, <1>13 DEF IsStatement
<1>15. /\ q2 \in Seq(CallTypes) /\ Len(q2) = L
       /\ \A k \in 1..L : IsStatement(1 + k, q2[k])
  <2>1. ASSUME NEW k \in 1..L
        PROVE  k \in 1..2 /\ q2[k] = b(k) /\ 1 + k \in 2..L + 1 /\ (1 + k) - 1 = k
      BY <1>2
  <2>2. q2 \in [1..L -> CallTypes]
      BY <1>6, <2>1
  <2> HIDE DEF q2
  <2>3. q2 \in Seq(CallTypes) /\ Len(q2) = L
    <3> HIDE DEF L
    <3> QED BY <1>2, <2>2, FunIsSeq
  <2>4. ASSUME NEW k \in 1..L
        PROVE  IsStatement(1 + k, q2[k])
      BY <2>1, <1>6 DEF IsStatement
  <2> QED BY <2>3, <2>4
<1>16. /\ q3 \in Seq(CallTypes) /\ Len(q3) = (IF L = 2 THEN 1 ELSE 0)
       /\ \A k \in 1..Len(q3) : IsStatement(1 + L + k, q3[k])
  <2>1. CASE L = 2
    <3>1. q3 = <<c>>
        BY <2>1
    <3>2. \A k \in 1..1 : 1 + L + k = 4
        BY <2>1
    <3> HIDE DEF q3
    <3>3. \A k \in 1..Len(q3) : q3[k] = c /\ 1 + L + k = 4
        BY <3>1, <3>2, <1>7, <1>13
    <3> QED BY <2>1, <3>1, <3>3, <1>7, <1>13 DEF IsStatement
  <2>2. CASE L # 2
    <3>1. q3 = <<>>
        BY <2>2
    <3> HIDE DEF q3
    <3> QED BY <2>2, <3>1, <1>7, <1>13
  <2> QED BY <2>1, <2>2
<1>17. /\ q4 \in Seq(CallTypes) /\ Len(q4) = 1
       /\ \A k \in 1..1 : IsStatement(2 * L + k, q4[k])
    BY <1>2, <1>8, <1>11, <1>13 DEF IsStatement
<1>18. /\ q5 \in Seq(CallTypes) /\ Len(q5) \in {0, 1}
       /\ \A k \in 1..Len(q5) : IsStatement(PartitionStep + k, q5[k])
  <2>1. CASE program.memory
    <3>1. q5 = <<m>>
        BY <2>1
    <3> HIDE DEF q5
    <3> QED BY <2>1, <3>1, <1>9, <1>13 DEF IsStatement
  <2>2. CASE ~program.memory
    <3>1. q5 = <<>>
        BY <2>2
    <3> HIDE DEF q5
    <3> QED BY <3>1, <1>9, <1>13
  <2> QED BY <2>1, <2>2
<1>19. /\ q6 \in Seq(CallTypes) /\ Len(q6) \in {0, 1}
       /\ \A n \in {0, 1} : \A k \in 1..Len(q6) : IsStatement(PartitionStep + n + k, q6[k])
  <2>1. CASE program.fill.kind # "none"
    <3>1. q6 = <<f>>
        BY <2>1
    <3>2. \A n \in {0, 1} : \A k \in 1..1 : PartitionStep + n + k > PartitionStep
        BY <1>2, <1>11
    <3> HIDE DEF q6
    <3> QED BY <3>1, <3>2, <1>10, <1>13 DEF IsStatement
  <2>2. CASE ~(program.fill.kind # "none")
    <3>1. q6 = <<>>
        BY <2>2
    <3> HIDE DEF q6
    <3> QED BY <3>1, <1>10, <1>13
  <2> QED BY <2>1, <2>2
<1>26. /\ IF program.memory THEN q5 = <<m>> ELSE q5 = <<>>
       /\ IF program.fill.kind # "none" THEN q6 = <<f>> ELSE q6 = <<>>
    OBVIOUS
<1> HIDE DEF q1, q2, q3, q4, q5, q6
<1>20. s2 \in Seq(CallTypes) /\ Len(s2) = 1 + L /\ \A k \in 1..Len(s2) : IsStatement(k, s2[k])
    BY <1>12, <1>14, <1>15
<1> HIDE DEF s2
<1>21. /\ s3 \in Seq(CallTypes) /\ Len(s3) = 2 * L
       /\ \A k \in 1..Len(s3) : IsStatement(k, s3[k])
  <2>1. \A k \in 1..Len(q3) : IsStatement(Len(s2) + k, q3[k])
      BY <1>16, <1>20
  <2>2. s3 \in Seq(CallTypes) /\ Len(s3) = Len(s2) + Len(q3)
        /\ \A k \in 1..Len(s3) : IsStatement(k, s3[k])
      BY <2>1, <1>12, <1>16, <1>20
  <2>3. 1 + L + (IF L = 2 THEN 1 ELSE 0) = 2 * L
      BY <1>2
  <2> HIDE DEF s3
  <2> QED BY <2>2, <2>3, <1>16, <1>20
<1> HIDE DEF s3
<1>22. /\ s4 \in Seq(CallTypes) /\ Len(s4) = PartitionStep
       /\ \A k \in 1..Len(s4) : IsStatement(k, s4[k])
  <2>1. \A k \in 1..Len(q4) : IsStatement(Len(s3) + k, q4[k])
      BY <1>17, <1>21
  <2> QED BY <2>1, <1>11, <1>12, <1>17, <1>21
<1> HIDE DEF s4
<1>23. /\ s5 \in Seq(CallTypes) /\ Len(s5) \in {PartitionStep, PartitionStep + 1}
       /\ \A k \in 1..Len(s5) : IsStatement(k, s5[k])
  <2>1. \A k \in 1..Len(q5) : IsStatement(Len(s4) + k, q5[k])
      BY <1>18, <1>22
  <2>2. s5 \in Seq(CallTypes) /\ Len(s5) = Len(s4) + Len(q5)
        /\ \A k \in 1..Len(s5) : IsStatement(k, s5[k])
      BY <2>1, <1>12, <1>18, <1>22
  <2> HIDE DEF s5
  <2>3. Len(q5) \in {0, 1} /\ Len(s4) = PartitionStep
      BY <1>18, <1>22
  <2>4. Len(s5) \in {PartitionStep, PartitionStep + 1}
    <3>1. \A x \in {3, 5}, y \in {0, 1} : x + y \in {x, x + 1}
        OBVIOUS
    <3>2. Len(s5) = Len(s4) + Len(q5)
        BY <2>2
    <3> QED BY <2>3, <3>1, <3>2, <1>11, Zenon
  <2> QED BY <2>2, <2>4
<1>27. ASSUME NEW x \in Seq(CallTypes), NEW y \in Seq(CallTypes)
       PROVE  /\ Len(x \o y) = Len(x) + Len(y) /\ Len(x) \in Nat /\ Len(y) \in Nat
              /\ \A k \in 1..Len(x) : (x \o y)[k] = x[k]
              /\ \A k \in 1..Len(y) : (x \o y)[Len(x) + k] = y[k]
              /\ \A k \in 1..Len(x \o y) : k \in 1..Len(x) \/ k - Len(x) \in 1..Len(y)
    BY ConcatProperties, LenProperties
<1>28. /\ Len(s5) = Len(s4) + Len(q5)
       /\ \A k \in 1..Len(s4) : s5[k] = s4[k]
       /\ \A k \in 1..Len(q5) : s5[Len(s4) + k] = q5[k]
       /\ \A k \in 1..Len(s5) : k \in 1..Len(s4) \/ k - Len(s4) \in 1..Len(q5)
    BY <1>18, <1>22, <1>27
<1>29. /\ Len(s6) = Len(s5) + Len(q6)
       /\ \A k \in 1..Len(s5) : s6[k] = s5[k]
       /\ \A k \in 1..Len(q6) : s6[Len(s5) + k] = q6[k]
       /\ \A k \in 1..Len(s6) : k \in 1..Len(s5) \/ k - Len(s5) \in 1..Len(q6)
    BY <1>19, <1>23, <1>27
<1> HIDE DEF s5
<1>24. /\ Len(s6) \in {Len(s5), Len(s5) + 1}
       /\ \A k \in 1..Len(s6) : IsStatement(k, s6[k])
  <2>1. PICK n \in {0, 1} : Len(s5) = PartitionStep + n
      BY <1>2, <1>11, <1>23
  <2>2. \A k \in 1..Len(q6) : IsStatement(Len(s5) + k, q6[k])
      BY <2>1, <1>19
  <2>3. Len(s6) = Len(s5) + Len(q6) /\ \A k \in 1..Len(s6) : IsStatement(k, s6[k])
      BY <2>2, <1>12, <1>19, <1>23
  <2> HIDE DEF s6
  <2>4. Len(q6) \in {0, 1}
      BY <1>19
  <2>5. Len(s6) \in {Len(s5), Len(s5) + 1}
    <3>1. \A x \in {3, 4, 5, 6}, y \in {0, 1} : x + y \in {x, x + 1}
        OBVIOUS
    <3>2. \A x \in {3, 5}, y \in {0, 1} : x + y \in {3, 4, 5, 6}
        OBVIOUS
    <3>3. Len(s5) \in {3, 4, 5, 6}
        BY <2>1, <3>2, <1>11, Zenon
    <3>4. Len(s6) = Len(s5) + Len(q6)
        BY <2>3
    <3> QED BY <2>4, <3>1, <3>3, <3>4, Zenon
  <2> QED BY <2>3, <2>5
<1> HIDE DEF s6
<1>25. Len(s6) \in PartitionStep..7
  <2>1. /\ Len(s5) \in {PartitionStep, PartitionStep + 1}
        /\ Len(s6) \in {Len(s5), Len(s5) + 1} /\ PartitionStep \in {3, 5}
      BY <1>11, <1>23, <1>24
  <2> QED BY <2>1
<1>30. Len(s4) \in Nat /\ Len(s5) \in Nat /\ Len(s5) >= Len(s4) /\ Len(s4) = PartitionStep
  <2>1. \A x \in {3, 5} : \A y \in {x, x + 1} : x \in Nat /\ y \in Nat /\ y >= x
      OBVIOUS
  <2> QED BY <2>1, <1>11, <1>22, <1>23, Zenon
<1>31. ASSUME program.memory
       PROVE  \E k \in 1..Len(s6) : s6[k].fn = "set_memory"
  <2>1. q5 = <<m>> /\ Len(q5) = 1 /\ q5[1] = m
      BY <1>9, <1>13, <1>26, <1>31
  <2>2. s5[Len(s4) + 1] = m /\ Len(s4) + 1 \in 1..Len(s5) /\ Len(s5) \in Nat
      BY <2>1, <1>28, <1>30
  <2>3. s6[Len(s4) + 1] = m /\ Len(s4) + 1 \in 1..Len(s6)
      BY <2>2, <1>24, <1>29, <1>30
  <2> QED BY <2>3, <1>9
<1>32. ASSUME program.fill.kind # "none"
       PROVE  s6[Len(s6)] = f /\ Len(s6) > PartitionStep
  <2>1. q6 = <<f>> /\ Len(q6) = 1 /\ q6[1] = f
      BY <1>10, <1>13, <1>26, <1>32
  <2>2. s6[Len(s5) + 1] = f /\ Len(s6) = Len(s5) + 1
      BY <2>1, <1>29
  <2>3. Len(s6) > PartitionStep
      BY <2>2, <1>30
  <2> QED BY <2>2, <2>3
<1>33. ASSUME NEW k \in 1..Len(s6), s6[k].fn = "fill"
       PROVE  k = Len(s6) /\ program.fill.kind # "none"
  <2>1. CASE k \in 1..Len(s4)
    <3>1. IsStatement(k, s6[k]) /\ ~(k > PartitionStep)
        BY <2>1, <1>24, <1>30
    <3> QED BY <3>1, <1>33 DEF IsStatement
  <2>2. CASE k - Len(s4) \in 1..Len(q5) /\ k \in 1..Len(s5)
    <3>1. q5 = <<m>> /\ Len(q5) = 1 /\ q5[1] = m
        BY <2>2, <1>9, <1>13, <1>26
    <3>2. k = Len(s4) + 1
        BY <2>2, <3>1, <1>30
    <3>3. s5[k] = m /\ s6[k] = s5[k]
        BY <2>2, <3>1, <3>2, <1>28, <1>29
    <3> QED BY <3>3, <1>9, <1>33
  <2>3. CASE k - Len(s5) \in 1..Len(q6)
    <3>1. q6 = <<f>> /\ Len(q6) = 1 /\ program.fill.kind # "none"
        BY <2>3, <1>10, <1>13, <1>26
    <3> QED BY <2>3, <3>1, <1>29, <1>30
  <2> QED BY <2>1, <2>2, <2>3, <1>28, <1>29
<1> QED BY <1>1, <1>2, <1>24, <1>25, <1>31, <1>32, <1>33 DEF f

\* The next statement of the program is called.
LEMMA StatementStep ==
    ASSUME Tree, Statement
    PROVE  /\ Tree' /\ Pending = {} /\ data' = data /\ program' = program
           /\ \A c \in Pending' :
                 /\ c.d = Root
                 /\ c.fn \in {"GData", "GPartitioner", "set_next", "set_partition",
                              "set_memory", "fill"}
                 /\ c.fn = "set_memory" =>
                       program.memory /\ c.m = Buffer(<<"user">>) /\ Pending' = {c}
<1> DEFINE k == step + 1
           L == program.levels
<1>0. PICK c : c = Statements[k]
    OBVIOUS
<1>1. /\ calls = <<>> /\ step < Len(Statements) /\ calls' = <<c>> /\ step' = k
      /\ program' = program /\ shape' = shape /\ partitioners' = partitioners /\ data' = data
    BY <1>0 DEF Statement
<1>2. /\ PartitionersOK /\ DataOK /\ CallsOK /\ Phase
      /\ program \in Programs /\ shape \in Shapes
    BY DEF Tree
<1>3. /\ Nodes' = Nodes /\ CallTypes' = CallTypes
      /\ \A l : /\ Count(l)' = Count(l) /\ RowsAt(l)' = RowsAt(l)
                /\ ColsAt(l)' = ColsAt(l) /\ Place(l)' = Place(l)
      /\ Statements' = Statements /\ PartitionStep' = PartitionStep
    BY <1>1, SameShape
<1>4. /\ L \in {1, 2} /\ PartitionStep = 2 * L + 1 /\ Len(Statements) \in Int
      /\ step \in Nat /\ k \in 1..Len(Statements)
  <2>1. L \in {1, 2} /\ Len(Statements) \in PartitionStep..7
      BY <1>2, StatementFacts
  <2>2. PartitionStep = 2 * L + 1
      BY DEF PartitionStep
  <2>3. step \in 0..Len(Statements)
      BY <1>2 DEF Phase
  <2> QED BY <2>1, <2>2, <2>3, <1>1
<1>5. IsStatement(k, c)
    BY <1>0, <1>2, <1>4, StatementFacts
<1>6. c \in CallTypes /\ c.d = Root /\ Pending = {} /\ Pending' = {c}
  <2>1. c \in CallTypes /\ c.d = Root
      BY <1>5 DEF IsStatement
  <2>2. Members(<<c>>) = {c}
      BY <2>1, OneCall
  <2> QED BY <1>1, <2>1, <2>2, NoMembers DEF Pending, Members
<1>7. /\ \A d : Made(d) => d \in DOMAIN data /\ Made(d)'
      /\ \A d : Attached(d) => Attached(d)'
  <2>1. \A d : Made(d) => d \in DOMAIN data
      BY <1>6 DEF Made, Coming
  <2> QED BY <2>1, <1>1 DEF Made, Attached
<1>8. /\ Level(Root) = 0 /\ Root \in Nodes
      /\ RowsAt(0) = shape.M /\ ColsAt(0) = shape.N
    BY <1>2, ShapeFacts DEF Root, Level, Nodes
<1>9. /\ step = 0 => DOMAIN data = {}
      /\ step >= 1 => Root \in DOMAIN data
      /\ Len(partitioners) = Cuts
      /\ step < PartitionStep => \A d \in DOMAIN data : data[d].partitioner = NoPartitioner
  <2>1. ~Cutting
      BY <1>6 DEF Cutting
  <2> QED BY <2>1, <1>2, <1>7 DEF Phase
<1>10. DOMAIN partitioners = 1..Len(partitioners)
    BY <1>2 DEF PartitionersOK
<1>11. \/ k = 1 /\ c.fn = "GData" /\ c.rows = shape.M /\ c.cols = shape.N
       \/ k \in 2..L + 1 /\ c.fn = "GPartitioner" /\ c.cut = shape.cut[k - 1]
       \/ L = 2 /\ k = 4 /\ c.fn = "set_next"
       \/ k = PartitionStep /\ c.fn = "set_partition" /\ c.P = 1
       \/ /\ k = PartitionStep + 1 /\ c.fn = "set_memory"
          /\ c.m = Buffer(<<"user">>) /\ program.memory
       \/ k > PartitionStep /\ c.fn = "fill"
    BY <1>5 DEF IsStatement
<1>12. /\ c.fn = "GPartitioner" => Cuts' = Cuts + 1 /\ Cuts' = k - 1
       /\ c.fn # "GPartitioner" => Cuts' = Cuts
       /\ k >= 4 => Cuts = L
  <2>1. /\ Cuts = IF step <= 1 THEN 0 ELSE IF step <= L THEN step - 1 ELSE L
        /\ Cuts' = IF k <= 1 THEN 0 ELSE IF k <= L THEN k - 1 ELSE L
      BY <1>1 DEF Cuts
  <2>2. k = step + 1
      OBVIOUS
  <2> HIDE DEF k, L
  <2> QED BY <2>1, <2>2, <1>4, <1>11
<1>13. Made(Root)'
  <2>1. CASE k = 1
    <3>1. c.fn = "GData"
        BY <2>1, <1>4, <1>11
    <3> QED BY <3>1, <1>6 DEF Made, Coming
  <2>2. CASE k # 1
    <3>1. step >= 1
        BY <2>2, <1>4
    <3> QED BY <3>1, <1>1, <1>9 DEF Made
  <2> QED BY <2>1, <2>2
<1>14. CallOK(c)'
  <2>1. CASE k = 1 /\ c.fn = "GData" /\ c.rows = shape.M /\ c.cols = shape.N
    <3>1. step = 0
        BY <1>4, <2>1
    <3>2. Attached(Root)'
        BY DEF Attached
    <3> QED BY <2>1, <3>1, <3>2, <1>1, <1>3, <1>6, <1>8, <1>9 DEF CallOK
  <2>2. CASE k \in 2..L + 1 /\ c.fn = "GPartitioner" /\ c.cut = shape.cut[k - 1]
      BY <2>2 DEF CallOK
  <2>3. CASE L = 2 /\ k = 4 /\ c.fn = "set_next"
    <3>1. 2 \in DOMAIN partitioners
        BY <2>3, <1>9, <1>10, <1>12
    <3> QED BY <2>3, <3>1, <1>1 DEF CallOK
  <2>4. CASE k = PartitionStep /\ c.fn = "set_partition" /\ c.P = 1
    <3>1. Root \in DOMAIN data /\ data[Root].partitioner = NoPartitioner
        BY <2>4, <1>4, <1>9
    <3>2. Cuts = L
      <4>1. L = 1 => step = 2 /\ Cuts = 1
          BY <2>4, <1>4 DEF Cuts
      <4>2. L = 2 => k >= 4
          BY <2>4, <1>4
      <4> QED BY <4>1, <4>2, <1>4, <1>12
    <3>3. 1 \in DOMAIN partitioners
        BY <3>2, <1>4, <1>9, <1>10
    <3>4. c.P = Level(Root) + 1
        BY <2>4, <1>8
    <3> QED BY <2>4, <3>1, <3>3, <3>4, <1>1, <1>6, <1>7, <1>13 DEF CallOK, NoPartitioner
  <2>5. CASE k = PartitionStep + 1 /\ c.fn = "set_memory" /\ c.m = Buffer(<<"user">>)
    <3>1. Root \in DOMAIN data
        BY <2>5, <1>4, <1>9
    <3>2. Buffer(<<"user">>) \in Place(0)
      <4>1. <<"user">> \in Buffers \ {<<"null">>}
        <5>1. <<"user">> \in Buffers
            BY DEF Buffers
        <5>2. <<"user">> # <<"null">>
            OBVIOUS
        <5> QED BY <5>1, <5>2
      <4>2. 0 \in 0..2
          OBVIOUS
      <4> QED BY <4>1, <4>2, <1>2, PlaceFacts
    <3>3. Settled(Root)'
        BY <2>5, <1>6 DEF Settled, NoneComing
    <3> QED BY <2>5, <3>1, <3>2, <3>3, <1>1, <1>3, <1>6, <1>8 DEF CallOK
  <2>6. CASE k > PartitionStep /\ c.fn = "fill"
    <3>1. Root \in DOMAIN data
        BY <2>6, <1>4, <1>9
    <3> QED BY <2>6, <3>1, <1>1, <1>6 DEF CallOK
  <2> QED BY <2>1, <2>2, <2>3, <2>4, <2>5, <2>6, <1>11
<1>15. CallsOK'
  <2>1. <<c>> \in Seq(CallTypes) /\ Ordered(<<c>>)
      BY <1>6, OneCall
  <2>2. Ordered(calls)' = Ordered(calls')
      BY DEF Ordered, Sorted, Distinct, Alone, Rank, Alike
  <2> QED BY <2>1, <2>2, <1>1, <1>3, <1>6, <1>14 DEF CallsOK
<1>16. PartitionersOK'
    BY <1>1, <1>2 DEF PartitionersOK
<1>17. DataOK'
  <2>1. ASSUME NEW d \in DOMAIN data
        PROVE  DatumOK(d)'
    <3>1. DatumOK(d)
        BY <1>2 DEF DataOK
    <3> QED BY <3>1, <1>1, <1>3, <1>7 DEF DatumOK
  <2> QED BY <2>1, <1>1, <1>2, <1>3 DEF DataOK
<1>18. Phase'
  <2>1. Cutting' <=> c.fn = "GPartitioner"
      BY <1>6 DEF Cutting
  <2>2. /\ Cutting' => Len(partitioners') = Cuts' - 1
        /\ ~Cutting' => Len(partitioners') = Cuts'
    <3>1. Cuts \in Int
        BY <1>4 DEF Cuts
    <3> HIDE DEF Cuts
    <3> QED BY <2>1, <3>1, <1>1, <1>9, <1>12
  <2>3. \A e \in Pending' : e.fn = "GPartitioner" => e.cut = (shape').cut[Cuts']
    <3>1. c.fn = "GPartitioner" => c.cut = shape.cut[k - 1]
        BY <1>11
    <3> QED BY <3>1, <1>1, <1>6, <1>12
  <2>4. step' < PartitionStep' =>
           /\ \A e \in Pending' : e.fn # "set_partition"
           /\ \A d \in DOMAIN data' : data'[d].partitioner = NoPartitioner
    <3>1. k < PartitionStep => c.fn # "set_partition" /\ step < PartitionStep
        BY <1>4, <1>11
    <3> QED BY <3>1, <1>1, <1>3, <1>6, <1>9
  <2>5. step' \in 0..Len(Statements)' /\ step' # 0
      BY <1>1, <1>3, <1>4
  <2> HIDE DEF Pending
  <2> QED BY <1>13, <2>2, <2>3, <2>4, <2>5 DEF Phase
<1>19. Tree'
    BY <1>1, <1>2, <1>15, <1>16, <1>17, <1>18 DEF Tree
<1>20. /\ c.fn \in {"GData", "GPartitioner", "set_next", "set_partition",
                    "set_memory", "fill"}
       /\ c.fn = "set_memory" => program.memory /\ c.m = Buffer(<<"user">>)
    BY <1>11
<1> HIDE DEF Pending
<1> QED BY <1>1, <1>6, <1>19, <1>20

\* A partitioner is made, or linked to the next one.
LEMMA PartitionerStep ==
    ASSUME Tree, NewPartitioner \/ SetNext, data' = data
    PROVE  /\ Tree' /\ program' = program /\ Pending' = {}
           /\ Pending = {Head(calls)}
           /\ Head(calls).fn \in {"GPartitioner", "set_next"}
<1> DEFINE h == Head(calls)
           n == Len(partitioners)
<1>1. /\ calls # <<>> /\ h.fn \in {"GPartitioner", "set_next"}
      /\ calls' = <<>> \o Tail(calls)
      /\ program' = program /\ shape' = shape /\ step' = step
    BY DEF NewPartitioner, SetNext, Calling, Makes
<1>2. /\ PartitionersOK /\ DataOK /\ CallsOK /\ Phase
      /\ program \in Programs /\ shape \in Shapes
    BY DEF Tree
<1>3. /\ Nodes' = Nodes /\ CallTypes' = CallTypes
      /\ \A l : /\ Count(l)' = Count(l) /\ RowsAt(l)' = RowsAt(l)
                /\ ColsAt(l)' = ColsAt(l) /\ Place(l)' = Place(l)
      /\ Statements' = Statements /\ PartitionStep' = PartitionStep
    BY <1>1, SameShape
<1>4. /\ h \in CallTypes /\ CallOK(h) /\ Pending = {h} /\ Pending' = {} /\ calls' = <<>>
      /\ <<>> \in Seq(CallTypes)
  <2>1. <<>> \in Seq(CallTypes) /\ Members(<<>>) = {}
      BY NoMembers
  <2>2. Tail(calls) = <<>> /\ h \in CallTypes /\ CallOK(h)
        /\ Pending = {h} \cup Members(Tail(calls))
      BY <1>1, <1>2, <2>1, PendingAfter
  <2>3. calls' = <<>>
      BY <1>1, <2>2
  <2>4. Pending' = Members(calls')
      BY DEF Pending, Members
  <2> QED BY <2>1, <2>2, <2>3, <2>4
<1>5. /\ \A d : Made(d) => d \in DOMAIN data /\ Made(d)'
      /\ \A d : Attached(d) => Attached(d)'
  <2>1. \A d : Made(d) => d \in DOMAIN data
      BY <1>1, <1>4 DEF Made, Coming
  <2> QED BY <2>1 DEF Made, Attached
<1>6. /\ partitioners \in Seq([cut : Pos \X Pos, next : Nat]) /\ n \in Nat
      /\ DOMAIN partitioners = 1..n
      /\ n <= program.levels /\ program.levels \in {1, 2}
      /\ \A P \in 1..n :
          /\ partitioners[P].cut = shape.cut[P]
          /\ \/ partitioners[P].next = NoPartitioner
             \/ partitioners[P].next = P + 1 /\ P + 1 \in 1..n
    BY <1>2, ProgramsAssumption, LenProperties DEF PartitionersOK
<1>7. Cuts \in Nat /\ Cuts <= program.levels
  <2>1. step \in Nat
    <3>1. step \in 0..Len(Statements)
        BY <1>2 DEF Phase
    <3> QED BY <3>1
  <2> QED BY <2>1, <1>6 DEF Cuts
<1>8. /\ PartitionersOK' /\ Len(partitioners) <= Len(partitioners')
      /\ Len(partitioners') = Cuts /\ Len(partitioners') \in Nat
  <2>1. CASE NewPartitioner
    <3> DEFINE r == [cut |-> h.cut, next |-> NoPartitioner]
    <3>1. partitioners' = Append(partitioners, r) /\ h.fn = "GPartitioner"
        BY <2>1 DEF NewPartitioner, Calling
    <3>2. n = Cuts - 1 /\ h.cut = shape.cut[Cuts]
        BY <1>2, <1>4, <3>1 DEF Phase, Cutting
    <3>3. r \in [cut : Pos \X Pos, next : Nat] /\ r.cut = h.cut /\ r.next = NoPartitioner
        BY <1>4, <3>1, CallFields DEF NoPartitioner
    <3> HIDE DEF r
    <3>4. /\ partitioners' \in Seq([cut : Pos \X Pos, next : Nat])
          /\ Len(partitioners') = n + 1
          /\ \A P \in 1..n : partitioners'[P] = partitioners[P]
          /\ partitioners'[n + 1] = r
        BY <3>1, <3>3, <1>6, AppendProperties
    <3>5. n + 1 = Cuts
        BY <3>2, <1>6, <1>7
    <3>6. \A P \in 1..n + 1 : P \in 1..n \/ P = n + 1
        BY <1>6
    <3>7. \A P \in 1..n : P + 1 \in 1..n => P + 1 \in 1..n + 1
        BY <1>6
    <3>8. ASSUME NEW P \in 1..Len(partitioners')
          PROVE  /\ partitioners'[P].cut = shape.cut[P]
                 /\ \/ partitioners'[P].next = NoPartitioner
                    \/ /\ partitioners'[P].next = P + 1
                       /\ P + 1 \in 1..Len(partitioners')
      <4>1. CASE P \in 1..n
          BY <4>1, <3>4, <3>7, <1>6
      <4>2. CASE P = n + 1
          BY <4>2, <3>2, <3>3, <3>4, <3>5
      <4> QED BY <4>1, <4>2, <3>4, <3>6
    <3>9. n <= n + 1
        BY <1>6
    <3> QED BY <1>1, <1>6, <1>7, <3>4, <3>5, <3>8, <3>9 DEF PartitionersOK
  <2>2. CASE SetNext
    <3>1. partitioners' = [partitioners EXCEPT ![h.P].next = h.Q] /\ h.fn = "set_next"
        BY <2>2 DEF SetNext, Calling
    <3>2. h.P = 1 /\ h.Q = 2 /\ 2 \in 1..n /\ 1 \in 1..n
        BY <1>4, <1>6, <3>1, CallFields DEF CallOK
    <3>3. n = Cuts
        BY <1>2, <1>4, <3>1 DEF Phase, Cutting
    <3>4. partitioners' = [partitioners EXCEPT ![1].next = 2]
        BY <3>1, <3>2
    <3>5. \A P \in 1..n : /\ partitioners[P] \in [cut : Pos \X Pos, next : Nat]
        BY <1>6, ElementOfSeq
    <3>6. /\ \A P \in 1..n : P # 1 => partitioners'[P] = partitioners[P]
          /\ partitioners'[1].cut = partitioners[1].cut /\ partitioners'[1].next = 2
          /\ partitioners'[1] \in [cut : Pos \X Pos, next : Nat]
          /\ DOMAIN partitioners' = 1..n
        BY <1>6, <3>2, <3>4, <3>5
    <3>7. partitioners' \in Seq([cut : Pos \X Pos, next : Nat]) /\ Len(partitioners') = n
      <4>1. partitioners' \in [1..n -> [cut : Pos \X Pos, next : Nat]]
        <5>1. partitioners' = [P \in 1..n |-> partitioners'[P]]
            BY <1>6, <3>4
        <5> QED BY <3>5, <3>6, <5>1
      <4> QED BY <4>1, <1>6
    <3>8. ASSUME NEW P \in 1..n
          PROVE  /\ partitioners'[P].cut = shape.cut[P]
                 /\ \/ partitioners'[P].next = NoPartitioner
                    \/ partitioners'[P].next = P + 1 /\ P + 1 \in 1..n
      <4>1. CASE P = 1
        <5>1. 1 + 1 = 2
            OBVIOUS
        <5> QED BY <4>1, <5>1, <1>6, <3>2, <3>6
      <4>2. CASE P # 1
          BY <4>2, <1>6, <3>6
      <4> QED BY <4>1, <4>2
    <3>9. n <= n
        BY <1>6
    <3> QED BY <1>1, <1>6, <3>3, <3>7, <3>8, <3>9 DEF PartitionersOK
  <2> QED BY <2>1, <2>2
<1>9. CallsOK'
  <2>1. Ordered(<<>>)
    <3>1. Len(<<>>) = 0 /\ 1..0 = {}
        OBVIOUS
    <3> QED BY <3>1 DEF Ordered, Sorted, Distinct, Alone
  <2>2. Ordered(calls)' = Ordered(calls')
      BY DEF Ordered, Sorted, Distinct, Alone, Rank, Alike
  <2> QED BY <2>1, <2>2, <1>3, <1>4 DEF CallsOK
<1>10. DataOK'
  <2>1. ASSUME NEW d \in DOMAIN data
        PROVE  DatumOK(d)'
    <3>1. DatumOK(d)
        BY <1>2 DEF DataOK
    <3>2. \A l : l \in 1..Len(partitioners) => l \in 1..Len(partitioners')
        BY <1>6, <1>8
    <3> QED BY <3>1, <3>2, <1>3, <1>5 DEF DatumOK
  <2> QED BY <2>1, <1>2, <1>3 DEF DataOK
<1>11. Phase'
  <2>1. /\ step \in 0..Len(Statements) /\ step # 0
        /\ step >= 1 => Made(Root)
        /\ step < PartitionStep => \A e \in DOMAIN data : data[e].partitioner = NoPartitioner
      BY <1>1, <1>2 DEF Phase
  <2>2. ~Cutting' /\ Cuts' = Cuts
      BY <1>1, <1>4 DEF Cutting, Cuts
  <2> HIDE DEF Pending
  <2> QED BY <1>1, <1>3, <1>4, <1>5, <1>8, <2>1, <2>2 DEF Phase
<1>12. Tree'
    BY <1>1, <1>2, <1>8, <1>9, <1>10, <1>11 DEF Tree
<1> QED BY <1>1, <1>4, <1>12

(* The tree is as it should be *)

\* In the beginning there is nothing.
LEMMA TreeInit ==
    ASSUME Init
    PROVE  Tree /\ Allocated /\ Pending = {} /\ DOMAIN data = {}
<1>1. /\ program \in Programs /\ shape \in Shapes /\ step = 0
      /\ calls = <<>> /\ partitioners = <<>>
      /\ DOMAIN data = {} /\ data \in [DOMAIN data -> Datum]
    BY DEF Init
<1>2. Pending = {} /\ Ordered(calls) /\ calls \in Seq(CallTypes)
  <2>1. Len(<<>>) = 0 /\ 1..0 = {} /\ <<>> \in Seq(CallTypes)
      OBVIOUS
  <2> QED BY <1>1, <2>1, NoMembers DEF Pending, Ordered, Sorted, Distinct, Alone
<1>3. CallsOK
    BY <1>2 DEF CallsOK
<1>4. DataOK
    BY <1>1 DEF DataOK
<1>5. PartitionersOK
  <2>1. program.levels \in {1, 2}
      BY <1>1, ProgramsAssumption
  <2>2. /\ <<>> \in Seq([cut : Pos \X Pos, next : Nat]) /\ Len(<<>>) = 0 /\ 1..0 = {}
      OBVIOUS
  <2>3. 0 <= 1 /\ 0 <= 2
      OBVIOUS
  <2> QED BY <1>1, <2>1, <2>2, <2>3 DEF PartitionersOK
<1>6. Phase
  <2>1. 0 \in 0..Len(Statements) /\ ~(0 >= 1)
    <3>1. /\ Len(Statements) \in PartitionStep..7 /\ program.levels \in {1, 2}
        BY <1>1, StatementFacts
    <3>2. PartitionStep \in {3, 5}
        BY <3>1 DEF PartitionStep
    <3>3. Len(Statements) \in Nat
        BY <3>1, <3>2
    <3> QED BY <3>3
  <2>2. ~Cutting /\ Cuts = 0 /\ Len(partitioners) = 0
      BY <1>1, <1>2 DEF Cutting, Cuts
  <2> HIDE DEF Pending
  <2> QED BY <1>1, <1>2, <2>1, <2>2 DEF Phase
<1>7. Allocated
    BY <1>1, <1>2 DEF Allocated
<1> QED BY <1>1, <1>2, <1>3, <1>4, <1>5, <1>6, <1>7 DEF Tree

\* The calls are the next one and those that follow it.
LEMMA NextAndRest ==
    ASSUME Tree, calls # <<>>
    PROVE  Pending = {Head(calls)} \cup Rest
<1>1. calls \in Seq(CallTypes)
    BY DEF Tree, CallsOK
<1> QED BY <1>1, HeadAndTail DEF Pending, Rest

\* The data that have memory keep some, and those that are about to get some do.
LEMMA AllocatedStep ==
    ASSUME Tree, Allocated, calls # <<>>, program' = program, DOMAIN data' = DOMAIN data,
           Rest \subseteq Pending',
           ~Static /\ Has("SG") =>
              /\ \A e \in DOMAIN data : data[e].memory # Null => data'[e].memory # Null
              /\ \A c \in Pending' :
                    \/ c \in Rest
                    \/ (c.fn = "set_memory" => c.m # Null) /\ c.fn # "data_created"
              /\ Allocates(Head(calls)) =>
                    \/ data'[Head(calls).d].memory # Null
                    \/ \E c \in Pending' : c.d = Head(calls).d /\ Allocates(c)
    PROVE  Allocated'
<1>1. (Static' <=> Static) /\ (Has("SG")' <=> Has("SG"))
    BY DEF Static, Has
<1>2. CASE ~(~Static /\ Has("SG"))
    BY <1>1, <1>2 DEF Allocated
<1>3. CASE ~Static /\ Has("SG")
  <2>1. /\ \A c \in Pending : c.fn = "set_memory" => c.m # Null
        /\ \A c \in Pending :
              c.fn = "data_created" /\ c.d # Root => data[Parent(c.d)].memory # Null
        /\ \A d \in DOMAIN data :
              \/ data[d].memory # Null
              \/ \E c \in Pending : c.d = d /\ Allocates(c)
      BY <1>3 DEF Allocated
  <2>2. Pending = {Head(calls)} \cup Rest
      BY NextAndRest
  <2>3. \A c \in Rest : c.fn = "data_created" /\ c.d # Root => Parent(c.d) \in DOMAIN data
    <3> SUFFICES ASSUME NEW c \in Rest, c.fn = "data_created", c.d # Root
                 PROVE  Parent(c.d) \in DOMAIN data
        OBVIOUS
    <3>1. CallOK(c)
        BY <2>2, HeadFacts
    <3>2. c.d \in DOMAIN data
        BY <3>1 DEF CallOK
    <3> QED BY <3>2, TreeFacts
  <2> HIDE DEF Pending
  <2>4. \A c \in Pending' : c.fn = "set_memory" => c.m # Null
      BY <1>3, <2>1, <2>2
  <2>5. \A c \in Pending' :
           c.fn = "data_created" /\ c.d # Root => (data')[Parent(c.d)].memory # Null
      BY <1>3, <2>1, <2>2, <2>3
  <2>6. ASSUME NEW d \in DOMAIN data
        PROVE  \/ (data')[d].memory # Null
               \/ \E c \in Pending' : c.d = d /\ Allocates(c)
    <3>1. CASE data[d].memory # Null
        BY <1>3, <3>1
    <3>2. CASE \E c \in Pending : c.d = d /\ Allocates(c)
      <4>1. PICK c \in Pending : c.d = d /\ Allocates(c)
          BY <3>2
      <4>2. CASE c \in Rest
          BY <4>1, <4>2
      <4>3. CASE c = Head(calls)
          BY <1>3, <4>1, <4>3
      <4> QED BY <2>2, <4>2, <4>3
    <3> QED BY <2>1, <3>1, <3>2
  <2> QED BY <2>4, <2>5, <2>6 DEF Allocated, Allocates
<1> QED BY <1>2, <1>3

\* Nothing is undone when nothing changes.
LEMMA TreeStutter ==
    ASSUME Tree, Allocated, UNCHANGED vars
    PROVE  Tree' /\ Allocated'
<1>1. /\ program' = program /\ shape' = shape /\ step' = step /\ calls' = calls
      /\ partitioners' = partitioners /\ data' = data
    BY DEF vars
<1>2. /\ Nodes' = Nodes /\ CallTypes' = CallTypes
      /\ \A l : /\ Count(l)' = Count(l) /\ RowsAt(l)' = RowsAt(l)
                /\ ColsAt(l)' = ColsAt(l) /\ Place(l)' = Place(l)
      /\ Statements' = Statements /\ PartitionStep' = PartitionStep
    BY <1>1, SameShape
<1>3. Pending' = Pending /\ (NoneComing' <=> NoneComing)
    BY <1>1 DEF Pending, Members, NoneComing
<1>4. /\ \A d : Made(d)' <=> Made(d)
      /\ \A d : Attached(d)' <=> Attached(d)
      /\ \A d : Settled(d)' <=> Settled(d)
    BY <1>1, <1>3 DEF Made, Coming, Attached, Settled
<1>5. \A c : CallOK(c)' <=> CallOK(c)
    BY <1>1, <1>2, <1>4 DEF CallOK
<1>6. Ordered(calls)' <=> Ordered(calls)
    BY <1>1 DEF Ordered, Sorted, Distinct, Alone, Rank, Alike
<1> HIDE DEF Pending
<1>7. CallsOK'
    BY <1>1, <1>2, <1>3, <1>5, <1>6 DEF Tree, CallsOK
<1>8. PartitionersOK'
    BY <1>1 DEF Tree, PartitionersOK
<1>9. DataOK'
  <2>1. \A d : DatumOK(d)' <=> DatumOK(d)
      BY <1>1, <1>2, <1>4 DEF DatumOK
  <2> QED BY <1>1, <1>2, <2>1 DEF Tree, DataOK
<1>10. Phase'
  <2>1. (Cutting' <=> Cutting) /\ Cuts' = Cuts
      BY <1>1, <1>3 DEF Cutting, Cuts
  <2> QED BY <1>1, <1>2, <1>3, <1>4, <2>1 DEF Tree, Phase
<1>11. Allocated'
    BY <1>1, <1>3 DEF Allocated, Allocates, Static, Has
<1> QED BY <1>1, <1>7, <1>8, <1>9, <1>10, <1>11 DEF Tree

\* Every body keeps the tree.
LEMMA TreeBody ==
    ASSUME Tree, Allocated, NEW d \in Nodes, Body(d), partitioners' = partitioners
    PROVE  Tree'
<1>1. CASE CreateData(d)
    BY <1>1, CreateDataStep
<1>2. CASE SetPartition(d)
    BY <1>2, SetPartitionStep
<1>3. CASE SetMemoryStatic(d)
    BY <1>3, SetMemoryStaticStep
<1>4. CASE SetMemoryDynamic(d) \/ SPUCreated(d) \/ SPUSetMemory(d)
           \/ DTCreated(d) \/ DTWrapperCreated(d)
    BY <1>4, QuietBodies
<1>5. CASE SGCreated(d) \/ SGWrapperCreated(d)
    BY <1>5, SGCreatedStep
<1>6. CASE SGPartitioned(d) \/ SGWrapperPartitioned(d)
    BY <1>6, SGPartitionedStep
<1>7. CASE DTPartitioned(d) \/ DTWrapperPartitioned(d)
    BY <1>7, DTPartitionedStep
<1>8. CASE FillWith(d) \/ FillByElement(d)
    BY <1>8, FillStep
<1> QED BY <1>1, <1>2, <1>3, <1>4, <1>5, <1>6, <1>7, <1>8 DEF Body

\* A new data is told to SuperGlue before anything is cut, and lies within a data that
\* has memory: it has been there for longer than a set of calls.
LEMMA AllocatedCreate ==
    ASSUME Tree, Allocated, NEW d \in Nodes, CreateData(d), partitioners' = partitioners
    PROVE  Allocated'
<1>1. /\ DOMAIN data' = DOMAIN data \cup {d} /\ d \notin DOMAIN data
      /\ \A e \in DOMAIN data : e # d /\ data'[e] = data[e]
      /\ Attached(d) /\ Rest \subseteq Pending'
      /\ \A c \in Rest : c.fn \notin {"set_memory", "data_set_memory", "data_created"}
      /\ \A c \in Pending' :
            \/ c \in Rest
            \/ c.fn = "data_created" /\ c.d = d /\ c.by \in program.scheds
      /\ \A s \in program.scheds : Created(s, d) \in Pending'
    BY CreateDataStep
<1>2. calls # <<>> /\ Head(calls).fn = "GData" /\ program' = program
    BY DEF CreateData, Calling, Makes
<1>3. (Static' <=> Static) /\ (Has("SG")' <=> Has("SG"))
    BY <1>2 DEF Static, Has
<1> SUFFICES ASSUME ~Static, Has("SG")
             PROVE  Allocated'
    BY <1>3 DEF Allocated
<1>4. Pending = {Head(calls)} \cup Rest
    BY <1>2, NextAndRest
<1>5. \A e \in DOMAIN data :
         \/ data[e].memory # Null
         \/ \E c \in Pending : c.d = e /\ Allocates(c)
    BY DEF Allocated
<1>6. \A c \in Pending : ~Allocates(c)
    BY <1>1, <1>2, <1>4 DEF Allocates
<1>7. \A e \in DOMAIN data : data[e].memory # Null
    BY <1>5, <1>6
<1>8. d # Root => Parent(d) \in DOMAIN data
    BY <1>1 DEF Attached
<1> HIDE DEF Pending
<1>9. \A c \in Pending' : c.fn = "set_memory" => c.m # Null
    BY <1>1
<1>10. \A c \in Pending' :
          c.fn = "data_created" /\ c.d # Root => (data')[Parent(c.d)].memory # Null
    BY <1>1, <1>7, <1>8
<1>11. ASSUME NEW e \in DOMAIN data'
       PROVE  \/ (data')[e].memory # Null
              \/ \E c \in Pending' : c.d = e /\ Allocates(c)
  <2>1. CASE e \in DOMAIN data
      BY <1>1, <1>7, <2>1
  <2>2. CASE e = d
    <3>1. Created("SG", d) \in Pending'
        BY <1>1 DEF Has
    <3>2. Created("SG", d).d = d /\ Allocates(Created("SG", d))
        BY DEF Created, Allocates
    <3> QED BY <2>2, <3>1, <3>2
  <2> QED BY <1>1, <1>11, <2>1, <2>2
<1> QED BY <1>9, <1>10, <1>11 DEF Allocated, Allocates

\* A body is that of the next call, and is no statement of the program.
LEMMA BodyCall ==
    ASSUME NEW d, Body(d)
    PROVE  /\ calls # <<>> /\ Head(calls).d = d
           /\ program' = program /\ shape' = shape /\ step' = step
<1>1. CASE CreateData(d)
    BY <1>1 DEF CreateData, Calling, Makes
<1>2. CASE SetPartition(d)
    BY <1>2 DEF SetPartition, Calling, Makes
<1>3. CASE SetMemoryStatic(d)
    BY <1>3 DEF SetMemoryStatic, Calling, Makes
<1>4. CASE SetMemoryDynamic(d)
    BY <1>4 DEF SetMemoryDynamic, Calling, Makes
<1>5. CASE SGCreated(d)
    BY <1>5 DEF SGCreated, Told, Calling, Makes
<1>6. CASE SGWrapperCreated(d)
    BY <1>6 DEF SGWrapperCreated, Told, Calling, Makes
<1>7. CASE SGPartitioned(d)
    BY <1>7 DEF SGPartitioned, Told, Calling, Makes
<1>8. CASE SGWrapperPartitioned(d)
    BY <1>8 DEF SGWrapperPartitioned, Told, Calling, Makes
<1>9. CASE DTCreated(d) \/ DTWrapperCreated(d)
    BY <1>9 DEF DTCreated, DTWrapperCreated, NewOneLevelData, Told, Calling, Makes
<1>10. CASE DTPartitioned(d)
    BY <1>10 DEF DTPartitioned, LinkParts, OverGrid, Told, Calling, Makes
<1>11. CASE DTWrapperPartitioned(d)
    BY <1>11 DEF DTWrapperPartitioned, LinkParts, OverGrid, Told, Calling, Makes
<1>12. CASE SPUCreated(d) \/ SPUSetMemory(d)
    BY <1>12 DEF SPUCreated, SPUSetMemory, Told, Calling, Makes
<1>13. CASE FillWith(d) \/ FillByElement(d)
    BY <1>13 DEF FillWith, FillByElement, Calling, Makes
<1> QED BY <1>1, <1>2, <1>3, <1>4, <1>5, <1>6, <1>7, <1>8, <1>9, <1>10, <1>11, <1>12,
    <1>13 DEF Body

\* The bodies that only leave a guest or a handle change no memory.
LEMMA SameMemory ==
    ASSUME Tree, NEW d \in DOMAIN data,
           SPUCreated(d) \/ SPUSetMemory(d) \/ DTCreated(d) \/ DTWrapperCreated(d)
    PROVE  \A e \in DOMAIN data : /\ (data')[e].memory = data[e].memory
                                  /\ (data')[e].partitioner = data[e].partitioner
<1>1. data \in [DOMAIN data -> Datum]
    BY DEF Tree, DataOK
<1>2. CASE SPUCreated(d)
  <2> DEFINE r == NewSPUData(d)
  <2>1. r.memory = data[d].memory /\ r.partitioner = data[d].partitioner
      BY <1>1 DEF NewSPUData, Datum
  <2>2. data' = data \/ data' = [data EXCEPT ![d] = r]
      BY <1>2 DEF SPUCreated
  <2> HIDE DEF r
  <2> QED BY <1>1, <2>1, <2>2
<1>3. CASE SPUSetMemory(d)
  <2> DEFINE h == Registered(d, Head(calls).m)
  <2>1. data' = data \/ data' = [data EXCEPT ![d].handle = h]
      BY <1>3 DEF SPUSetMemory
  <2> HIDE DEF h
  <2> QED BY <1>1, <2>1 DEF Datum
<1>4. CASE DTCreated(d) \/ DTWrapperCreated(d)
  <2>1. data' = data \/ data' = [data EXCEPT ![d].guest = "DT"]
      BY <1>4 DEF DTCreated, DTWrapperCreated, NewOneLevelData
  <2> QED BY <1>1, <2>1 DEF Datum
<1> QED BY <1>2, <1>3, <1>4

\* Every body keeps the data allocated, or about to be.
LEMMA AllocatedBody ==
    ASSUME Tree, Allocated, NEW d \in Nodes, Body(d), partitioners' = partitioners
    PROVE  Allocated'
<1>1. CASE CreateData(d)
    BY <1>1, AllocatedCreate
<1>2. ASSUME ~CreateData(d)
      PROVE  Allocated'
  <2>1. calls # <<>> /\ Head(calls).d = d /\ program' = program
      BY BodyCall
  <2>2. (Static' <=> Static) /\ (Has("SG")' <=> Has("SG"))
      BY <2>1 DEF Static, Has
  <2> SUFFICES ASSUME ~Static, Has("SG")
               PROVE  Allocated'
      BY <2>2 DEF Allocated
  <2>3. Pending = {Head(calls)} \cup Rest
      BY <2>1, NextAndRest
  <2>4. \A c \in Pending : c.fn = "set_memory" => c.m # Null
      BY DEF Allocated
  <2>5. data \in [DOMAIN data -> Datum]
      BY DEF Tree, DataOK
  <2>6. CASE SetPartition(d)
    <3>1. Head(calls).fn = "set_partition"
        BY <2>6 DEF SetPartition, Calling
    <3>2. ~Allocates(Head(calls))
        BY <3>1 DEF Allocates
    <3> HIDE DEF Pending
    <3>3. /\ DOMAIN data' = DOMAIN data /\ Rest \subseteq Pending'
          /\ \A e \in DOMAIN data : data'[e].memory = data[e].memory
          /\ \A c \in Pending' : c \in Rest \/ c.fn \notin {"set_memory", "data_created"}
        BY <2>6, SetPartitionStep
    <3> QED BY <2>1, <3>2, <3>3, AllocatedStep
  <2>7. CASE SetMemoryDynamic(d)
    <3>1. /\ Head(calls).fn = "set_memory"
          /\ data' = [data EXCEPT ![d].memory = Head(calls).m]
        BY <2>7 DEF SetMemoryDynamic, Calling
    <3>2. Head(calls).m # Null
        BY <2>3, <2>4, <3>1
    <3> HIDE DEF Pending
    <3>3. DOMAIN data' = DOMAIN data /\ Pending' = Rest /\ d \in DOMAIN data
        BY <2>7, QuietBodies
    <3>4. /\ \A e \in DOMAIN data : data[e].memory # Null => (data')[e].memory # Null
          /\ (data')[d].memory # Null
        BY <2>5, <3>1, <3>2, <3>3 DEF Datum
    <3> QED BY <2>1, <3>3, <3>4, AllocatedStep
  <2>8. CASE SPUCreated(d) \/ SPUSetMemory(d) \/ DTCreated(d) \/ DTWrapperCreated(d)
    <3>1. ~Allocates(Head(calls))
        BY <2>8 DEF SPUCreated, SPUSetMemory, DTCreated, DTWrapperCreated, Calling,
            Told, Allocates
    <3> HIDE DEF Pending
    <3>2. DOMAIN data' = DOMAIN data /\ Pending' = Rest /\ d \in DOMAIN data
        BY <2>8, QuietBodies
    <3>3. \A e \in DOMAIN data : (data')[e].memory = data[e].memory
        BY <2>8, <3>2, SameMemory
    <3> QED BY <2>1, <3>1, <3>2, <3>3, AllocatedStep
  <2>9. CASE SGWrapperCreated(d)
    <3>1. data' = [data EXCEPT ![d].guest = IF @ = "none" THEN "SG" ELSE @]
        BY <2>9 DEF SGWrapperCreated, GuestIfNone
    <3> HIDE DEF Pending
    <3>2. /\ d \in DOMAIN data /\ Rest \subseteq Pending'
          /\ \A c \in Pending' :
                \/ c \in Rest
                \/ c.fn = "set_memory" /\ c.d = d /\ c.m # Null
          /\ \E c \in Pending' : c.fn = "set_memory" /\ c.d = d
        BY <2>9, SGCreatedStep
    <3>3. \A e \in DOMAIN data : (data')[e].memory = data[e].memory
        BY <2>5, <3>1, <3>2 DEF Datum
    <3>4. DOMAIN data' = DOMAIN data
        BY <3>1
    <3>5. \E c \in Pending' : c.d = d /\ Allocates(c)
        BY <3>2 DEF Allocates
    <3> QED BY <2>1, <3>2, <3>3, <3>4, <3>5, AllocatedStep
  <2>10. CASE SGWrapperPartitioned(d)
    <3>1. Head(calls).fn = "data_partitioned" /\ data' = data
        BY <2>10 DEF SGWrapperPartitioned, Told, Calling
    <3>2. ~Allocates(Head(calls))
        BY <3>1 DEF Allocates
    <3> HIDE DEF Pending
    <3>3. /\ Rest \subseteq Pending' /\ d \in DOMAIN data /\ data[d].memory # Null
          /\ \A c \in Pending' :
                \/ c \in Rest
                \/ /\ c.fn = "set_memory"
                   /\ \E k \in 0..data[d].child_cnt - 1 :
                         c.m = PartOf(data[d].memory, Level(d), k)
        BY <2>10, SGPartitionedStep
    <3>4. ASSUME NEW k \in 0..data[d].child_cnt - 1
          PROVE  PartOf(data[d].memory, Level(d), k) # Null
      <4>1. /\ data[d].child_cnt > 0 => data[d].partitioner # NoPartitioner
            /\ data[d].child_cnt \in Nat /\ data[d].memory \in Place(Level(d))
            /\ data[d].partitioner # NoPartitioner =>
                  Level(d) \in 0..1 /\ data[d].child_cnt = Count(Level(d) + 1)
          BY <3>3, TreeFacts
      <4>2. data[d].child_cnt > 0 /\ k \in Nat /\ k < data[d].child_cnt
          BY <4>1
      <4>3. shape \in Shapes
          BY DEF Tree
      <4>4. Plus(data[d].memory, k * SizeAt(Level(d) + 1)) # Null
          BY <3>3, <4>1, <4>2, <4>3, PartPlace
      <4> QED BY <3>3, <4>4 DEF PartOf
    <3> QED BY <2>1, <3>1, <3>2, <3>3, <3>4, AllocatedStep
  <2>11. CASE DTWrapperPartitioned(d)
    <3>1. Head(calls).fn = "data_partitioned"
        BY <2>11 DEF DTWrapperPartitioned, Told, Calling
    <3>2. ~Allocates(Head(calls))
        BY <3>1 DEF Allocates
    <3> HIDE DEF Pending
    <3>3. /\ Rest \subseteq Pending' /\ DOMAIN data' = DOMAIN data
          /\ \A e \in DOMAIN data : (data')[e].memory = data[e].memory
          /\ \A c \in Pending' : c \in Rest \/ (c.fn = "set_memory" /\ c.m # Null)
        BY <2>11, DTPartitionedStep
    <3> QED BY <2>1, <3>2, <3>3, AllocatedStep
  <2>12. CASE FillWith(d) \/ FillByElement(d)
    <3>1. ~Allocates(Head(calls))
        BY <2>12 DEF FillWith, FillByElement, Calling, Allocates
    <3> HIDE DEF Pending
    <3>2. /\ Rest \subseteq Pending' /\ data' = data
          /\ \A c \in Pending' : c \in Rest \/ c.fn = "fill"
        BY <2>12, FillStep
    <3> QED BY <2>1, <3>1, <3>2, AllocatedStep
  <2> QED BY <1>2, <2>6, <2>7, <2>8, <2>9, <2>10, <2>11, <2>12
      DEF Body, SetMemoryStatic, SGCreated, SGPartitioned, DTPartitioned
<1> QED BY <1>1, <1>2

\* A step of the program.
LEMMA TreeStatement ==
    ASSUME Tree, Allocated, Statement
    PROVE  Tree' /\ Allocated'
<1>1. /\ Tree' /\ Pending = {} /\ data' = data /\ program' = program
      /\ \A c \in Pending' :
            /\ c.fn # "data_created"
            /\ c.fn = "set_memory" => program.memory
    BY StatementStep
<1>2. (Static' <=> Static) /\ (Has("SG")' <=> Has("SG"))
    BY <1>1 DEF Static, Has
<1>3. program \in Programs
    BY DEF Tree
<1>4. program.memory => Static
    BY <1>3, ProgramsAssumption DEF Static
<1>5. ~Static /\ Has("SG") => \A e \in DOMAIN data : data[e].memory # Null
    BY <1>1 DEF Allocated
<1> HIDE DEF Pending
<1> QED BY <1>1, <1>2, <1>4, <1>5 DEF Allocated, Allocates

\* A step of a partitioner.
LEMMA TreePartitioner ==
    ASSUME Tree, Allocated, NewPartitioner \/ SetNext, data' = data
    PROVE  Tree' /\ Allocated'
<1>1. /\ Tree' /\ program' = program /\ Pending' = {}
      /\ Pending = {Head(calls)}
      /\ Head(calls).fn \in {"GPartitioner", "set_next"}
    BY PartitionerStep
<1>2. (Static' <=> Static) /\ (Has("SG")' <=> Has("SG"))
    BY <1>1 DEF Static, Has
<1>3. ~Static /\ Has("SG") => \A e \in DOMAIN data : data[e].memory # Null
    BY <1>1 DEF Allocated, Allocates
<1> HIDE DEF Pending
<1> QED BY <1>1, <1>2, <1>3 DEF Allocated, Allocates

\* Every step keeps the tree, with its data allocated.
LEMMA TreeNext ==
    ASSUME Tree, Allocated, [Next]_vars
    PROVE  Tree' /\ Allocated'
<1>1. CASE Statement
    BY <1>1, TreeStatement
<1>2. CASE (NewPartitioner \/ SetNext) /\ UNCHANGED <<data, content>>
    BY <1>2, TreePartitioner
<1>3. CASE calls # <<>> /\ Body(Head(calls).d) /\ UNCHANGED partitioners
  <2>1. Head(calls).d \in Nodes
      BY <1>3, HeadFacts
  <2> QED BY <1>3, <2>1, TreeBody, AllocatedBody
<1>4. CASE UNCHANGED vars
    BY <1>4, TreeStutter
<1> QED BY <1>1, <1>2, <1>3, <1>4 DEF Next, Terminated

\* The tree grows as it is cut and stays consistent with the calls that are pending,
\* with every data of SuperGlue's in the dynamic variant allocated or about to be.
THEOREM TreeInductive == Spec => [](Tree /\ Allocated)
<1>1. Init => Tree /\ Allocated
    BY TreeInit
<1>2. (Tree /\ Allocated) /\ [Next]_vars => (Tree /\ Allocated)'
    BY TreeNext
<1> QED BY <1>1, <1>2, PTL DEF Spec


\* No data is higher or wider than the whole.
LEMMA WithinWhole ==
    ASSUME shape \in Shapes, NEW l \in 0..2
    PROVE  RowsAt(l) \in 1..shape.M /\ ColsAt(l) \in 1..shape.N
<1>1. \A n, r, s \in Pos : n * r = s => r <= s
  <2>1. \A n, s \in Pos : s <= n * s
      BY DEF Pos
  <2> QED BY <2>1
<1>2. /\ RowsAt(0) \in Pos /\ RowsAt(1) \in Pos /\ RowsAt(2) \in Pos
      /\ ColsAt(0) \in Pos /\ ColsAt(1) \in Pos /\ ColsAt(2) \in Pos
      /\ RowsAt(0) = shape.M /\ ColsAt(0) = shape.N
  <2>1. 0 \in 0..2 /\ 1 \in 0..2 /\ 2 \in 0..2
      OBVIOUS
  <2> QED BY <2>1, ShapeFacts
<1>3. /\ shape.cut[1][1] \in Pos /\ shape.cut[2][1] \in Pos
      /\ shape.cut[1][2] \in Pos /\ shape.cut[2][2] \in Pos
      /\ shape.cut[1][1] * RowsAt(1) = RowsAt(0) /\ shape.cut[2][1] * RowsAt(2) = RowsAt(1)
      /\ shape.cut[1][2] * ColsAt(1) = ColsAt(0) /\ shape.cut[2][2] * ColsAt(2) = ColsAt(1)
  <2>1. 1 \in 1..2 /\ 2 \in 1..2 /\ 1 - 1 = 0 /\ 2 - 1 = 1
      OBVIOUS
  <2> QED BY <2>1, ShapeFacts
<1>4. /\ RowsAt(1) <= RowsAt(0) /\ RowsAt(2) <= RowsAt(1)
      /\ ColsAt(1) <= ColsAt(0) /\ ColsAt(2) <= ColsAt(1)
    BY <1>1, <1>2, <1>3
<1>5. l = 0 \/ l = 1 \/ l = 2
    OBVIOUS
<1>6. \A a, b, c \in Pos : a <= b /\ b <= c => a \in 1..c /\ b \in 1..c /\ c \in 1..c
    BY DEF Pos
<1> HIDE DEF Pos
<1>7. /\ RowsAt(0) \in 1..RowsAt(0) /\ RowsAt(1) \in 1..RowsAt(0)
      /\ RowsAt(2) \in 1..RowsAt(0)
    BY <1>2, <1>4, <1>6
<1>8. /\ ColsAt(0) \in 1..ColsAt(0) /\ ColsAt(1) \in 1..ColsAt(0)
      /\ ColsAt(2) \in 1..ColsAt(0)
    BY <1>2, <1>4, <1>6
<1> QED BY <1>2, <1>5, <1>7, <1>8

\* The types follow from the tree: a data is as large as its level says, lies within the
\* whole, and is one of the children its parent has.
LEMMA TreeTypes == Tree => TypeOK
<1> SUFFICES ASSUME Tree
             PROVE  TypeOK
    OBVIOUS
<1>1. /\ program \in Programs /\ shape \in Shapes
      /\ PartitionersOK /\ DataOK /\ CallsOK /\ Phase
    BY DEF Tree
<1>2. step \in 0..7
  <2>1. step \in 0..Len(Statements) /\ Len(Statements) \in PartitionStep..7
      BY <1>1, StatementFacts DEF Phase
  <2>2. PartitionStep \in Int
      BY <1>1, StatementFacts DEF PartitionStep
  <2> QED BY <2>1, <2>2
<1>3. \A P \in DOMAIN partitioners : partitioners[P].next \in {NoPartitioner, P + 1}
    BY <1>1 DEF PartitionersOK
<1>4. \A i \in DOMAIN calls : \A l \in DOMAIN calls[i].d : calls[i].d[l] \in Nat
  <2> SUFFICES ASSUME NEW i \in DOMAIN calls, NEW l \in DOMAIN calls[i].d
               PROVE  calls[i].d[l] \in Nat
      OBVIOUS
  <2>1. calls[i] \in CallTypes
      BY <1>1 DEF CallsOK
  <2>2. calls[i].d \in Nodes
      BY <2>1 DEF CallTypes
  <2>3. calls[i].d \in Seq(Nat)
      BY <2>2 DEF Nodes
  <2> QED BY <2>3
<1>5. ASSUME NEW d \in DOMAIN data
      PROVE  /\ data[d].rows \in 1..shape.M /\ data[d].cols \in 1..shape.N
             /\ data[d].partitioner \in {NoPartitioner} \cup DOMAIN partitioners
             /\ data[d].guest \in {"none", "SG", "DT", "DTPart", "SPU"}
             /\ data[d].memory.ofs \in 0..shape.M * shape.N - 1
             /\ d # Root => Last(d) < data[Parent(d)].child_cnt
  <2>1. /\ Level(d) \in 0..2 /\ data[d] \in Datum /\ DatumOK(d)
        /\ data[d].memory \in Place(Level(d))
        /\ d # Root =>
              /\ Parent(d) \in DOMAIN data
              /\ Last(d) \in 0..data[Parent(d)].child_cnt - 1
      BY TreeFacts
  <2>2. d # Root => data[Parent(d)].child_cnt \in Nat
      BY <2>1, TreeFacts
  <2>3. data[d].rows \in 1..shape.M /\ data[d].cols \in 1..shape.N
      BY <1>1, <2>1, WithinWhole DEF DatumOK
  <2>4. data[d].partitioner \in {NoPartitioner} \cup DOMAIN partitioners
      BY <1>1, <2>1 DEF DatumOK, PartitionersOK
  <2>5. data[d].guest \in {"none", "SG", "DT", "DTPart", "SPU"}
      BY <2>1 DEF Datum, Guests
  <2>6. data[d].memory.ofs \in 0..shape.M * shape.N - 1
    <3>1. /\ data[d].memory \in [buf : Buffers, ofs : Nat]
          /\ data[d].memory.ofs + SizeAt(Level(d)) <= SizeAt(0)
        BY <2>1 DEF Place, Addresses
    <3>2. data[d].memory.ofs \in Nat
        BY <3>1
    <3>3. SizeAt(Level(d)) \in Pos /\ SizeAt(0) \in Pos
        BY <1>1, <2>1, ShapeFacts
    <3>4. SizeAt(0) = shape.M * shape.N
        BY DEF SizeAt, RowsAt, ColsAt
    <3> QED BY <3>1, <3>2, <3>3, <3>4 DEF Pos
  <2>7. d # Root => Last(d) < data[Parent(d)].child_cnt
      BY <2>1, <2>2
  <2> QED BY <2>3, <2>4, <2>5, <2>6, <2>7
<1> QED BY <1>1, <1>2, <1>3, <1>4, <1>5 DEF TypeOK

\* Types, for every program and shape.
THEOREM TypeCorrect == Spec => []TypeOK
<1> QED BY TreeInductive, TreeTypes, PTL

\* No offset is ever added to the null pointer: where memory is handed down unchecked,
\* in the dynamic variant, the parent has some by then.
THEOREM NullStaysNull == Spec => []NoWildPointer
<1>1. Tree => NoWildPointer
  <2> SUFFICES ASSUME Tree, NEW d \in DOMAIN data, data[d].memory.buf = <<"null">>
               PROVE  data[d].memory = Null
      BY DEF NoWildPointer
  <2>1. data[d].memory \in Place(Level(d))
      BY TreeFacts
  <2> QED BY <2>1 DEF Place, Tame
<1> QED BY <1>1, TreeInductive, PTL


(* What StarPU knows *)

\* StarPU knows a block by its memory, or is about to be told of it.
Registering ==
    Has("SPU") =>
        /\ \A c \in Pending : c.fn = "data_set_memory" => c.m = data[c.d].memory
        /\ \A d \in DOMAIN data \ {Root} :
              OfStarPU(d) /\ data[d].memory # Null =>
                  \/ data[d].handle = data[d].memory
                  \/ \E c \in Pending : c.fn = "data_set_memory" /\ c.d = d

\* A step that moves nothing and tells StarPU nothing.
LEMMA RegisteringKept ==
    ASSUME Tree, Registering, program' = program,
           \A d \in DOMAIN data :
               (data')[d].memory = data[d].memory /\ (data')[d].handle = data[d].handle,
           \A d \in DOMAIN data' \ DOMAIN data : (data')[d].memory = Null,
           \A c \in Pending : c.fn = "data_set_memory" => c \in Pending',
           \A c \in Pending' : c.fn = "data_set_memory" => c \in Pending
    PROVE  Registering'
<1>1. /\ Has("SPU")' <=> Has("SPU")
      /\ \A d : OfStarPU(d)' <=> OfStarPU(d)
    BY DEF Has, OfStarPU, Level
<1>2. CASE ~Has("SPU")
    BY <1>1, <1>2 DEF Registering
<1>3. CASE Has("SPU")
  <2>1. /\ \A c \in Pending : c.fn = "data_set_memory" => c.m = data[c.d].memory
        /\ \A d \in DOMAIN data \ {Root} :
              OfStarPU(d) /\ data[d].memory # Null =>
                  \/ data[d].handle = data[d].memory
                  \/ \E c \in Pending : c.fn = "data_set_memory" /\ c.d = d
      BY <1>3 DEF Registering
  <2>2. \A c \in Pending : c.fn = "data_set_memory" => c.d \in DOMAIN data
    <3> SUFFICES ASSUME NEW c \in Pending, c.fn = "data_set_memory"
                 PROVE  c.d \in DOMAIN data
        OBVIOUS
    <3>1. CallOK(c)
        BY DEF Tree, CallsOK
    <3> QED BY <3>1 DEF CallOK
  <2> HIDE DEF Pending
  <2>3. \A c \in Pending' : c.fn = "data_set_memory" => c.m = (data')[c.d].memory
      BY <2>1, <2>2
  <2>4. ASSUME NEW d \in DOMAIN data' \ {Root}, OfStarPU(d), (data')[d].memory # Null
        PROVE  \/ (data')[d].handle = (data')[d].memory
               \/ \E c \in Pending' : c.fn = "data_set_memory" /\ c.d = d
      BY <2>1, <2>4
  <2> QED BY <1>1, <2>3, <2>4 DEF Registering
<1> QED BY <1>2, <1>3

\* set_memory is broadcast before the children get theirs.
LEMMA RegisteringSet ==
    ASSUME Tree, Registering, NEW d \in Nodes, SetMemoryStatic(d),
           partitioners' = partitioners
    PROVE  Registering'
<1>1. /\ calls # <<>> /\ Head(calls).fn = "set_memory" /\ Head(calls).d = d
      /\ data' = [data EXCEPT ![d].memory = Head(calls).m] /\ program' = program
    BY DEF SetMemoryStatic, Calling, Makes
<1>2. d \in DOMAIN data /\ data \in [DOMAIN data -> Datum]
  <2>1. CallOK(Head(calls))
      BY <1>1, HeadFacts
  <2> QED BY <1>1, <2>1 DEF CallOK, Tree, DataOK
<1>3. \A c \in Pending : c.fn # "data_set_memory"
    BY <1>1, HeadFacts
<1>4. Pending = {Head(calls)} \cup Rest
    BY <1>1, NextAndRest
<1>5. /\ Has("SPU")' <=> Has("SPU")
      /\ \A e : OfStarPU(e)' <=> OfStarPU(e)
    BY <1>1 DEF Has, OfStarPU, Level
<1> HIDE DEF Pending
<1>6. /\ \A c \in Pending' :
            \/ c \in Rest
            \/ c = MemorySet(d, Head(calls).m)
            \/ c.fn = "set_memory"
      /\ Has("SPU") => MemorySet(d, Head(calls).m) \in Pending'
    BY SetMemoryStaticStep
<1>7. /\ MemorySet(d, Head(calls).m).fn = "data_set_memory"
      /\ MemorySet(d, Head(calls).m).d = d
      /\ MemorySet(d, Head(calls).m).m = Head(calls).m
    BY DEF MemorySet
<1>8. /\ (data')[d].memory = Head(calls).m /\ DOMAIN data' = DOMAIN data
      /\ \A e \in DOMAIN data : e # d => (data')[e] = data[e]
    BY <1>1, <1>2 DEF Datum
<1> SUFFICES ASSUME Has("SPU")
             PROVE  Registering'
    BY <1>5 DEF Registering
<1>9. ASSUME NEW c \in Pending', c.fn = "data_set_memory"
      PROVE  c.m = (data')[c.d].memory
    BY <1>3, <1>4, <1>6, <1>7, <1>8, <1>9
<1>10. ASSUME NEW e \in DOMAIN data' \ {Root}, OfStarPU(e), (data')[e].memory # Null
       PROVE  \/ (data')[e].handle = (data')[e].memory
              \/ \E c \in Pending' : c.fn = "data_set_memory" /\ c.d = e
  <2>1. CASE e = d
      BY <1>6, <1>7, <2>1
  <2>2. CASE e # d
      BY <1>3, <1>8, <1>10, <2>2 DEF Registering
  <2> QED BY <2>1, <2>2
<1> QED BY <1>5, <1>9, <1>10 DEF Registering

\* StarPU is told of a data, or of its memory.
LEMMA RegisteringTold ==
    ASSUME Tree, Registering, NEW d \in Nodes, SPUCreated(d) \/ SPUSetMemory(d),
           partitioners' = partitioners
    PROVE  Registering'
<1>1. /\ calls # <<>> /\ Head(calls).d = d /\ program' = program
      /\ Head(calls).fn \in {"data_created", "data_set_memory"}
    BY DEF SPUCreated, SPUSetMemory, Told, Calling, Makes
<1>2. data \in [DOMAIN data -> Datum]
    BY DEF Tree, DataOK
<1>3. Pending = {Head(calls)} \cup Rest
    BY <1>1, NextAndRest
<1>4. /\ Has("SPU")' <=> Has("SPU")
      /\ \A e : OfStarPU(e)' <=> OfStarPU(e)
    BY <1>1 DEF Has, OfStarPU, Level
<1>5. Head(calls).fn = "data_created" => \A c \in Pending : c.fn # "data_set_memory"
    BY <1>1, HeadFacts
<1> SUFFICES ASSUME Has("SPU")
             PROVE  Registering'
    BY <1>4 DEF Registering
<1>6. /\ \A c \in Pending : c.fn = "data_set_memory" => c.m = data[c.d].memory
      /\ \A e \in DOMAIN data \ {Root} :
            OfStarPU(e) /\ data[e].memory # Null =>
                \/ data[e].handle = data[e].memory
                \/ \E c \in Pending : c.fn = "data_set_memory" /\ c.d = e
    BY DEF Registering
<1> HIDE DEF Pending
<1>7. d \in DOMAIN data /\ DOMAIN data' = DOMAIN data /\ Pending' = Rest
    BY QuietBodies
<1>8. /\ \A e \in DOMAIN data : (data')[e].memory = data[e].memory
      /\ \A e \in DOMAIN data : e # d => (data')[e].handle = data[e].handle
      /\ d # Root /\ OfStarPU(d) /\ data[d].memory # Null =>
            (data')[d].handle = data[d].memory
  <2>1. CASE SPUCreated(d)
    <3> DEFINE r == NewSPUData(d)
    <3>1. r.memory = data[d].memory /\ r.handle = Registered(d, data[d].memory)
        BY <1>2, <1>7 DEF NewSPUData, Datum
    <3>2. data' = IF OfStarPU(d) THEN [data EXCEPT ![d] = r] ELSE data
        BY <2>1 DEF SPUCreated
    <3> HIDE DEF r
    <3> QED BY <1>2, <1>7, <3>1, <3>2 DEF Registered
  <2>2. CASE SPUSetMemory(d)
    <3> DEFINE h == Registered(d, Head(calls).m)
    <3>1. Head(calls).m = data[d].memory
        BY <1>1, <1>3, <1>6, <2>2 DEF SPUSetMemory, Calling
    <3>2. data[d].memory # Null => h = data[d].memory
        BY <3>1 DEF Registered
    <3>3. data' = IF d # Root /\ OfStarPU(d) THEN [data EXCEPT ![d].handle = h] ELSE data
        BY <2>2 DEF SPUSetMemory
    <3> HIDE DEF h
    <3> QED BY <1>2, <1>7, <3>2, <3>3 DEF Datum
  <2> QED BY <2>1, <2>2
<1>9. ASSUME NEW c \in Pending', c.fn = "data_set_memory"
      PROVE  c.m = (data')[c.d].memory
  <2>1. c \in Pending
      BY <1>3, <1>7
  <2>2. CallOK(c)
      BY <1>1, <2>1, HeadFacts
  <2>3. c.d \in DOMAIN data
      BY <1>9, <2>2 DEF CallOK
  <2> QED BY <1>6, <1>8, <1>9, <2>1, <2>3
<1>10. ASSUME NEW e \in DOMAIN data' \ {Root}, OfStarPU(e), (data')[e].memory # Null
       PROVE  \/ (data')[e].handle = (data')[e].memory
              \/ \E c \in Pending' : c.fn = "data_set_memory" /\ c.d = e
  <2>1. CASE e = d
      BY <1>7, <1>8, <1>10, <2>1
  <2>2. CASE e # d
      BY <1>1, <1>3, <1>6, <1>7, <1>8, <1>10, <2>2
  <2> QED BY <2>1, <2>2
<1> QED BY <1>4, <1>9, <1>10 DEF Registering


\* StarPU is not there with SuperGlue, nor in the dynamic variant.
LEMMA WithStarPU ==
    ASSUME Tree, Has("SPU"), NEW d \in Nodes
    PROVE  /\ Static /\ ~SetMemoryDynamic(d)
           /\ ~DTWrapperCreated(d) /\ ~DTWrapperPartitioned(d)
           /\ ~SGCreated(d) /\ ~SGWrapperCreated(d)
           /\ ~SGPartitioned(d) /\ ~SGWrapperPartitioned(d)
<1>1. Static /\ "SG" \notin program.scheds
    BY ProgramsAssumption DEF Tree, Has, Static
<1>2. ASSUME NEW fn \in {"data_created", "data_partitioned"}, Told(fn, "SG", d)
      PROVE  FALSE
  <2>1. /\ calls # <<>> /\ Head(calls).by = "SG"
        /\ Head(calls).fn \in {"data_created", "data_partitioned"}
      BY <1>2 DEF Told, Calling
  <2>2. CallOK(Head(calls))
      BY <2>1, HeadFacts
  <2> QED BY <1>1, <2>1, <2>2 DEF CallOK
<1>3. /\ ~Told("data_created", "SG", d)
      /\ ~Told("data_partitioned", "SG", d)
    BY <1>2
<1>4. ~SetMemoryDynamic(d)
    BY <1>1 DEF SetMemoryDynamic
<1>5. ~DTWrapperCreated(d)
    BY <1>1 DEF DTWrapperCreated
<1>6. ~DTWrapperPartitioned(d)
    BY <1>1 DEF DTWrapperPartitioned
<1>7. ~SGCreated(d)
    BY <1>3 DEF SGCreated
<1>8. ~SGWrapperCreated(d)
    BY <1>3 DEF SGWrapperCreated
<1>9. ~SGPartitioned(d)
    BY <1>3 DEF SGPartitioned
<1>10. ~SGWrapperPartitioned(d)
    BY <1>3 DEF SGWrapperPartitioned
<1> QED BY <1>1, <1>4, <1>5, <1>6, <1>7, <1>8, <1>9, <1>10

\* Every body keeps StarPU informed.
LEMMA RegisteringBody ==
    ASSUME Tree, Registering, NEW d \in Nodes, Body(d), partitioners' = partitioners
    PROVE  Registering'
<1>1. calls # <<>> /\ program' = program
    BY BodyCall
<1>2. Has("SPU")' <=> Has("SPU")
    BY <1>1 DEF Has
<1> SUFFICES ASSUME Has("SPU")
             PROVE  Registering'
    BY <1>2 DEF Registering
<1>3. Pending = {Head(calls)} \cup Rest
    BY <1>1, NextAndRest
<1>4. data \in [DOMAIN data -> Datum]
    BY DEF Tree, DataOK
<1> HIDE DEF Pending
<1>5. CASE CreateData(d)
  <2>1. Head(calls).fn = "GData"
      BY <1>5 DEF CreateData, Calling
  <2>2. /\ \A e \in DOMAIN data : (data')[e] = data[e]
        /\ DOMAIN data' = DOMAIN data \cup {d} /\ (data')[d].memory = Null
        /\ Rest \subseteq Pending'
        /\ \A c \in Pending' : c \in Rest \/ c.fn = "data_created"
      BY <1>5, CreateDataStep
  <2> QED BY <1>1, <1>3, <2>1, <2>2, RegisteringKept
<1>6. CASE SetPartition(d)
  <2>1. Head(calls).fn = "set_partition"
      BY <1>6 DEF SetPartition, Calling
  <2>2. /\ DOMAIN data' = DOMAIN data
        /\ \A e \in DOMAIN data :
              (data')[e].memory = data[e].memory /\ (data')[e].handle = data[e].handle
        /\ Rest \subseteq Pending'
        /\ \A c \in Pending' : c \in Rest \/ c.fn # "data_set_memory"
      BY <1>6, SetPartitionStep
  <2> QED BY <1>1, <1>3, <2>1, <2>2, RegisteringKept
<1>7. CASE SetMemoryStatic(d)
    BY <1>7, RegisteringSet
<1>8. CASE SPUCreated(d) \/ SPUSetMemory(d)
    BY <1>8, RegisteringTold
<1>9. CASE DTCreated(d)
  <2>1. /\ Head(calls).fn = "data_created"
        /\ data' = data \/ data' = [data EXCEPT ![d].guest = "DT"]
      BY <1>9 DEF DTCreated, NewOneLevelData, Told, Calling
  <2>2. Pending' = Rest /\ DOMAIN data' = DOMAIN data /\ d \in DOMAIN data
      BY <1>9, QuietBodies
  <2>3. \A e \in DOMAIN data :
           (data')[e].memory = data[e].memory /\ (data')[e].handle = data[e].handle
      BY <1>4, <2>1, <2>2 DEF Datum
  <2> QED BY <1>1, <1>3, <2>1, <2>2, <2>3, RegisteringKept
<1>10. CASE DTPartitioned(d)
  <2>1. Head(calls).fn = "data_partitioned"
      BY <1>10 DEF DTPartitioned, Told, Calling
  <2>2. /\ DOMAIN data' = DOMAIN data
        /\ \A e \in DOMAIN data :
              (data')[e].memory = data[e].memory /\ (data')[e].handle = data[e].handle
        /\ Rest \subseteq Pending'
        /\ \A c \in Pending' : c \in Rest \/ c.fn # "data_set_memory"
      BY <1>10, DTPartitionedStep
  <2> QED BY <1>1, <1>3, <2>1, <2>2, RegisteringKept
<1>11. CASE FillWith(d) \/ FillByElement(d)
  <2>1. Head(calls).fn = "fill"
      BY <1>11 DEF FillWith, FillByElement, Calling
  <2>2. /\ data' = data /\ Rest \subseteq Pending'
        /\ \A c \in Pending' : c \in Rest \/ c.fn = "fill"
      BY <1>11, FillStep
  <2> QED BY <1>1, <1>3, <2>1, <2>2, RegisteringKept
<1> QED BY <1>5, <1>6, <1>7, <1>8, <1>9, <1>10, <1>11, WithStarPU DEF Body

\* Every step keeps StarPU informed.
LEMMA RegisteringNext ==
    ASSUME Tree, Allocated, Registering, [Next]_vars
    PROVE  Registering'
<1>1. CASE Statement
  <2>1. /\ Pending = {} /\ data' = data /\ program' = program
        /\ \A c \in Pending' : c.fn # "data_set_memory"
      BY <1>1, StatementStep
  <2> HIDE DEF Pending
  <2> QED BY <2>1, RegisteringKept
<1>2. CASE (NewPartitioner \/ SetNext) /\ UNCHANGED <<data, content>>
  <2>1. /\ program' = program /\ Pending' = {} /\ Pending = {Head(calls)}
        /\ Head(calls).fn # "data_set_memory" /\ data' = data
      BY <1>2, PartitionerStep
  <2> HIDE DEF Pending
  <2> QED BY <2>1, RegisteringKept
<1>3. CASE calls # <<>> /\ Body(Head(calls).d) /\ UNCHANGED partitioners
  <2>1. Head(calls).d \in Nodes
      BY <1>3, HeadFacts
  <2> QED BY <1>3, <2>1, RegisteringBody
<1>4. CASE UNCHANGED vars
  <2>1. program' = program /\ data' = data /\ calls' = calls
      BY <1>4 DEF vars
  <2>2. Pending' = Pending
      BY <2>1 DEF Pending, Members
  <2> HIDE DEF Pending
  <2> QED BY <2>1, <2>2, RegisteringKept
<1> QED BY <1>1, <1>2, <1>3, <1>4 DEF Next, Terminated

\* Between statements StarPU knows every block by the memory it has, however often it
\* was moved.
THEOREM StarPUInformed == Spec => []RegisteredAtMemory
<1> DEFINE Inv == Tree /\ Allocated /\ Registering
<1>1. Init => Inv
  <2> SUFFICES ASSUME Init
               PROVE  Inv
      OBVIOUS
  <2>1. Tree /\ Allocated /\ Pending = {} /\ DOMAIN data = {}
      BY TreeInit
  <2> QED BY <2>1 DEF Registering
<1>2. Inv /\ [Next]_vars => Inv'
    BY TreeNext, RegisteringNext
<1>3. Inv => RegisteredAtMemory
  <2> SUFFICES ASSUME Inv, AtRest, Has("SPU")
               PROVE  RegisteredAtMemory
      BY DEF RegisteredAtMemory
  <2>1. Pending = {}
      BY NoMembers DEF AtRest, Pending
  <2> QED BY <2>1 DEF Registering, RegisteredAtMemory
<1> QED BY <1>1, <1>2, <1>3, PTL DEF Spec


(* Whose guests data are *)

\* DuctTeip is about to link the blocks of its data to the root's children.
Linking == \E c \in Pending : c.fn = "data_partitioned" /\ c.by = "DT" /\ c.d = Root
Telling(s, d) == \E c \in Pending : c.fn = "data_created" /\ c.by = s /\ c.d = d
\* The guest of a data is that of its scheduler, or this is about to be told; no
\* children of the root are made once DuctTeip's blocks have become their guests.
Guesting ==
    /\ \A d \in DOMAIN data \ {Root} : \A s \in SchedulerOf(Level(d)) \ {"DT"} :
          data[d].guest = s \/ (data[d].guest = "none" /\ Telling(s, d))
    /\ Has("DT") =>
          /\ \A d \in DOMAIN data : Level(d) = 1 => data[d].guest = "DTPart" \/ Linking
          /\ \A c \in Pending :
                c.fn \in {"GData", "data_created"} /\ Level(c.d) = 1 => Linking

\* The schedulers of a level stay the same; besides DuctTeip there is one at most.
LEMMA Schedulers ==
    ASSUME Tree, program' = program
    PROVE  /\ \A l : SchedulerOf(l) \subseteq program.scheds
           /\ program.scheds \subseteq Scheds
           /\ ~("SG" \in program.scheds /\ "SPU" \in program.scheds)
           /\ Has("DT") => SchedulerOf(1) = {"DT"}
           /\ \A l : SchedulerOf(l)' = SchedulerOf(l)
           /\ \A s : Has(s)' <=> Has(s)
<1>1. program.scheds \subseteq Scheds
    BY ProgramsAssumption DEF Tree, Scheds
<1>2. ~("SG" \in program.scheds /\ "SPU" \in program.scheds)
    BY ProgramsAssumption DEF Tree
<1> QED BY <1>1, <1>2 DEF SchedulerOf, Has

\* A step that leaves the guests alone, and makes no children of the root without
\* telling DuctTeip.
LEMMA GuestingKept ==
    ASSUME Tree, Guesting, program' = program, DOMAIN data' = DOMAIN data,
           \A d \in DOMAIN data : (data')[d].guest = data[d].guest,
           \A c \in Pending : c.fn = "data_created" => c \in Pending',
           Linking => Linking',
           \A c \in Pending' :
               \/ c \in Pending
               \/ c.fn \notin {"GData", "data_created"}
               \/ Level(c.d) # 1
               \/ Has("DT") => Linking'
    PROVE  Guesting'
<1>1. /\ \A l : SchedulerOf(l)' = SchedulerOf(l)
      /\ \A s : Has(s)' <=> Has(s)
    BY Schedulers
<1>2. \A s, d : Telling(s, d) => Telling(s, d)'
    BY DEF Telling
<1> HIDE DEF Pending
<1>3. ASSUME NEW d \in DOMAIN data \ {Root}, NEW s \in SchedulerOf(Level(d)) \ {"DT"}
      PROVE  (data')[d].guest = s \/ ((data')[d].guest = "none" /\ Telling(s, d)')
    BY <1>2, <1>3 DEF Guesting
<1>4. ASSUME Has("DT")
      PROVE  /\ \A d \in DOMAIN data : Level(d) = 1 => (data')[d].guest = "DTPart" \/ Linking'
             /\ \A c \in Pending' :
                   c.fn \in {"GData", "data_created"} /\ Level(c.d) = 1 => Linking'
    BY <1>4 DEF Guesting
<1>5. \A d : Level(d)' = Level(d)
    BY DEF Level
<1> QED BY <1>1, <1>3, <1>4 DEF Guesting, Level

\* The scheduler of a data is told of it.
LEMMA GuestingTold ==
    ASSUME Tree, Guesting, program' = program, DOMAIN data' = DOMAIN data,
           calls # <<>>, Head(calls).fn = "data_created",
           NEW d \in DOMAIN data, Head(calls).d = d,
           \A e \in DOMAIN data : e # d => (data')[e].guest = data[e].guest,
           Rest \subseteq Pending',
           \A c \in Pending' : c \in Rest \/ c.fn = "set_memory",
           d # Root =>
               \A s \in SchedulerOf(Level(d)) \ {"DT"} :
                   \/ (data')[d].guest = s
                   \/ (data')[d].guest = data[d].guest /\ Head(calls).by # s
    PROVE  Guesting'
<1>1. /\ \A l : SchedulerOf(l)' = SchedulerOf(l)
      /\ \A s : Has(s)' <=> Has(s)
    BY Schedulers
<1>2. Pending = {Head(calls)} \cup Rest
    BY NextAndRest
<1> HIDE DEF Pending
<1>3. Linking => Linking'
    BY <1>2 DEF Linking
<1>4. \A s, e : Telling(s, e) /\ (e # d \/ s # Head(calls).by) => Telling(s, e)'
    BY <1>2 DEF Telling
<1>5. ASSUME NEW e \in DOMAIN data \ {Root}, NEW s \in SchedulerOf(Level(e)) \ {"DT"}
      PROVE  (data')[e].guest = s \/ ((data')[e].guest = "none" /\ Telling(s, e)')
  <2>1. data[e].guest = s \/ (data[e].guest = "none" /\ Telling(s, e))
      BY DEF Guesting
  <2>2. CASE e = d
      BY <1>4, <2>1, <2>2
  <2>3. CASE e # d
      BY <1>4, <2>1, <2>3
  <2> QED BY <2>2, <2>3
<1>6. ASSUME Has("DT")
      PROVE  /\ \A e \in DOMAIN data : Level(e) = 1 => (data')[e].guest = "DTPart" \/ Linking'
             /\ \A c \in Pending' :
                   c.fn \in {"GData", "data_created"} /\ Level(c.d) = 1 => Linking'
  <2>1. /\ \A e \in DOMAIN data : Level(e) = 1 => data[e].guest = "DTPart" \/ Linking
        /\ \A c \in Pending :
              c.fn \in {"GData", "data_created"} /\ Level(c.d) = 1 => Linking
      BY <1>6 DEF Guesting
  <2>2. Level(d) = 1 => Linking
      BY <1>2, <2>1
  <2> QED BY <1>2, <1>3, <2>1, <2>2
<1> QED BY <1>1, <1>5, <1>6 DEF Guesting, Level

\* A data that is made is told to its scheduler.
LEMMA GuestingCreate ==
    ASSUME Tree, Guesting, NEW d \in Nodes, CreateData(d), partitioners' = partitioners
    PROVE  Guesting'
<1>1. calls # <<>> /\ Head(calls).fn = "GData" /\ Head(calls).d = d /\ program' = program
    BY DEF CreateData, Calling, Makes
<1>2. /\ \A l : SchedulerOf(l)' = SchedulerOf(l) /\ SchedulerOf(l) \subseteq program.scheds
      /\ \A s : Has(s)' <=> Has(s)
    BY <1>1, Schedulers
<1>3. Pending = {Head(calls)} \cup Rest
    BY <1>1, NextAndRest
<1> HIDE DEF Pending
<1>4. /\ DOMAIN data' = DOMAIN data \cup {d} /\ d \notin DOMAIN data
      /\ \A e \in DOMAIN data : e # d /\ (data')[e] = data[e]
      /\ (data')[d].guest = "none" /\ Rest \subseteq Pending'
      /\ \A c \in Pending' :
            \/ c \in Rest
            \/ c.fn = "data_created" /\ c.d = d
      /\ \A s \in program.scheds : Created(s, d) \in Pending'
    BY CreateDataStep
<1>5. Linking => Linking'
    BY <1>1, <1>3, <1>4 DEF Linking
<1>6. \A s, e : Telling(s, e) => Telling(s, e)'
    BY <1>1, <1>3, <1>4 DEF Telling
<1>7. \A s \in program.scheds : Telling(s, d)'
  <2> SUFFICES ASSUME NEW s \in program.scheds
               PROVE  Telling(s, d)'
      OBVIOUS
  <2>1. Created(s, d) \in Pending'
      BY <1>4
  <2>2. Created(s, d).fn = "data_created" /\ Created(s, d).by = s /\ Created(s, d).d = d
      BY DEF Created
  <2> QED BY <2>1, <2>2 DEF Telling
<1>8. ASSUME NEW e \in DOMAIN data' \ {Root}, NEW s \in SchedulerOf(Level(e)) \ {"DT"}
      PROVE  (data')[e].guest = s \/ ((data')[e].guest = "none" /\ Telling(s, e)')
  <2>1. CASE e \in DOMAIN data
      BY <1>4, <1>6, <2>1 DEF Guesting
  <2>2. CASE e = d
      BY <1>2, <1>4, <1>7, <2>2
  <2> QED BY <1>4, <2>1, <2>2
<1>9. ASSUME Has("DT")
      PROVE  /\ \A e \in DOMAIN data' : Level(e) = 1 => (data')[e].guest = "DTPart" \/ Linking'
             /\ \A c \in Pending' :
                   c.fn \in {"GData", "data_created"} /\ Level(c.d) = 1 => Linking'
  <2>1. /\ \A e \in DOMAIN data : Level(e) = 1 => data[e].guest = "DTPart" \/ Linking
        /\ \A c \in Pending :
              c.fn \in {"GData", "data_created"} /\ Level(c.d) = 1 => Linking
      BY <1>9 DEF Guesting
  <2>2. Level(d) = 1 => Linking
      BY <1>1, <1>3, <2>1
  <2> QED BY <1>3, <1>4, <1>5, <2>1, <2>2
<1> QED BY <1>2, <1>8, <1>9 DEF Guesting, Level


\* The bodies that are told of a data, and leave a guest with it.
LEMMA GuestingCreated ==
    ASSUME Tree, Allocated, Guesting, NEW d \in Nodes, partitioners' = partitioners,
           \/ SGCreated(d) \/ SGWrapperCreated(d) \/ SPUCreated(d)
           \/ DTCreated(d) \/ DTWrapperCreated(d)
    PROVE  Guesting'
<1>1. /\ calls # <<>> /\ Head(calls).d = d
      /\ Head(calls).fn = "data_created" /\ program' = program
    BY DEF SGCreated, SGWrapperCreated, SPUCreated, DTCreated, DTWrapperCreated,
        NewOneLevelData, Told, Calling, Makes
<1>2. /\ Head(calls).by \in program.scheds /\ d \in DOMAIN data
  <2>1. CallOK(Head(calls))
      BY <1>1, HeadFacts
  <2> QED BY <1>1, <2>1 DEF CallOK
<1>3. data \in [DOMAIN data -> Datum]
    BY DEF Tree, DataOK
<1>4. /\ \A l : SchedulerOf(l) \subseteq program.scheds
      /\ program.scheds \subseteq Scheds
      /\ ~("SG" \in program.scheds /\ "SPU" \in program.scheds)
      /\ Has("DT") => SchedulerOf(1) = {"DT"}
    BY <1>1, Schedulers
<1> HIDE DEF Pending
<1>5. Rest \subseteq Pending' /\ \A c \in Pending' : c \in Rest \/ c.fn = "set_memory"
  <2>1. CASE SGCreated(d) \/ SGWrapperCreated(d)
      BY <2>1, SGCreatedStep
  <2>2. CASE SPUCreated(d) \/ DTCreated(d) \/ DTWrapperCreated(d)
      BY <2>2, QuietBodies
  <2> QED BY <2>1, <2>2
<1>6. CASE SGCreated(d) \/ SGWrapperCreated(d)
  <2>1. /\ Head(calls).by = "SG"
        /\ data' = [data EXCEPT ![d].guest = IF @ = "none" THEN "SG" ELSE @]
      BY <1>6 DEF SGCreated, SGWrapperCreated, Told, GuestIfNone
  <2>2. /\ DOMAIN data' = DOMAIN data
        /\ \A e \in DOMAIN data : e # d => (data')[e].guest = data[e].guest
        /\ (data')[d].guest = IF data[d].guest = "none" THEN "SG" ELSE data[d].guest
      BY <1>2, <1>3, <2>1 DEF Datum
  <2>3. ASSUME d # Root, NEW s \in SchedulerOf(Level(d)) \ {"DT"}
        PROVE  (data')[d].guest = s
    <3>1. s = "SG"
        BY <1>2, <1>4, <2>1 DEF Scheds
    <3> QED BY <1>2, <2>2, <2>3, <3>1 DEF Guesting
  <2> QED BY <1>1, <1>2, <1>5, <2>2, <2>3, GuestingTold
<1>7. CASE SPUCreated(d)
  <2> DEFINE r == NewSPUData(d)
  <2>1. /\ Head(calls).by = "SPU"
        /\ data' = IF OfStarPU(d) THEN [data EXCEPT ![d] = r] ELSE data
      BY <1>7 DEF SPUCreated, Told
  <2>2. r.guest = "SPU"
      BY <1>2, <1>3 DEF NewSPUData, Datum
  <2> HIDE DEF r
  <2>3. /\ DOMAIN data' = DOMAIN data
        /\ \A e \in DOMAIN data : e # d => (data')[e].guest = data[e].guest
        /\ OfStarPU(d) => (data')[d].guest = "SPU"
      BY <1>2, <1>3, <2>1, <2>2
  <2>4. ASSUME d # Root, NEW s \in SchedulerOf(Level(d)) \ {"DT"}
        PROVE  (data')[d].guest = s
    <3>1. s = "SPU"
        BY <1>2, <1>4, <2>1 DEF Scheds
    <3>2. ~OfStarPU(d) => Has("DT") /\ ~(Level(d) >= 2)
        BY DEF OfStarPU
    <3>3. Level(d) \in 1..2
        BY <1>2, <2>4, TreeFacts
    <3>4. ~OfStarPU(d) => Level(d) = 1
        BY <3>2, <3>3
    <3> QED BY <1>4, <2>3, <3>1, <3>2, <3>4
  <2> QED BY <1>1, <1>2, <1>5, <2>3, <2>4, GuestingTold
<1>8. CASE DTCreated(d) \/ DTWrapperCreated(d)
  <2>1. /\ Head(calls).by = "DT"
        /\ data' = IF Level(d) > 1 THEN data ELSE [data EXCEPT ![d].guest = "DT"]
      BY <1>8 DEF DTCreated, DTWrapperCreated, Told, NewOneLevelData
  <2>2. /\ DOMAIN data' = DOMAIN data
        /\ \A e \in DOMAIN data : e # d => (data')[e].guest = data[e].guest
        /\ Level(d) > 1 => (data')[d].guest = data[d].guest
      BY <1>2, <1>3, <2>1 DEF Datum
  <2>3. ASSUME d # Root, NEW s \in SchedulerOf(Level(d)) \ {"DT"}
        PROVE  (data')[d].guest = data[d].guest /\ Head(calls).by # s
    <3>1. Has("DT")
        BY <1>2, <2>1 DEF Has
    <3>2. Level(d) \in 1..2
        BY <1>2, <2>3, TreeFacts
    <3>3. Level(d) # 1
        BY <1>4, <2>3, <3>1
    <3> QED BY <2>1, <2>2, <2>3, <3>2, <3>3
  <2> QED BY <1>1, <1>2, <1>5, <2>2, <2>3, GuestingTold
<1> QED BY <1>6, <1>7, <1>8


\* A data that is cut: when it is the root, DuctTeip is told.
LEMMA GuestingCut ==
    ASSUME Tree, Guesting, NEW d \in Nodes, SetPartition(d), partitioners' = partitioners
    PROVE  Guesting'
<1>1. calls # <<>> /\ Head(calls).fn = "set_partition" /\ program' = program
    BY DEF SetPartition, Calling, Makes
<1>2. Pending = {Head(calls)} \cup Rest
    BY <1>1, NextAndRest
<1> HIDE DEF Pending
<1>3. /\ d \in DOMAIN data /\ DOMAIN data' = DOMAIN data /\ Level(d) \in 0..1
      /\ \A e \in DOMAIN data : (data')[e].guest = data[e].guest
      /\ Rest \subseteq Pending'
      /\ \A c \in Pending' :
            \/ c \in Rest
            \/ c.fn = "GData" /\ \E k \in 0..Count(Level(d) + 1) - 1 : c.d = Child(d, k)
            \/ c.fn = "data_partitioned"
            \/ c.fn = "set_partition"
      /\ \A s \in program.scheds \cap {"SG", "DT"} : Partitioned(s, d) \in Pending'
    BY SetPartitionStep
<1>4. Linking => Linking'
    BY <1>1, <1>2, <1>3 DEF Linking
<1>5. CASE d = Root
  <2>1. Has("DT") => Linking'
    <3> SUFFICES ASSUME Has("DT")
                 PROVE  Linking'
        OBVIOUS
    <3>1. Partitioned("DT", d) \in Pending'
        BY <1>3 DEF Has
    <3>2. /\ Partitioned("DT", d).fn = "data_partitioned"
          /\ Partitioned("DT", d).by = "DT" /\ Partitioned("DT", d).d = d
        BY DEF Partitioned
    <3> QED BY <1>5, <3>1, <3>2 DEF Linking
  <2> QED BY <1>1, <1>2, <1>3, <1>4, <2>1, GuestingKept
<1>6. CASE d # Root
  <2>1. Level(d) = 1
      BY <1>3, <1>6, TreeFacts
  <2>2. Calling("set_partition", d)
      BY DEF SetPartition
  <2> DEFINE P == Head(calls).P
  <2>3. P = Level(d) + 1 /\ \A k \in 0..Count(P) - 1 : Level(Child(d, k)) = P
      BY <2>2, CutFacts
  <2> HIDE DEF P
  <2>4. \A c \in Pending' :
           c \in Rest \/ c.fn \notin {"GData", "data_created"} \/ Level(c.d) # 1
      BY <1>3, <2>1, <2>3
  <2> QED BY <1>1, <1>2, <1>3, <1>4, <2>4, GuestingKept
<1> QED BY <1>5, <1>6

\* DuctTeip links its blocks when all children of the root are there.
LEMMA GuestingLinked ==
    ASSUME Tree, Guesting, NEW d \in Nodes, DTPartitioned(d) \/ DTWrapperPartitioned(d),
           partitioners' = partitioners
    PROVE  Guesting'
<1>1. /\ calls # <<>> /\ Head(calls).fn = "data_partitioned" /\ Head(calls).d = d
      /\ Head(calls).by = "DT"
    BY DEF DTPartitioned, DTWrapperPartitioned, Told, Calling
<1>2. program' = program
    BY BodyCall DEF Body
<1>3. \A c \in Pending : c.fn \notin {"GData", "data_created"}
    BY <1>1, HeadFacts DEF NoneComing
<1>4. Pending = {Head(calls)} \cup Rest
    BY <1>1, NextAndRest
<1>5. "DT" \in program.scheds
  <2>1. CallOK(Head(calls))
      BY <1>1, HeadFacts
  <2> QED BY <1>1, <2>1 DEF CallOK
<1> HIDE DEF Pending
<1>6. /\ DOMAIN data' = DOMAIN data
      /\ \A e \in DOMAIN data :
            (data')[e].guest = IF d = Root /\ Level(e) = 1 THEN "DTPart" ELSE data[e].guest
      /\ Rest \subseteq Pending'
      /\ \A c \in Pending' : c \in Rest \/ c.fn = "set_memory"
    BY DTPartitionedStep
<1>7. /\ \A l : SchedulerOf(l)' = SchedulerOf(l)
      /\ \A s : Has(s)' <=> Has(s)
      /\ SchedulerOf(1) = {"DT"}
    BY <1>2, <1>5, Schedulers DEF Has
<1>8. \A s, e : Telling(s, e) => Telling(s, e)'
    BY <1>1, <1>4, <1>6 DEF Telling
<1>9. CASE d = Root
  <2>1. ASSUME NEW e \in DOMAIN data \ {Root}, NEW s \in SchedulerOf(Level(e)) \ {"DT"}
        PROVE  (data')[e].guest = s \/ ((data')[e].guest = "none" /\ Telling(s, e)')
    <3>1. Level(e) # 1
        BY <1>7, <2>1
    <3> QED BY <1>6, <1>8, <2>1, <3>1 DEF Guesting
  <2>2. \A e \in DOMAIN data : Level(e) = 1 => (data')[e].guest = "DTPart"
      BY <1>6, <1>9
  <2>3. \A c \in Pending' : c.fn \notin {"GData", "data_created"}
      BY <1>3, <1>4, <1>6
  <2> QED BY <1>6, <1>7, <2>1, <2>2, <2>3 DEF Guesting, Level
<1>10. CASE d # Root
  <2>1. Linking => Linking'
      BY <1>1, <1>4, <1>6, <1>10 DEF Linking
  <2> QED BY <1>2, <1>3, <1>4, <1>6, <1>10, <2>1, GuestingKept
<1> QED BY <1>9, <1>10

\* Setting memory, handing it down and filling it leave the guests alone.
LEMMA GuestingMemory ==
    ASSUME Tree, Allocated, Guesting, NEW d \in Nodes, partitioners' = partitioners,
           \/ SetMemoryStatic(d) \/ SetMemoryDynamic(d) \/ SPUSetMemory(d)
           \/ SGPartitioned(d) \/ SGWrapperPartitioned(d)
           \/ FillWith(d) \/ FillByElement(d)
    PROVE  Guesting'
<1>1. calls # <<>> /\ program' = program
    BY BodyCall DEF Body
<1>2. Pending = {Head(calls)} \cup Rest
    BY <1>1, NextAndRest
<1>3. data \in [DOMAIN data -> Datum]
    BY DEF Tree, DataOK
<1> HIDE DEF Pending
<1>4. CASE SetMemoryStatic(d) \/ SetMemoryDynamic(d)
  <2>1. /\ Head(calls).fn = "set_memory" /\ Head(calls).d = d
        /\ data' = [data EXCEPT ![d].memory = Head(calls).m]
      BY <1>4 DEF SetMemoryStatic, SetMemoryDynamic, Calling
  <2>2. CallOK(Head(calls))
      BY <1>1, HeadFacts
  <2>3. d \in DOMAIN data
      BY <2>1, <2>2 DEF CallOK
  <2>4. /\ DOMAIN data' = DOMAIN data
        /\ \A e \in DOMAIN data : (data')[e].guest = data[e].guest
      BY <1>3, <2>1, <2>3 DEF Datum
  <2>5. /\ Rest \subseteq Pending'
        /\ \A c \in Pending' :
              \/ c \in Rest
              \/ c = MemorySet(d, Head(calls).m)
              \/ c.fn = "set_memory"
    <3>1. CASE SetMemoryStatic(d)
        BY <3>1, SetMemoryStaticStep
    <3>2. CASE SetMemoryDynamic(d)
        BY <3>2, QuietBodies
    <3> QED BY <1>4, <3>1, <3>2
  <2>6. MemorySet(d, Head(calls).m).fn = "data_set_memory"
      BY DEF MemorySet
  <2>7. \A c \in Pending' : c \in Rest \/ c.fn \notin {"GData", "data_created"}
      BY <2>5, <2>6
  <2>8. Linking => Linking'
      BY <1>2, <2>1, <2>5 DEF Linking
  <2> QED BY <1>1, <1>2, <2>1, <2>4, <2>5, <2>7, <2>8, GuestingKept
<1>5. CASE SPUSetMemory(d)
  <2> DEFINE h == Registered(d, Head(calls).m)
  <2>1. /\ Head(calls).fn = "data_set_memory"
        /\ data' = data \/ data' = [data EXCEPT ![d].handle = h]
      BY <1>5 DEF SPUSetMemory, Calling
  <2> HIDE DEF h
  <2>2. d \in DOMAIN data /\ DOMAIN data' = DOMAIN data /\ Pending' = Rest
      BY <1>5, QuietBodies
  <2>3. \A e \in DOMAIN data : (data')[e].guest = data[e].guest
      BY <1>3, <2>1, <2>2 DEF Datum
  <2>4. Linking => Linking'
      BY <1>2, <2>1, <2>2 DEF Linking
  <2> QED BY <1>1, <1>2, <2>1, <2>2, <2>3, <2>4, GuestingKept
<1>6. CASE SGPartitioned(d) \/ SGWrapperPartitioned(d)
  <2>1. /\ Head(calls).fn = "data_partitioned" /\ Head(calls).by = "SG" /\ data' = data
      BY <1>6 DEF SGPartitioned, SGWrapperPartitioned, Told, Calling
  <2>2. Rest \subseteq Pending' /\ \A c \in Pending' : c \in Rest \/ c.fn = "set_memory"
      BY <1>6, SGPartitionedStep
  <2>3. Linking => Linking'
      BY <1>2, <2>1, <2>2 DEF Linking
  <2> QED BY <1>1, <1>2, <2>1, <2>2, <2>3, GuestingKept
<1>7. CASE FillWith(d) \/ FillByElement(d)
  <2>1. Head(calls).fn = "fill"
      BY <1>7 DEF FillWith, FillByElement, Calling
  <2>2. /\ data' = data /\ Rest \subseteq Pending'
        /\ \A c \in Pending' : c \in Rest \/ c.fn = "fill"
      BY <1>7, FillStep
  <2>3. Linking => Linking'
      BY <1>2, <2>1, <2>2 DEF Linking
  <2> QED BY <1>1, <1>2, <2>1, <2>2, <2>3, GuestingKept
<1> QED BY <1>4, <1>5, <1>6, <1>7

\* Every step leaves the guests to their schedulers.
LEMMA GuestingNext ==
    ASSUME Tree, Allocated, Guesting, [Next]_vars
    PROVE  Guesting'
<1>1. CASE Statement
  <2>1. /\ Pending = {} /\ data' = data /\ program' = program
        /\ \A c \in Pending' : c.d = Root
      BY <1>1, StatementStep
  <2> HIDE DEF Pending
  <2>2. Level(Root) # 1 /\ ~Linking
      BY <2>1 DEF Level, Root, Linking
  <2> QED BY <2>1, <2>2, GuestingKept
<1>2. CASE (NewPartitioner \/ SetNext) /\ UNCHANGED <<data, content>>
  <2>1. /\ program' = program /\ Pending' = {} /\ Pending = {Head(calls)}
        /\ Head(calls).fn \in {"GPartitioner", "set_next"} /\ data' = data
      BY <1>2, PartitionerStep
  <2> HIDE DEF Pending
  <2>2. ~Linking
      BY <2>1 DEF Linking
  <2> QED BY <2>1, <2>2, GuestingKept
<1>3. CASE calls # <<>> /\ Body(Head(calls).d) /\ UNCHANGED partitioners
  <2>1. Head(calls).d \in Nodes
      BY <1>3, HeadFacts
  <2> QED BY <1>3, <2>1, GuestingCreate, GuestingCreated, GuestingCut, GuestingLinked,
      GuestingMemory DEF Body
<1>4. CASE UNCHANGED vars
  <2>1. program' = program /\ data' = data /\ calls' = calls
      BY <1>4 DEF vars
  <2>2. Pending' = Pending
      BY <2>1 DEF Pending, Members
  <2> HIDE DEF Pending
  <2>3. Linking' <=> Linking
      BY <2>2 DEF Linking
  <2> QED BY <2>1, <2>2, <2>3, GuestingKept
<1> QED BY <1>1, <1>2, <1>3, <1>4 DEF Next, Terminated

\* Between statements a scheduler finds its own handle as the guest of the data it
\* gets the tasks of, DuctTeip that of the block it has linked.
THEOREM GuestsAreTheirs == Spec => []GuestOfScheduler
<1> DEFINE Inv == Tree /\ Allocated /\ Guesting
<1>1. Init => Inv
  <2> SUFFICES ASSUME Init
               PROVE  Inv
      OBVIOUS
  <2>1. Tree /\ Allocated /\ Pending = {} /\ DOMAIN data = {}
      BY TreeInit
  <2> QED BY <2>1 DEF Guesting
<1>2. Inv /\ [Next]_vars => Inv'
    BY TreeNext, GuestingNext
<1>3. Inv => GuestOfScheduler
  <2> SUFFICES ASSUME Inv, AtRest,
                      NEW d \in DOMAIN data \ {Root}, NEW s \in SchedulerOf(Level(d))
               PROVE  data[d].guest = IF s = "DT" THEN "DTPart" ELSE s
      BY DEF GuestOfScheduler
  <2>1. Pending = {}
      BY NoMembers DEF AtRest, Pending
  <2>2. ~Linking /\ ~Telling(s, d)
      BY <2>1 DEF Linking, Telling
  <2>3. CASE s # "DT"
      BY <2>2, <2>3 DEF Guesting
  <2>4. CASE s = "DT"
    <3>1. Has("DT") /\ Level(d) = 1
      <4>1. Level(d) \in 1..2
          BY TreeFacts
      <4> QED BY <2>4, <4>1 DEF SchedulerOf, Has
    <3> QED BY <2>2, <2>4, <3>1 DEF Guesting
  <2> QED BY <2>3, <2>4
<1> QED BY <1>1, <1>2, <1>3, PTL DEF Spec


(* Which part of the memory a block has *)

\* The part of its parent's memory that is a child's.
PartOfParent(e) == PartOf(data[Parent(e)].memory, Level(Parent(e)), Last(e))
Sets(c, d) == c.fn = "set_memory" /\ c.d = d
\* The children of d share its memory out: all do but the root's that are DuctTeip's
\* blocks, until the program sets the memory of the whole, and those of a program of
\* the dynamic variant that has nobody to allocate them.
Tied(d) == (Static \/ Has("SG")) /\ (d = Root /\ Has("DT") => SetByProgram)

\* The program sets the memory when everything has been cut.
SetLast ==
    SetByProgram => \A c \in Pending : c.fn \in {"set_memory", "data_set_memory", "fill"}
\* Until then there is none if no scheduler allocates any.
NoAllocator == ~SetByProgram /\ ~Has("DT") /\ (Static \/ ~Has("SG"))
NothingYet ==
    NoAllocator =>
        /\ \A d \in DOMAIN data : data[d].memory = Null
        /\ \A c \in Pending : c.fn = "set_memory" => c.m = Null
\* DuctTeip sets the memory of a block again when the children of it are all there.
Relinking ==
    Static /\ Has("DT") =>
        \A c \in Pending : c.fn = "GData" /\ Level(c.d) = 2 =>
            \E e \in Pending : e.fn = "data_partitioned" /\ e.by = "DT" /\ e.d = Parent(c.d)
\* The dynamic variant, which does not hand memory down, sets it before there are
\* children.
Uncut ==
    /\ \A c \in Pending :
          ~Static /\ c.fn = "set_memory" => data[c.d].partitioner = NoPartitioner
    /\ \A c \in Pending : c.fn = "data_partitioned" =>
          \A e \in DOMAIN data \ {Root} :
              Parent(e) = c.d => data[e].partitioner = NoPartitioner
\* Memory goes from the top to the bottom: what is set above is what is there.
RootFirst == Static => \A c \in Pending : Sets(c, Root) => Rest = {}
OneValue == \A c, e \in Pending : c.fn = "set_memory" /\ Sets(e, c.d) => c.m = e.m
SetAbove ==
    \A c, e \in Pending : e.fn = "set_memory" /\ e.d # Root /\ Sets(c, Parent(e.d)) =>
        c.m = data[c.d].memory
Handing ==
    \A c \in Pending : c.fn = "set_memory" /\ c.d # Root /\ Tied(Parent(c.d)) =>
        c.m = PartOfParent(c.d)
\* A call c that ends in the memory of e being set.
Hands(c, e) ==
    \/ Sets(c, e)
    \/ Static /\ Sets(c, Parent(e))
    \/ Static /\ Level(e) = 2 /\ c.fn = "data_partitioned" /\ c.by = "DT" /\ c.d = Parent(e)
    \/ c.fn = "data_created" /\ c.by = "SG" /\ c.d = e
\* A block has its part, or will be given it.
Shared ==
    \A e \in DOMAIN data \ {Root} :
        Tied(Parent(e)) =>
            data[e].memory = PartOfParent(e) \/ \E c \in Pending : Hands(c, e)

Sharing ==
    /\ SetLast /\ NothingYet /\ Relinking /\ Uncut /\ RootFirst /\ OneValue /\ SetAbove
    /\ Handing /\ Shared

\* What does not change within a statement of the program.
LEMMA SameStatement ==
    ASSUME program' = program, shape' = shape, step' = step
    PROVE  /\ Static' <=> Static
           /\ \A s : Has(s)' <=> Has(s)
           /\ SetByProgram' <=> SetByProgram
           /\ NoAllocator' <=> NoAllocator
           /\ \A d : Tied(d)' <=> Tied(d)
           /\ \A l : SizeAt(l)' = SizeAt(l)
<1>1. /\ Statements' = Statements
      /\ \A l : RowsAt(l)' = RowsAt(l) /\ ColsAt(l)' = ColsAt(l)
    BY SameShape
<1>2. SetByProgram' <=> SetByProgram
    BY <1>1 DEF SetByProgram
<1>3. (Static' <=> Static) /\ \A s : Has(s)' <=> Has(s)
    BY DEF Static, Has
<1>4. NoAllocator' <=> NoAllocator
    BY <1>2, <1>3 DEF NoAllocator
<1>5. \A d : Tied(d)' <=> Tied(d)
    BY <1>2, <1>3 DEF Tied, Root
<1> QED BY <1>1, <1>2, <1>3, <1>4, <1>5 DEF SizeAt

\* The part of a child stays the same when the memory of its parent does.
LEMMA SamePart ==
    ASSUME shape' = shape, NEW e, (data')[Parent(e)].memory = data[Parent(e)].memory
    PROVE  PartOfParent(e)' = PartOfParent(e)
<1>1. \A l : RowsAt(l)' = RowsAt(l) /\ ColsAt(l)' = ColsAt(l)
    BY DEF RowsAt, ColsAt
<1>2. \A l : SizeAt(l)' = SizeAt(l)
    BY <1>1 DEF SizeAt
<1> QED BY <1>2 DEF PartOfParent, PartOf, Parent, Level, Null

\* Memory is set of data that are there, whose parents are.
LEMMA SetOfData ==
    ASSUME Tree, NEW c \in Pending, c.fn = "set_memory"
    PROVE  /\ c.d \in DOMAIN data
           /\ c.d # Root => Parent(c.d) \in DOMAIN data /\ Parent(c.d) # c.d
<1>1. CallOK(c)
    BY DEF Tree, CallsOK
<1>2. c.d \in DOMAIN data
    BY <1>1 DEF CallOK
<1>3. c.d # Root => /\ Parent(c.d) \in DOMAIN data /\ Level(Parent(c.d)) + 1 = Level(c.d)
                    /\ Level(c.d) \in 1..2
    BY <1>2, TreeFacts
<1>4. \A n \in 1..2 : n + 1 # n
    OBVIOUS
<1> QED BY <1>2, <1>3, <1>4


\* A step that moves nothing, and hands memory to blocks, each its part, when no other
\* is being handed.
LEMMA SharingKept ==
    ASSUME Tree, Tree', Sharing, calls # <<>>,
           program' = program, shape' = shape, step' = step,
           DOMAIN data' = DOMAIN data,
           \A e \in DOMAIN data : /\ (data')[e].memory = data[e].memory
                                  /\ (data')[e].partitioner = data[e].partitioner,
           Rest \subseteq Pending',
           \A c \in Pending' \ Rest : c.fn \in {"set_memory", "data_set_memory", "fill"},
           \A c \in Pending' \ Rest : c.fn = "set_memory" =>
               /\ \A e \in Pending : e.fn # "set_memory"
               /\ Static => c.d # Root
               /\ NoAllocator => c.m = Null
               /\ ~Static => data[c.d].partitioner = NoPartitioner
               /\ c.d # Root /\ Tied(Parent(c.d)) => c.m = PartOfParent(c.d),
           \A c, e \in Pending' \ Rest : c.fn = "set_memory" /\ e.fn = "set_memory" =>
               /\ c.d = e.d => c.m = e.m
               /\ e.d # Root => c.d # Parent(e.d),
           \A e \in DOMAIN data \ {Root} : Tied(Parent(e)) /\ Hands(Head(calls), e) =>
               \/ data[e].memory = PartOfParent(e)
               \/ \E c \in Pending' : Hands(c, e)
    PROVE  Sharing'
<1>1. Pending = {Head(calls)} \cup Rest
    BY NextAndRest
<1>2. /\ Static' <=> Static
      /\ \A s : Has(s)' <=> Has(s)
      /\ SetByProgram' <=> SetByProgram
      /\ NoAllocator' <=> NoAllocator
      /\ \A d : Tied(d)' <=> Tied(d)
    BY SameStatement
<1>3. \A e \in DOMAIN data \ {Root} :
         /\ Parent(e)' = Parent(e) /\ Parent(e) \in DOMAIN data
         /\ PartOfParent(e)' = PartOfParent(e)
  <2> SUFFICES ASSUME NEW e \in DOMAIN data \ {Root}
               PROVE  /\ Parent(e)' = Parent(e) /\ Parent(e) \in DOMAIN data
                      /\ PartOfParent(e)' = PartOfParent(e)
      OBVIOUS
  <2>1. Parent(e) \in DOMAIN data
      BY TreeFacts
  <2> QED BY <2>1, SamePart DEF Parent
<1>4. \A c \in Pending : c.fn = "set_memory" =>
         /\ c.d \in DOMAIN data
         /\ c.d # Root => Parent(c.d) \in DOMAIN data /\ Parent(c.d) # c.d
    BY SetOfData
<1>5. \A c \in Pending' : c.fn = "set_memory" => c.d \in DOMAIN data'
  <2>1. \A c \in Pending' : CallOK(c)'
      BY DEF Tree, CallsOK
  <2> QED BY <2>1 DEF CallOK
<1>6. Head(calls).fn = "data_partitioned" => NoneComing
    BY HeadFacts
<1>7. \A c, e : Hands(c, e)' <=> Hands(c, e)
    BY <1>2 DEF Hands, Sets, Level, Parent
<1>8. Root' = Root /\ Rest \subseteq Pending
    BY <1>1 DEF Root
<1> HIDE DEF Pending, Rest
<1>9. SetLast'
    BY <1>1, <1>2 DEF Sharing, SetLast
<1>10. NothingYet'
    BY <1>1, <1>2 DEF Sharing, NothingYet
<1>11. Relinking'
  <2> SUFFICES ASSUME Static, Has("DT"), NEW c \in Pending', c.fn = "GData", Level(c.d) = 2
               PROVE  \E e \in Pending' : /\ e.fn = "data_partitioned" /\ e.by = "DT"
                                          /\ e.d = Parent(c.d)
      BY <1>2 DEF Relinking, Level, Parent
  <2>1. c \in Rest
      OBVIOUS
  <2>2. PICK e \in Pending : e.fn = "data_partitioned" /\ e.by = "DT" /\ e.d = Parent(c.d)
      BY <1>8, <2>1 DEF Sharing, Relinking
  <2>3. e # Head(calls)
      BY <1>6, <1>8, <2>1, <2>2 DEF NoneComing
  <2> QED BY <1>1, <2>2, <2>3
<1>12. Uncut'
  <2>1. \A c \in Pending' :
           ~Static /\ c.fn = "set_memory" => (data')[c.d].partitioner = NoPartitioner
      BY <1>4, <1>5, <1>8 DEF Sharing, Uncut
  <2>2. \A c \in Pending' : c.fn = "data_partitioned" =>
           \A e \in DOMAIN data \ {Root} :
               Parent(e) = c.d => (data')[e].partitioner = NoPartitioner
      BY <1>8 DEF Sharing, Uncut
  <2> QED BY <1>2, <1>3, <1>8, <2>1, <2>2 DEF Uncut
<1>13. RootFirst'
  <2> SUFFICES ASSUME Static, NEW c \in Pending', Sets(c, Root)
               PROVE  Rest' = {}
      BY <1>2, <1>8 DEF RootFirst, Sets
  <2>1. c \in Rest
      BY DEF Sets
  <2>2. Rest = {}
      BY <1>8, <2>1 DEF Sharing, RootFirst
  <2> QED BY <2>1, <2>2
<1>14. OneValue'
  <2> SUFFICES ASSUME NEW c \in Pending', NEW e \in Pending', c.fn = "set_memory",
                      Sets(e, c.d)
               PROVE  c.m = e.m
      BY DEF OneValue, Sets
  <2>1. e.fn = "set_memory" /\ e.d = c.d
      BY DEF Sets
  <2>2. CASE c \in Rest /\ e \in Rest
      BY <1>8, <2>2 DEF Sharing, OneValue
  <2>3. CASE c \notin Rest /\ e \notin Rest
      BY <2>1, <2>3
  <2> QED BY <1>8, <2>1, <2>2, <2>3
<1>15. SetAbove'
  <2> SUFFICES ASSUME NEW c \in Pending', NEW e \in Pending', e.fn = "set_memory",
                      e.d # Root, Sets(c, Parent(e.d))
               PROVE  c.m = (data')[c.d].memory
      BY <1>8 DEF SetAbove, Sets, Parent
  <2>1. c.fn = "set_memory" /\ c.d = Parent(e.d)
      BY DEF Sets
  <2>2. CASE c \in Rest /\ e \in Rest
      BY <1>4, <1>8, <2>1, <2>2 DEF Sharing, SetAbove
  <2>3. CASE c \notin Rest /\ e \notin Rest
      BY <2>1, <2>3
  <2> QED BY <1>8, <2>1, <2>2, <2>3
<1>16. Handing'
  <2> SUFFICES ASSUME NEW c \in Pending', c.fn = "set_memory", c.d # Root,
                      Tied(Parent(c.d))
               PROVE  c.m = PartOfParent(c.d)'
      BY <1>2, <1>8 DEF Handing, Parent
  <2>1. c.d \in DOMAIN data \ {Root}
      BY <1>5
  <2>2. c.m = PartOfParent(c.d)
      BY <1>8 DEF Sharing, Handing
  <2> QED BY <1>3, <2>1, <2>2
<1>17. Shared'
  <2> SUFFICES ASSUME NEW e \in DOMAIN data \ {Root}, Tied(Parent(e))
               PROVE  \/ (data')[e].memory = PartOfParent(e)'
                      \/ \E c \in Pending' : Hands(c, e)
      BY <1>2, <1>3, <1>7, <1>8 DEF Shared
  <2>1. data[e].memory = PartOfParent(e) \/ \E c \in Pending : Hands(c, e)
      BY DEF Sharing, Shared
  <2>2. data[e].memory = PartOfParent(e) \/ \E c \in Pending' : Hands(c, e)
      BY <1>1, <2>1
  <2> QED BY <1>3, <2>2
<1> QED
    BY <1>9, <1>10, <1>11, <1>12, <1>13, <1>14, <1>15, <1>16, <1>17 DEF Sharing


\* The calls that are broadcast change neither the memory nor the cut of a data.
LEMMA SameCut ==
    ASSUME Tree, NEW d \in DOMAIN data,
           \/ SGCreated(d) \/ SGWrapperCreated(d) \/ SGPartitioned(d)
           \/ SGWrapperPartitioned(d) \/ DTPartitioned(d) \/ DTWrapperPartitioned(d)
    PROVE  /\ DOMAIN data' = DOMAIN data
           /\ \A e \in DOMAIN data : /\ (data')[e].memory = data[e].memory
                                     /\ (data')[e].partitioner = data[e].partitioner
<1>1. data \in [DOMAIN data -> Datum]
    BY DEF Tree, DataOK
<1>2. CASE SGPartitioned(d) \/ SGWrapperPartitioned(d)
    BY <1>2 DEF SGPartitioned, SGWrapperPartitioned
<1>3. CASE SGCreated(d) \/ SGWrapperCreated(d)
  <2> DEFINE g == IF data[d].guest = "none" THEN "SG" ELSE data[d].guest
  <2>1. data' = [data EXCEPT ![d].guest = g]
      BY <1>3 DEF SGCreated, SGWrapperCreated, GuestIfNone
  <2> HIDE DEF g
  <2> QED BY <1>1, <2>1 DEF Datum
<1>4. CASE DTPartitioned(d) \/ DTWrapperPartitioned(d)
  <2>1. \/ data' = data
        \/ data' = [c \in DOMAIN data |->
                       IF Level(c) = 1 THEN [data[c] EXCEPT !.guest = "DTPart"]
                       ELSE data[c]]
      BY <1>4 DEF DTPartitioned, DTWrapperPartitioned, LinkParts, OverGrid
  <2>2. DOMAIN data' = DOMAIN data
      BY <1>1, <2>1
  <2>3. ASSUME NEW e \in DOMAIN data
        PROVE  /\ (data')[e].memory = data[e].memory
               /\ (data')[e].partitioner = data[e].partitioner
    <3>1. data[e] \in Datum
        BY <1>1
    <3>2. (data')[e] = data[e] \/ (data')[e] = [data[e] EXCEPT !.guest = "DTPart"]
        BY <2>1
    <3> QED BY <3>1, <3>2 DEF Datum
  <2> QED BY <2>2, <2>3
<1> QED BY <1>2, <1>3, <1>4

\* Who is told nothing of memory leaves it shared out.
LEMMA SharingQuiet ==
    ASSUME Tree, Sharing, NEW d \in Nodes, partitioners' = partitioners,
           \/ SPUCreated(d) \/ SPUSetMemory(d) \/ DTCreated(d) \/ DTWrapperCreated(d)
           \/ FillWith(d) \/ FillByElement(d)
    PROVE  Sharing'
<1>1. Body(d)
    BY DEF Body
<1>2. /\ calls # <<>> /\ program' = program /\ shape' = shape /\ step' = step
    BY <1>1, BodyCall
<1>3. /\ Tree' /\ Rest \subseteq Pending' /\ DOMAIN data' = DOMAIN data
      /\ \A c \in Pending' \ Rest : c.fn = "fill"
      /\ \A e \in DOMAIN data : /\ (data')[e].memory = data[e].memory
                                /\ (data')[e].partitioner = data[e].partitioner
  <2>1. CASE FillWith(d) \/ FillByElement(d)
    <3> HIDE DEF Pending
    <3> QED BY <2>1, FillStep
  <2>2. CASE SPUCreated(d) \/ SPUSetMemory(d) \/ DTCreated(d) \/ DTWrapperCreated(d)
    <3>1. Tree' /\ Pending' = Rest /\ d \in DOMAIN data /\ DOMAIN data' = DOMAIN data
        BY <2>2, QuietBodies
    <3> HIDE DEF Pending
    <3> QED BY <2>2, <3>1, SameMemory
  <2> QED BY <2>1, <2>2
<1>4. \A e : ~Hands(Head(calls), e)
  <2>1. \/ Head(calls).fn = "fill" \/ Head(calls).fn = "data_set_memory"
        \/ Head(calls).fn = "data_created" /\ Head(calls).by # "SG"
      BY DEF SPUCreated, SPUSetMemory, DTCreated, DTWrapperCreated, FillWith, FillByElement,
             Told, Calling
  <2> QED BY <2>1 DEF Hands, Sets
<1> HIDE DEF Pending
<1> QED BY <1>2, <1>3, <1>4, SharingKept


\* SuperGlue is told of a new block and gives it its part.
LEMMA SharingCreated ==
    ASSUME Tree, Allocated, Sharing, NEW d \in Nodes, partitioners' = partitioners,
           SGCreated(d) \/ SGWrapperCreated(d)
    PROVE  Sharing'
<1>1. Body(d)
    BY DEF Body
<1>2. /\ calls # <<>> /\ program' = program /\ shape' = shape /\ step' = step
      /\ Head(calls).d = d /\ Head(calls).fn = "data_created" /\ Head(calls).by = "SG"
    BY <1>1, BodyCall DEF SGCreated, SGWrapperCreated, Told, Calling
<1>3. /\ Has("SG") /\ data[d].partitioner = NoPartitioner
      /\ \A c \in Pending : c.fn # "set_memory"
  <2>1. CallOK(Head(calls)) /\ \A c \in Pending : c.fn # "set_memory"
      BY <1>2, HeadFacts
  <2> QED BY <1>2, <2>1 DEF CallOK, Has, NoPartitioner
<1> HIDE DEF Pending
<1>4. /\ Tree' /\ Rest \subseteq Pending' /\ d \in DOMAIN data
      /\ \A c \in Pending' \ Rest :
            /\ c.fn = "set_memory" /\ c.d = d
            /\ d # Root => c.m = PartOfParent(d)
            /\ d = Root => c.m = Buffer(<<"SG">>) /\ ~Static
      /\ d # Root \/ ~Static => \E c \in Pending' : c.fn = "set_memory" /\ c.d = d
    BY SGCreatedStep DEF PartOfParent
<1>5. /\ DOMAIN data' = DOMAIN data
      /\ \A e \in DOMAIN data : /\ (data')[e].memory = data[e].memory
                                /\ (data')[e].partitioner = data[e].partitioner
    BY <1>4, SameCut
<1>6. d # Root => Parent(d) \in DOMAIN data /\ Parent(d) # d
  <2> SUFFICES ASSUME d # Root
               PROVE  Parent(d) \in DOMAIN data /\ Parent(d) # d
      OBVIOUS
  <2>1. /\ Parent(d) \in DOMAIN data /\ Level(Parent(d)) + 1 = Level(d)
        /\ Level(d) \in 1..2
      BY <1>4, TreeFacts
  <2>2. Parent(d) # d
      BY <2>1
  <2> QED BY <2>1, <2>2
<1>7. NoAllocator => (d # Root => PartOfParent(d) = Null)
    BY <1>6 DEF Sharing, NothingYet, PartOfParent, PartOf
<1>8. NoAllocator => Static
    BY <1>3 DEF NoAllocator
<1>9. \A e \in DOMAIN data \ {Root} : Hands(Head(calls), e) =>
          \E c \in Pending' : Hands(c, e)
  <2>1. \A e : Hands(Head(calls), e) => e = d
      BY <1>2 DEF Hands, Sets
  <2> QED BY <1>4, <2>1 DEF Hands, Sets
<1> QED BY <1>2, <1>3, <1>4, <1>5, <1>6, <1>7, <1>8, <1>9, SharingKept

\* Blocks that are given memory when d has been cut.
LEMMA SharedChildren ==
    ASSUME Tree, Sharing, NEW d \in DOMAIN data, calls # <<>>,
           Head(calls).fn = "data_partitioned", Head(calls).d = d
    PROVE  /\ \A c \in Pending : c.fn # "set_memory"
           /\ Has(Head(calls).by) /\ ~SetByProgram
           /\ \A k \in 0..data[d].child_cnt - 1 :
                 /\ Child(d, k) \in DOMAIN data \ {Root} /\ Parent(Child(d, k)) = d
                 /\ Last(Child(d, k)) = k /\ Child(d, k) # d
                 /\ data[Child(d, k)].partitioner = NoPartitioner
                 /\ \A l \in 0..data[d].child_cnt - 1 :
                       Child(d, k) = Child(d, l) => k = l
<1>1. /\ CallOK(Head(calls)) /\ \A c \in Pending : c.fn # "set_memory"
      /\ Head(calls) \in Pending /\ NoneComing
    BY HeadFacts
<1>2. Has(Head(calls).by)
    BY <1>1 DEF CallOK, Has
<1>3. ~SetByProgram
    BY <1>1 DEF Sharing, SetLast
<1>4. /\ d \in Nodes /\ data[d].child_cnt \in Nat /\ Level(d) \in Nat
      /\ \A k \in 0..data[d].child_cnt - 1 : Made(Child(d, k))
    BY TreeFacts
<1>5. ASSUME NEW k \in 0..data[d].child_cnt - 1
      PROVE  /\ Child(d, k) \in DOMAIN data \ {Root} /\ Parent(Child(d, k)) = d
             /\ Last(Child(d, k)) = k /\ Child(d, k) # d
             /\ data[Child(d, k)].partitioner = NoPartitioner
             /\ \A l \in 0..data[d].child_cnt - 1 : Child(d, k) = Child(d, l) => k = l
  <2>1. k \in Nat /\ \A l \in 0..data[d].child_cnt - 1 : l \in Nat
      BY <1>4
  <2>2. /\ Child(d, k) # Root /\ Parent(Child(d, k)) = d /\ Last(Child(d, k)) = k
        /\ Level(Child(d, k)) = Level(d) + 1
        /\ \A l \in Nat : Child(d, k) = Child(d, l) => k = l
    <3>1. /\ Child(d, k) # Root /\ Parent(Child(d, k)) = d /\ Last(Child(d, k)) = k
          /\ Level(Child(d, k)) = Level(d) + 1
        BY <1>4, <2>1, ChildFacts
    <3>2. \A e \in Nodes, l \in Nat : Child(d, k) = Child(e, l) => d = e /\ k = l
        BY <1>4, <2>1, ChildFacts
    <3> QED BY <1>4, <3>1, <3>2
  <2>3. Child(d, k) \in DOMAIN data
      BY <1>1, <1>4 DEF Made, Coming, NoneComing
  <2>4. Child(d, k) # d
      BY <1>4, <2>2
  <2>5. data[Child(d, k)].partitioner = NoPartitioner
      BY <1>1, <2>2, <2>3 DEF Sharing, Uncut
  <2> QED BY <2>1, <2>2, <2>3, <2>4, <2>5
<1> QED BY <1>1, <1>2, <1>3, <1>5

\* SuperGlue is told that a block has been cut and hands its memory down.
LEMMA SharingHandedDown ==
    ASSUME Tree, Allocated, Sharing, NEW d \in Nodes, partitioners' = partitioners,
           SGPartitioned(d) \/ SGWrapperPartitioned(d)
    PROVE  Sharing'
<1>1. Body(d)
    BY DEF Body
<1>2. /\ calls # <<>> /\ program' = program /\ shape' = shape /\ step' = step
      /\ Head(calls).d = d /\ Head(calls).fn = "data_partitioned" /\ Head(calls).by = "SG"
    BY <1>1, BodyCall DEF SGPartitioned, SGWrapperPartitioned, Told, Calling
<1> HIDE DEF Pending
<1>4. /\ Tree' /\ Rest \subseteq Pending' /\ d \in DOMAIN data
      /\ \A c \in Pending' \ Rest :
            /\ c.fn = "set_memory"
            /\ \E k \in 0..data[d].child_cnt - 1 :
                  c.d = Child(d, k) /\ c.m = PartOf(data[d].memory, Level(d), k)
    BY SGPartitionedStep
<1>5. /\ DOMAIN data' = DOMAIN data
      /\ \A e \in DOMAIN data : /\ (data')[e].memory = data[e].memory
                                /\ (data')[e].partitioner = data[e].partitioner
    BY <1>4, SameCut
<1>6. /\ \A c \in Pending : c.fn # "set_memory"
      /\ Has("SG")
      /\ \A k \in 0..data[d].child_cnt - 1 :
                 /\ Child(d, k) \in DOMAIN data \ {Root} /\ Parent(Child(d, k)) = d
                 /\ Last(Child(d, k)) = k /\ Child(d, k) # d
                 /\ data[Child(d, k)].partitioner = NoPartitioner
                 /\ \A l \in 0..data[d].child_cnt - 1 :
                       Child(d, k) = Child(d, l) => k = l
    BY <1>2, <1>4, SharedChildren
<1>7. \A c \in Pending' \ Rest :
         /\ c.d # Root /\ Parent(c.d) = d /\ c.d # d /\ c.m = PartOfParent(c.d)
         /\ data[c.d].partitioner = NoPartitioner
    BY <1>4, <1>6 DEF PartOfParent
<1>8. NoAllocator => data[d].memory = Null
    BY <1>4 DEF Sharing, NothingYet
<1>9. NoAllocator => \A c \in Pending' \ Rest : c.m = Null
    BY <1>4, <1>8 DEF PartOf
<1>10. \A c, e \in Pending' \ Rest :
         /\ c.d = e.d => c.m = e.m
         /\ e.d # Root => c.d # Parent(e.d)
    BY <1>4, <1>6, <1>7
<1>11. \A e : ~Hands(Head(calls), e)
    BY <1>2 DEF Hands, Sets
<1> QED BY <1>2, <1>4, <1>5, <1>6, <1>7, <1>9, <1>10, <1>11, SharingKept


\* The blocks of level 1 are the root's children.
LEMMA BlocksOfRoot ==
    ASSUME NEW d \in Nodes, d # Root
    PROVE  Level(d) \in 1..2 /\ (Level(d) = 1 <=> Parent(d) = Root)
<1>1. Parent(d) \in Seq(Nat) /\ Level(Parent(d)) = Level(d) - 1 /\ Level(d) \in 1..2
    BY ParentFacts DEF Nodes
<1>2. Len(Parent(d)) = 0 => Parent(d) = Root
    BY <1>1, EmptySeq DEF Root
<1>3. Level(Root) = 0
    BY DEF Level, Root
<1> QED BY <1>1, <1>2, <1>3 DEF Level

\* DuctTeip is told that a data has been cut: it gives its blocks their memory, or a
\* block the memory it has.
LEMMA SharingLinked ==
    ASSUME Tree, Sharing, NEW d \in Nodes, partitioners' = partitioners,
           DTPartitioned(d) \/ DTWrapperPartitioned(d)
    PROVE  Sharing'
<1>1. Body(d)
    BY DEF Body
<1>2. /\ calls # <<>> /\ program' = program /\ shape' = shape /\ step' = step
      /\ Head(calls).d = d /\ Head(calls).fn = "data_partitioned" /\ Head(calls).by = "DT"
    BY <1>1, BodyCall DEF DTPartitioned, DTWrapperPartitioned, OverGrid, Told, Calling
<1>3. Static /\ Level(d) = 1 => \E c \in Pending' : Sets(c, d)
  <2> SUFFICES ASSUME Static, Level(d) = 1
               PROVE  \E c \in Pending' : Sets(c, d)
      OBVIOUS
  <2>1. d # Root
      BY DEF Level, Root
  <2>2. calls' = <<SetMemory(d, data[d].memory)>> \o Tail(calls)
      BY <2>1 DEF DTPartitioned, DTWrapperPartitioned, LinkParts, OverGrid, Makes
  <2>3. CallsOK /\ CallOK(Head(calls)) /\ Head(calls) \in CallTypes
      BY <1>2, HeadFacts DEF Tree
  <2>4. d \in DOMAIN data
      BY <1>2, <2>3 DEF CallOK
  <2>5. data[d].memory \in Addresses
    <3>1. shape \in Shapes /\ data[d].memory \in Place(Level(d))
        BY <2>4, TreeFacts DEF Tree
    <3> QED BY <3>1, PlaceFacts
  <2>6. PICK c : c = SetMemory(d, data[d].memory)
      OBVIOUS
  <2>7. c \in CallTypes /\ c.fn = "set_memory" /\ c.d = d
      BY <2>5, <2>6, CallsMade
  <2>8. <<c>> \in Seq(CallTypes) /\ Members(<<c>>) = {c}
      BY <2>7, OneCall
  <2>9. Pending' = Members(<<c>>) \cup Members(Tail(calls))
      BY <1>2, <2>2, <2>3, <2>6, <2>8, PendingAfter
  <2> QED BY <2>7, <2>8, <2>9 DEF Sets
<1> HIDE DEF Pending
<1>4. /\ Tree' /\ Rest \subseteq Pending' /\ d \in DOMAIN data
      /\ \A c \in Pending' \ Rest :
            \/ /\ c.fn = "set_memory" /\ d = Root
               /\ \E k \in 0..data[d].child_cnt - 1 : c.d = Child(d, k)
            \/ c.fn = "set_memory" /\ Static /\ Level(d) = 1 /\ c.d = d
      /\ \A c, e \in Pending' \ Rest : c.d = e.d => c.m = e.m
    BY DTPartitionedStep
<1>5. /\ DOMAIN data' = DOMAIN data
      /\ \A e \in DOMAIN data : /\ (data')[e].memory = data[e].memory
                                /\ (data')[e].partitioner = data[e].partitioner
    BY <1>4, SameCut
<1>6. /\ \A c \in Pending : c.fn # "set_memory"
      /\ Has("DT") /\ ~SetByProgram
      /\ \A k \in 0..data[d].child_cnt - 1 :
                 /\ Child(d, k) # Root /\ Parent(Child(d, k)) = d
                 /\ Child(d, k) # d
                 /\ data[Child(d, k)].partitioner = NoPartitioner
    BY <1>2, <1>4, SharedChildren
<1>7. ~Tied(Root) /\ ~NoAllocator
    BY <1>6 DEF Tied, NoAllocator
<1>8. Level(d) = 1 => d # Root /\ Parent(d) = Root
  <2> SUFFICES ASSUME Level(d) = 1
               PROVE  d # Root /\ Parent(d) = Root
      OBVIOUS
  <2>1. d # Root
      BY DEF Level, Root
  <2> QED BY <2>1, BlocksOfRoot
<1>9. \A c \in Pending' \ Rest :
         /\ c.d # Root /\ Parent(c.d) = Root
         /\ ~Static => data[c.d].partitioner = NoPartitioner
    BY <1>4, <1>6, <1>8
<1>10. \A c, e \in Pending' \ Rest :
         /\ c.d = e.d => c.m = e.m
         /\ e.d # Root => c.d # Parent(e.d)
    BY <1>4, <1>9
<1>11. \A e \in DOMAIN data \ {Root} : Hands(Head(calls), e) =>
          \E c \in Pending' : Hands(c, e)
  <2> SUFFICES ASSUME NEW e \in DOMAIN data \ {Root}, Hands(Head(calls), e)
               PROVE  \E c \in Pending' : Hands(c, e)
      OBVIOUS
  <2>1. Static /\ Level(e) = 2 /\ d = Parent(e)
      BY <1>2 DEF Hands, Sets
  <2>2. Level(d) = 1
    <3>1. Level(d) + 1 = 2 /\ Level(d) \in 0..2
        BY <1>4, <2>1, TreeFacts
    <3> QED BY <3>1
  <2> QED BY <1>3, <2>1, <2>2 DEF Hands
<1> QED BY <1>2, <1>4, <1>5, <1>6, <1>7, <1>9, <1>10, <1>11, SharingKept


\* A new data has no memory: somebody will give it its part, unless there is none.
LEMMA SharingMade ==
    ASSUME Tree, Sharing, NEW d \in Nodes, CreateData(d), partitioners' = partitioners
    PROVE  Sharing'
<1>1. Body(d)
    BY DEF Body
<1>2. /\ calls # <<>> /\ program' = program /\ shape' = shape /\ step' = step
      /\ Head(calls).d = d /\ Head(calls).fn = "GData"
    BY <1>1, BodyCall DEF CreateData, Calling
<1>3. Pending = {Head(calls)} \cup Rest
    BY <1>2, NextAndRest
<1>4. /\ Static' <=> Static
      /\ \A s : Has(s)' <=> Has(s)
      /\ SetByProgram' <=> SetByProgram
      /\ NoAllocator' <=> NoAllocator
      /\ \A e : Tied(e)' <=> Tied(e)
    BY <1>2, SameStatement
<1>5. d # Root => Level(d) \in 1..2 /\ (Level(d) = 1 <=> Parent(d) = Root)
    BY BlocksOfRoot
<1>6. Root' = Root /\ \A e : Parent(e)' = Parent(e)
    BY DEF Root, Parent
<1>7. \A c, e : Hands(c, e)' <=> Hands(c, e)
    BY <1>4 DEF Hands, Sets, Level, Parent
<1> HIDE DEF Pending
<1>8. /\ d \notin DOMAIN data /\ DOMAIN data' = DOMAIN data \cup {d}
      /\ \A e \in DOMAIN data : e # d /\ (data')[e] = data[e]
      /\ (data')[d].memory = Null
      /\ Attached(d) /\ Rest \subseteq Pending'
      /\ \A c \in Pending' :
            \/ c \in Rest /\ c.fn # "set_memory"
            \/ c.fn = "data_created" /\ c.d = d
      /\ Has("SG") => Created("SG", d) \in Pending'
    BY CreateDataStep DEF Has
<1>9. (data')[d].partitioner = NoPartitioner
  <2>1. data' = [e \in DOMAIN data \cup {d} |->
                    IF e # d THEN data[e]
                    ELSE [rows |-> Head(calls).rows, cols |-> Head(calls).cols,
                          child_cnt |-> 0, partitioner |-> NoPartitioner,
                          memory |-> Null, guest |-> "none", handle |-> NoHandle]]
      BY DEF CreateData
  <2> QED BY <2>1
<1>10. \A c \in Pending' : c.fn # "set_memory" /\ (c.fn # "data_created" => c \in Rest)
    BY <1>8
<1>11. ~SetByProgram
    BY <1>2, <1>3 DEF Sharing, SetLast
<1>12. \A e \in DOMAIN data \ {Root} : Parent(e) \in DOMAIN data
    BY TreeFacts
<1>13. SetLast' /\ RootFirst' /\ OneValue' /\ SetAbove' /\ Handing'
    BY <1>4, <1>10, <1>11 DEF SetLast, RootFirst, OneValue, SetAbove, Handing, Sets
<1>14. NothingYet'
    BY <1>4, <1>8, <1>10 DEF Sharing, NothingYet
<1>15. Static /\ Has("DT") => \A c \in Pending : c.fn = "GData" /\ Level(c.d) = 2 =>
          \E e \in Rest : e.fn = "data_partitioned" /\ e.by = "DT" /\ e.d = Parent(c.d)
    BY <1>2, <1>3 DEF Sharing, Relinking
<1>16. Relinking'
    BY <1>3, <1>4, <1>6, <1>8, <1>10, <1>15 DEF Relinking, Level
<1>17. Uncut'
  <2>1. \A c \in Pending' : c.fn = "data_partitioned" =>
           \A e \in DOMAIN data' \ {Root} :
               Parent(e) = c.d => (data')[e].partitioner = NoPartitioner
      BY <1>3, <1>8, <1>9, <1>10 DEF Sharing, Uncut
  <2> QED BY <1>6, <1>10, <2>1 DEF Uncut
<1>18. ASSUME NEW e \in DOMAIN data \ {Root}, Tied(Parent(e))
       PROVE  \/ (data')[e].memory = PartOfParent(e)'
              \/ \E c \in Pending' : Hands(c, e)
  <2>1. PartOfParent(e)' = PartOfParent(e)
      BY <1>2, <1>8, <1>12, SamePart
  <2>2. data[e].memory = PartOfParent(e) \/ \E c \in Pending : Hands(c, e)
      BY <1>18 DEF Sharing, Shared
  <2>3. ~Hands(Head(calls), e)
      BY <1>2 DEF Hands, Sets
  <2> QED BY <1>3, <1>8, <2>1, <2>2, <2>3
<1>19. ASSUME d # Root, Tied(Parent(d))
       PROVE  \/ (data')[d].memory = PartOfParent(d)'
              \/ \E c \in Pending' : Hands(c, d)
  <2>1. CASE Has("SG")
    <3>1. PICK c : c = Created("SG", d)
        OBVIOUS
    <3>2. c.fn = "data_created" /\ c.by = "SG" /\ c.d = d
        BY <3>1 DEF Created
    <3> QED BY <1>8, <2>1, <3>1, <3>2 DEF Hands
  <2>2. CASE ~Has("SG") /\ ~Has("DT")
    <3>1. NoAllocator
        BY <1>11, <1>19, <2>2 DEF NoAllocator, Tied
    <3>2. Parent(d) \in DOMAIN data
        BY <1>8, <1>19 DEF Attached
    <3>3. data[Parent(d)].memory = Null
        BY <3>1, <3>2 DEF Sharing, NothingYet
    <3>4. PartOfParent(d)' = PartOfParent(d)
        BY <1>2, <1>8, <3>2, SamePart
    <3> QED BY <1>8, <3>3, <3>4 DEF PartOfParent, PartOf
  <2>3. CASE ~Has("SG") /\ Has("DT")
    <3>1. Static /\ Parent(d) # Root /\ Level(d) = 2
        BY <1>5, <1>11, <1>19, <2>3 DEF Tied
    <3>2. PICK e \in Rest : e.fn = "data_partitioned" /\ e.by = "DT" /\ e.d = Parent(d)
        BY <1>2, <1>3, <1>15, <2>3, <3>1
    <3> QED BY <1>8, <3>1, <3>2 DEF Hands
  <2> QED BY <2>1, <2>2, <2>3
<1>20. Shared'
  <2> SUFFICES ASSUME NEW e \in DOMAIN data' \ {Root}, Tied(Parent(e))
               PROVE  \/ (data')[e].memory = PartOfParent(e)'
                      \/ \E c \in Pending' : Hands(c, e)
      BY <1>4, <1>6, <1>7 DEF Shared
  <2> QED BY <1>8, <1>18, <1>19
<1> QED BY <1>13, <1>14, <1>16, <1>17, <1>20 DEF Sharing


\* When a data is cut all memory that is there has been handed down.
LEMMA SharingCut ==
    ASSUME Tree, Sharing, NEW d \in Nodes, SetPartition(d), partitioners' = partitioners
    PROVE  Sharing'
<1>1. Body(d)
    BY DEF Body
<1>2. /\ calls # <<>> /\ program' = program /\ shape' = shape /\ step' = step
      /\ Head(calls).d = d /\ Head(calls).fn = "set_partition"
    BY <1>1, BodyCall DEF SetPartition, Calling
<1>3. Pending = {Head(calls)} \cup Rest /\ \A c \in Pending : c.fn # "data_partitioned"
    BY <1>2, NextAndRest, HeadFacts
<1>4. /\ Static' <=> Static
      /\ \A s : Has(s)' <=> Has(s)
      /\ SetByProgram' <=> SetByProgram
      /\ NoAllocator' <=> NoAllocator
      /\ \A e : Tied(e)' <=> Tied(e)
    BY <1>2, SameStatement
<1>5. Root' = Root /\ (\A e : Parent(e)' = Parent(e)) /\ (\A e : Level(e)' = Level(e))
    BY DEF Root, Parent, Level
<1>6. \A k \in Nat : Parent(Child(d, k)) = d
    BY ChildFacts
<1> HIDE DEF Pending
<1>7. /\ DOMAIN data' = DOMAIN data /\ Level(d) \in 0..1 /\ NoneComing
      /\ data[d].partitioner = NoPartitioner
      /\ \A e \in DOMAIN data :
            /\ (data')[e].memory = data[e].memory
            /\ e # d => (data')[e] = data[e]
      /\ \A c \in Pending :
            c.fn \notin {"set_memory", "data_set_memory", "data_created"}
      /\ \A c \in Pending' :
            \/ c \in Rest
            \/ c.fn = "GData" /\ \E k \in 0..Count(Level(d) + 1) - 1 : c.d = Child(d, k)
            \/ c.fn = "data_partitioned" /\ c.d = d
            \/ c.fn = "set_partition"
      /\ Has("DT") => Partitioned("DT", d) \in Pending'
    BY SetPartitionStep DEF Has
<1>8. \A c \in Pending' : c.fn # "set_memory"
    BY <1>3, <1>7
<1>9. ~SetByProgram
    BY <1>2, <1>3 DEF Sharing, SetLast
<1>10. \A e \in DOMAIN data \ {Root} :
          Parent(e) \in DOMAIN data /\ data[Parent(e)].partitioner # NoPartitioner
    BY TreeFacts
<1>11. SetLast' /\ RootFirst' /\ OneValue' /\ SetAbove' /\ Handing'
    BY <1>4, <1>8, <1>9 DEF SetLast, RootFirst, OneValue, SetAbove, Handing, Sets
<1>12. NothingYet'
    BY <1>4, <1>7, <1>8 DEF Sharing, NothingYet
<1>13. Relinking'
  <2> SUFFICES ASSUME Has("DT"), NEW c \in Pending', c.fn = "GData"
               PROVE  \E e \in Pending' : /\ e.fn = "data_partitioned" /\ e.by = "DT"
                                          /\ e.d = Parent(c.d)
      BY <1>4, <1>5 DEF Relinking
  <2>1. PICK k \in 0..Count(Level(d) + 1) - 1 : c.d = Child(d, k)
      BY <1>3, <1>7 DEF NoneComing
  <2>2. Parent(c.d) = d
    <3>1. k \in Nat
        OBVIOUS
    <3> QED BY <1>6, <2>1, <3>1
  <2>3. PICK e : e = Partitioned("DT", d)
      OBVIOUS
  <2>4. e.fn = "data_partitioned" /\ e.by = "DT" /\ e.d = d
      BY <2>3 DEF Partitioned
  <2> QED BY <1>7, <2>2, <2>3, <2>4
<1>14. Uncut'
  <2>1. ASSUME NEW c \in Pending', c.fn = "data_partitioned",
               NEW e \in DOMAIN data \ {Root}, Parent(e) = c.d
        PROVE  FALSE
    <3>1. c.d = d
        BY <1>3, <1>7, <2>1
    <3> QED BY <1>7, <1>10, <2>1, <3>1
  <2> QED BY <1>5, <1>7, <1>8, <2>1 DEF Uncut
<1>15. Shared'
  <2> SUFFICES ASSUME NEW e \in DOMAIN data \ {Root}, Tied(Parent(e))
               PROVE  (data')[e].memory = PartOfParent(e)'
      BY <1>4, <1>5, <1>7 DEF Shared
  <2>1. PartOfParent(e)' = PartOfParent(e)
      BY <1>2, <1>7, <1>10, SamePart
  <2>2. \A c \in Pending : ~Hands(c, e)
      BY <1>3, <1>7 DEF Hands, Sets
  <2>3. data[e].memory = PartOfParent(e)
      BY <2>2 DEF Sharing, Shared
  <2> QED BY <1>7, <2>1, <2>3
<1> QED BY <1>11, <1>12, <1>13, <1>14, <1>15 DEF Sharing


\* Memory is set and handed down.  What is still to be set below is of another data, or
\* has this memory already.
LEMMA SharingSet ==
    ASSUME Tree, Sharing, NEW d \in Nodes, SetMemoryStatic(d), partitioners' = partitioners
    PROVE  Sharing'
<1> DEFINE m == Head(calls).m
<1>1. Body(d)
    BY DEF Body
<1>2. /\ calls # <<>> /\ program' = program /\ shape' = shape /\ step' = step
      /\ Head(calls).d = d /\ Head(calls).fn = "set_memory" /\ Static
      /\ data' = [data EXCEPT ![d].memory = m]
    BY <1>1, BodyCall DEF SetMemoryStatic, Calling
<1>3. /\ Pending = {Head(calls)} \cup Rest
      /\ \A c \in Pending : c.fn # "data_set_memory"
    BY <1>2, NextAndRest, HeadFacts
<1>4. /\ Static' <=> Static
      /\ \A s : Has(s)' <=> Has(s)
      /\ SetByProgram' <=> SetByProgram
      /\ NoAllocator' <=> NoAllocator
      /\ \A e : Tied(e)' <=> Tied(e)
    BY <1>2, SameStatement
<1>5. /\ Root' = Root /\ \A e : Parent(e)' = Parent(e) /\ Level(e)' = Level(e)
      /\ \A c, e : Hands(c, e)' <=> Hands(c, e)
    BY <1>4 DEF Root, Parent, Level, Hands, Sets
<1>6. /\ d \in DOMAIN data /\ (d # Root => Parent(d) \in DOMAIN data /\ Parent(d) # d)
      /\ data \in [DOMAIN data -> Datum]
    BY <1>2, <1>3, SetOfData DEF Tree, DataOK
<1>7. /\ DOMAIN data' = DOMAIN data /\ (data')[d].memory = m
      /\ \A e \in DOMAIN data : /\ (data')[e].partitioner = data[e].partitioner
                                /\ e # d => (data')[e].memory = data[e].memory
    BY <1>2, <1>6 DEF Datum
<1>8. /\ Sets(Head(calls), d) /\ Head(calls) \in Pending
      /\ \A c \in Rest : c \in Pending
    BY <1>2, <1>3 DEF Sets
<1>9. \A k \in 0..data[d].child_cnt - 1 :
         /\ Child(d, k) # Root /\ Parent(Child(d, k)) = d /\ Last(Child(d, k)) = k
         /\ Level(Child(d, k)) = Level(d) + 1 /\ Child(d, k) # d
         /\ \A j \in 0..data[d].child_cnt - 1 : Child(d, k) = Child(d, j) => k = j
  <2>1. data[d].child_cnt \in Nat /\ Level(d) \in Nat
      BY <1>6, TreeFacts
  <2>2. \A k \in Nat :
           /\ Child(d, k) # Root /\ Parent(Child(d, k)) = d /\ Last(Child(d, k)) = k
           /\ Level(Child(d, k)) = Level(d) + 1
      BY ChildFacts
  <2>3. \A k, j \in Nat : Child(d, k) = Child(d, j) => k = j
      BY ChildFacts
  <2> SUFFICES ASSUME NEW k \in 0..data[d].child_cnt - 1
               PROVE  /\ Child(d, k) # Root /\ Parent(Child(d, k)) = d
                      /\ Last(Child(d, k)) = k
                      /\ Level(Child(d, k)) = Level(d) + 1 /\ Child(d, k) # d
                      /\ \A j \in 0..data[d].child_cnt - 1 :
                            Child(d, k) = Child(d, j) => k = j
      OBVIOUS
  <2>4. k \in Nat
      OBVIOUS
  <2>5. Child(d, k) # d
      BY <2>1, <2>2, <2>4
  <2> QED BY <2>2, <2>3, <2>4, <2>5
<1> DEFINE Given(c) == /\ c.fn = "set_memory"
                        /\ \E k \in 0..data[d].child_cnt - 1 :
                             c.d = Child(d, k) /\ c.m = PartOf(m, Level(d), k)
<1> HIDE DEF Pending
<1>10. /\ Rest \subseteq Pending'
       /\ \A c \in Pending' :
             c \in Rest \/ c = MemorySet(d, m) \/ Given(c)
       /\ \A k \in 0..data[d].child_cnt - 1 : \E c \in Pending' : Sets(c, Child(d, k))
    BY SetMemoryStaticStep DEF Sets
<1>11. \A c \in Pending' : c \in Rest \/ c.fn = "data_set_memory" \/ Given(c)
    BY <1>10 DEF MemorySet
<1> HIDE DEF m
<1>12. \A c : Given(c) => /\ c.fn = "set_memory" /\ c.d # Root /\ Parent(c.d) = d
                         /\ c.d # d
                         /\ c.m = PartOf(m, Level(d), Last(c.d))
    BY <1>9
<1> HIDE DEF Given
\* The root's memory is the only one to be set when it is.
<1>13. d = Root => Rest = {}
    BY <1>2, <1>8 DEF Sharing, RootFirst
<1>14. \A c \in Rest : c.fn = "set_memory" => c.d # Root
    BY <1>2, <1>8 DEF Sharing, RootFirst, Sets
<1>15. Rest # {} => Tied(d)
    BY <1>2, <1>13 DEF Tied
\* A child that is to be given memory already is to be given this one.
<1>16. \A c \in Rest : c.fn = "set_memory" /\ Parent(c.d) = d => m = data[d].memory
  <2> SUFFICES ASSUME NEW c \in Rest, c.fn = "set_memory", Parent(c.d) = d
               PROVE  m = data[d].memory
      OBVIOUS
  <2>1. c.d # Root
      BY <1>14
  <2> QED BY <1>2, <1>8, <2>1 DEF Sharing, SetAbove, Sets, m
<1>17. \A c \in Rest : c.fn = "set_memory" /\ c.d = d => c.m = m
    BY <1>2, <1>8 DEF Sharing, OneValue, Sets, m
<1>18. \A c \in Rest : c.fn = "set_memory" /\ Tied(Parent(c.d)) => c.m = PartOfParent(c.d)
    BY <1>8, <1>14 DEF Sharing, Handing
<1>19. \A c \in Rest : c.fn = "set_memory" =>
          c.d \in DOMAIN data /\ Parent(c.d) \in DOMAIN data
    BY <1>8, <1>14, SetOfData
<1>20. \A e \in DOMAIN data \ {Root} :
          /\ Parent(e) \in DOMAIN data
          /\ Parent(e) # d => PartOfParent(e)' = PartOfParent(e)
          /\ Parent(e) = d =>
                /\ PartOfParent(e)' = PartOf(m, Level(d), Last(e))
                /\ PartOfParent(e) = PartOf(data[d].memory, Level(d), Last(e))
                /\ Last(e) \in 0..data[d].child_cnt - 1 /\ e = Child(d, Last(e))
  <2> SUFFICES ASSUME NEW e \in DOMAIN data \ {Root}
               PROVE  /\ Parent(e) \in DOMAIN data
                      /\ Parent(e) # d => PartOfParent(e)' = PartOfParent(e)
                      /\ Parent(e) = d =>
                            /\ PartOfParent(e)' = PartOf(m, Level(d), Last(e))
                            /\ PartOfParent(e) = PartOf(data[d].memory, Level(d), Last(e))
                            /\ Last(e) \in 0..data[d].child_cnt - 1
                            /\ e = Child(d, Last(e))
      OBVIOUS
  <2>1. /\ Parent(e) \in DOMAIN data /\ e = Child(Parent(e), Last(e))
        /\ Last(e) \in 0..data[Parent(e)].child_cnt - 1
      BY TreeFacts
  <2>2. Parent(e) # d => PartOfParent(e)' = PartOfParent(e)
      BY <1>2, <1>7, <2>1, SamePart
  <2>3. \A l : SizeAt(l)' = SizeAt(l)
      BY <1>2, SameStatement
  <2>4. Parent(e) = d => PartOfParent(e)' = PartOf(m, Level(d), Last(e))
      BY <1>5, <1>7, <2>3 DEF PartOfParent, PartOf, Parent, Level, Null
  <2> QED BY <2>1, <2>2, <2>4 DEF PartOfParent
<1>21. SetLast'
    BY <1>3, <1>4, <1>8, <1>11, <1>12 DEF Sharing, SetLast
<1>22. NothingYet'
  <2> SUFFICES ASSUME NoAllocator
               PROVE  /\ \A e \in DOMAIN data : (data')[e].memory = Null
                      /\ \A c \in Pending' : c.fn = "set_memory" => c.m = Null
      BY <1>4, <1>7 DEF NothingYet
  <2>1. /\ \A e \in DOMAIN data : data[e].memory = Null
        /\ \A c \in Pending : c.fn = "set_memory" => c.m = Null
      BY DEF Sharing, NothingYet
  <2>2. m = Null
      BY <1>2, <1>8, <2>1 DEF m
  <2>3. \A c : Given(c) => c.m = Null
      BY <1>12, <2>2 DEF PartOf
  <2> QED BY <1>7, <1>8, <1>11, <2>1, <2>2, <2>3
<1>23. Relinking'
  <2> SUFFICES ASSUME Static, Has("DT"), NEW c \in Pending', c.fn = "GData", Level(c.d) = 2
               PROVE  \E e \in Pending' : /\ e.fn = "data_partitioned" /\ e.by = "DT"
                                          /\ e.d = Parent(c.d)
      BY <1>4, <1>5 DEF Relinking
  <2>1. c \in Rest
      BY <1>11, <1>12
  <2>2. PICK e \in Pending : e.fn = "data_partitioned" /\ e.by = "DT" /\ e.d = Parent(c.d)
      BY <1>8, <2>1 DEF Sharing, Relinking
  <2> QED BY <1>2, <1>3, <1>10, <2>2
<1>24. Uncut'
  <2>1. \A c \in Pending' : c.fn = "data_partitioned" =>
           \A e \in DOMAIN data \ {Root} :
               Parent(e) = c.d => (data')[e].partitioner = NoPartitioner
      BY <1>7, <1>8, <1>11, <1>12 DEF Sharing, Uncut
  <2> QED BY <1>2, <1>4, <1>5, <1>7, <2>1 DEF Uncut
<1>25. RootFirst'
    BY <1>5, <1>11, <1>12, <1>14 DEF RootFirst, Sets
<1>26. ASSUME NEW c \in Rest, c.fn = "set_memory", NEW e, Given(e), c.d = e.d
       PROVE  c.m = e.m
  <2>1. Parent(c.d) = d /\ c.d \in DOMAIN data \ {Root}
      BY <1>12, <1>19, <1>26
  <2>2. Tied(d) /\ m = data[d].memory
      BY <1>15, <1>16, <1>26, <2>1
  <2> QED BY <1>12, <1>18, <1>20, <1>26, <2>1, <2>2
<1>27. OneValue'
  <2> SUFFICES ASSUME NEW c \in Pending', NEW e \in Pending', c.fn = "set_memory",
                      e.fn = "set_memory", e.d = c.d
               PROVE  c.m = e.m
      BY DEF OneValue, Sets
  <2>1. CASE c \in Rest /\ e \in Rest
      BY <1>8, <2>1 DEF Sharing, OneValue, Sets
  <2>2. CASE Given(c) /\ Given(e)
      BY <1>12, <2>2
  <2> QED BY <1>11, <1>26, <2>1, <2>2
<1>28. SetAbove'
  <2> SUFFICES ASSUME NEW c \in Pending', NEW e \in Pending', e.fn = "set_memory",
                      e.d # Root, c.fn = "set_memory", c.d = Parent(e.d)
               PROVE  c.m = (data')[c.d].memory
      BY <1>5 DEF SetAbove, Sets
  <2>1. CASE c \in Rest /\ e \in Rest
    <3>1. c.m = data[c.d].memory
        BY <1>8, <2>1 DEF Sharing, SetAbove, Sets
    <3> QED BY <1>7, <1>17, <1>19, <2>1, <3>1
  <2>2. CASE Given(e)
    <3>1. c.d = d /\ c \in Rest
        BY <1>11, <1>12, <2>2
    <3> QED BY <1>7, <1>17, <3>1
  <2>3. CASE Given(c) /\ e \in Rest
    <3>1. e.d \in DOMAIN data /\ Parent(e.d) # Root /\ Parent(Parent(e.d)) = d
        BY <1>12, <1>19, <2>3
    <3>2. Parent(e.d) \in DOMAIN data
        BY <1>19, <2>3
    <3>3. Level(d) + 1 = Level(Parent(e.d)) /\ Level(Parent(e.d)) + 1 = Level(e.d)
          /\ Level(e.d) \in 1..2 /\ Level(Parent(e.d)) \in 1..2 /\ Level(d) \in 0..2
        BY <1>6, <3>1, <3>2, TreeFacts
    <3>4. d = Root
      <4>1. Level(d) = 0
          BY <3>3
      <4> QED BY <4>1, BlocksOfRoot
    <3> QED BY <1>13, <2>3, <3>4
  <2> QED BY <1>11, <2>1, <2>2, <2>3
<1>29. Handing'
  <2> SUFFICES ASSUME NEW c \in Pending', c.fn = "set_memory", c.d # Root,
                      Tied(Parent(c.d))
               PROVE  c.m = PartOfParent(c.d)'
      BY <1>4, <1>5 DEF Handing
  <2>1. CASE c \in Rest
    <3>1. c.d \in DOMAIN data \ {Root} /\ c.m = PartOfParent(c.d)
        BY <1>18, <1>19, <2>1
    <3>2. CASE Parent(c.d) = d
        BY <1>16, <1>20, <2>1, <3>1, <3>2
    <3>3. CASE Parent(c.d) # d
        BY <1>20, <3>1, <3>3
    <3> QED BY <3>2, <3>3
  <2>2. CASE Given(c)
    <3>1. c.d \in DOMAIN data
      <4>1. CallOK(c)'
        <5>1. \A e \in Pending' : CallOK(e)'
            BY SetMemoryStaticStep DEF Tree, CallsOK
        <5> QED BY <5>1
      <4> QED BY <1>7, <4>1 DEF CallOK
    <3> QED BY <1>12, <1>20, <2>2, <3>1
  <2> QED BY <1>11, <2>1, <2>2
<1>30. Shared'
  <2> SUFFICES ASSUME NEW e \in DOMAIN data \ {Root}, Tied(Parent(e))
               PROVE  \/ (data')[e].memory = PartOfParent(e)'
                      \/ \E c \in Pending' : Hands(c, e)
      BY <1>4, <1>5, <1>7 DEF Shared
  <2>1. CASE Parent(e) = d
      BY <1>10, <1>20, <2>1 DEF Hands
  <2>2. CASE e = d
    <3>1. m = PartOfParent(d) /\ Parent(d) # d
        BY <1>2, <1>6, <1>8, <2>2 DEF Sharing, Handing, m
    <3> QED BY <1>7, <1>20, <2>2, <3>1
  <2>3. CASE Parent(e) # d /\ e # d
    <3>1. ~Hands(Head(calls), e)
        BY <1>2, <2>3 DEF Hands, Sets
    <3>2. data[e].memory = PartOfParent(e) \/ \E c \in Pending : Hands(c, e)
        BY DEF Sharing, Shared
    <3>3. data[e].memory = PartOfParent(e) \/ \E c \in Pending' : Hands(c, e)
        BY <1>3, <1>10, <3>1, <3>2
    <3> QED BY <1>7, <1>20, <2>3, <3>3
  <2> QED BY <2>1, <2>2, <2>3
<1> QED
    BY <1>21, <1>22, <1>23, <1>24, <1>25, <1>27, <1>28, <1>29, <1>30 DEF Sharing


\* The dynamic variant sets memory of data that have no children yet.
LEMMA SharingSetAlone ==
    ASSUME Tree, Sharing, NEW d \in Nodes, SetMemoryDynamic(d), partitioners' = partitioners
    PROVE  Sharing'
<1> DEFINE m == Head(calls).m
<1>1. Body(d)
    BY DEF Body
<1>2. /\ calls # <<>> /\ program' = program /\ shape' = shape /\ step' = step
      /\ Head(calls).d = d /\ Head(calls).fn = "set_memory" /\ ~Static
      /\ data' = [data EXCEPT ![d].memory = m]
    BY <1>1, BodyCall DEF SetMemoryDynamic, Calling
<1>3. Pending = {Head(calls)} \cup Rest
    BY <1>2, NextAndRest
<1>4. /\ Static' <=> Static
      /\ \A s : Has(s)' <=> Has(s)
      /\ SetByProgram' <=> SetByProgram
      /\ NoAllocator' <=> NoAllocator
      /\ \A e : Tied(e)' <=> Tied(e)
    BY <1>2, SameStatement
<1>5. /\ Root' = Root /\ \A e : Parent(e)' = Parent(e) /\ Level(e)' = Level(e)
      /\ \A c, e : Hands(c, e)' <=> Hands(c, e)
    BY <1>4 DEF Root, Parent, Level, Hands, Sets
<1>6. /\ d \in DOMAIN data /\ (d # Root => Parent(d) \in DOMAIN data /\ Parent(d) # d)
      /\ data \in [DOMAIN data -> Datum]
    BY <1>2, <1>3, SetOfData DEF Tree, DataOK
<1>7. /\ DOMAIN data' = DOMAIN data /\ (data')[d].memory = m
      /\ \A e \in DOMAIN data : /\ (data')[e].partitioner = data[e].partitioner
                                /\ e # d => (data')[e].memory = data[e].memory
    BY <1>2, <1>6 DEF Datum
<1>8. Head(calls) \in Pending /\ \A c \in Rest : c \in Pending
    BY <1>3
<1>9. Pending' = Rest
    BY QuietBodies
<1>10. \A c \in Pending : c.fn = "set_memory" =>
          c.d \in DOMAIN data /\ (c.d # Root => Parent(c.d) \in DOMAIN data)
    BY SetOfData
<1> HIDE DEF Pending
<1>11. data[d].partitioner = NoPartitioner
    BY <1>2, <1>8 DEF Sharing, Uncut
<1>12. \A e \in DOMAIN data \ {Root} :
          /\ Parent(e) \in DOMAIN data /\ Parent(e) # d
          /\ PartOfParent(e)' = PartOfParent(e)
  <2> SUFFICES ASSUME NEW e \in DOMAIN data \ {Root}
               PROVE  /\ Parent(e) \in DOMAIN data /\ Parent(e) # d
                      /\ PartOfParent(e)' = PartOfParent(e)
      OBVIOUS
  <2>1. Parent(e) \in DOMAIN data /\ data[Parent(e)].partitioner # NoPartitioner
      BY TreeFacts
  <2>2. Parent(e) # d
      BY <1>11, <2>1
  <2> QED BY <1>2, <1>7, <2>1, <2>2, SamePart
<1>13. SetLast'
    BY <1>4, <1>8, <1>9 DEF Sharing, SetLast
<1>14. NothingYet'
  <2>1. NoAllocator => m = Null
      BY <1>2, <1>8 DEF Sharing, NothingYet
  <2> HIDE DEF m
  <2> QED BY <1>4, <1>7, <1>8, <1>9, <2>1 DEF Sharing, NothingYet
<1>15. Relinking' /\ RootFirst'
    BY <1>2, <1>4 DEF Relinking, RootFirst
<1>16. Uncut'
  <2>1. \A c \in Pending' :
           ~Static /\ c.fn = "set_memory" => (data')[c.d].partitioner = NoPartitioner
      BY <1>7, <1>8, <1>9, <1>10 DEF Sharing, Uncut
  <2>2. \A c \in Pending' : c.fn = "data_partitioned" =>
           \A e \in DOMAIN data \ {Root} :
               Parent(e) = c.d => (data')[e].partitioner = NoPartitioner
      BY <1>7, <1>8, <1>9 DEF Sharing, Uncut
  <2> QED BY <1>4, <1>5, <1>7, <2>1, <2>2 DEF Uncut
<1>17. OneValue'
    BY <1>8, <1>9 DEF Sharing, OneValue, Sets
<1>18. SetAbove'
  <2> SUFFICES ASSUME NEW c \in Rest, NEW e \in Rest, e.fn = "set_memory",
                      e.d # Root, c.fn = "set_memory", c.d = Parent(e.d)
               PROVE  c.m = (data')[c.d].memory
      BY <1>5, <1>9 DEF SetAbove, Sets
  <2>1. c.m = data[c.d].memory
      BY <1>8 DEF Sharing, SetAbove, Sets
  <2>2. e.d \in DOMAIN data \ {Root}
      BY <1>8, <1>10
  <2> QED BY <1>7, <1>12, <2>1, <2>2
<1>19. Handing'
  <2> SUFFICES ASSUME NEW c \in Rest, c.fn = "set_memory", c.d # Root, Tied(Parent(c.d))
               PROVE  c.m = PartOfParent(c.d)'
      BY <1>4, <1>5, <1>9 DEF Handing
  <2>1. c.m = PartOfParent(c.d) /\ c.d \in DOMAIN data
      BY <1>8, <1>10 DEF Sharing, Handing
  <2> QED BY <1>12, <2>1
<1>20. Shared'
  <2> SUFFICES ASSUME NEW e \in DOMAIN data \ {Root}, Tied(Parent(e))
               PROVE  \/ (data')[e].memory = PartOfParent(e)'
                      \/ \E c \in Pending' : Hands(c, e)
      BY <1>4, <1>5, <1>7 DEF Shared
  <2>1. CASE e = d
    <3>1. m = PartOfParent(d)
        BY <1>2, <1>8, <2>1 DEF Sharing, Handing
    <3> QED BY <1>7, <1>12, <2>1, <3>1
  <2>2. CASE e # d
    <3>1. ~Hands(Head(calls), e)
        BY <1>2, <2>2 DEF Hands, Sets
    <3>2. data[e].memory = PartOfParent(e) \/ \E c \in Pending : Hands(c, e)
        BY DEF Sharing, Shared
    <3> QED BY <1>3, <1>7, <1>9, <1>12, <2>2, <3>1, <3>2
  <2> QED BY <2>1, <2>2
<1> QED
    BY <1>13, <1>14, <1>15, <1>16, <1>17, <1>18, <1>19, <1>20 DEF Sharing

\* Every body leaves the memory shared out, or about to be.
LEMMA SharingBody ==
    ASSUME Tree, Allocated, Sharing, NEW d \in Nodes, Body(d), partitioners' = partitioners
    PROVE  Sharing'
BY SharingMade, SharingCut, SharingSet, SharingSetAlone, SharingCreated, SharingHandedDown,
   SharingLinked, SharingQuiet DEF Body


\* The program sets memory in one statement, after everything has been cut, and in the
\* static variant only.
LEMMA SetByStatement ==
    ASSUME program \in Programs, shape \in Shapes, NEW i \in 1..Len(Statements),
           Statements[i].fn = "set_memory"
    PROVE  /\ program.memory /\ Static /\ i = PartitionStep + 1
           /\ \A k \in 1..Len(Statements) : k > i => Statements[k].fn = "fill"
<1>1. /\ program.levels \in {1, 2} /\ Len(Statements) \in PartitionStep..7
      /\ \A k \in 1..Len(Statements) : IsStatement(k, Statements[k])
    BY StatementFacts
<1>2. PartitionStep = 2 * program.levels + 1
    BY DEF PartitionStep
<1>3. program.memory /\ i = PartitionStep + 1
    BY <1>1 DEF IsStatement
<1>4. Static
    BY <1>3, ProgramsAssumption DEF Static
<1>5. ASSUME NEW k \in 1..Len(Statements), k > i
      PROVE  Statements[k].fn = "fill"
  <2>1. k > PartitionStep + 1 /\ k \in Nat
      BY <1>1, <1>2, <1>3, <1>5
  <2>2. IsStatement(k, Statements[k])
      BY <1>1
  <2> QED BY <1>1, <1>2, <2>1, <2>2 DEF IsStatement
<1> QED BY <1>3, <1>4, <1>5

\* A statement of the program that sets memory sets it at the root.
LEMMA SharingStatement ==
    ASSUME Tree, Sharing, Statement
    PROVE  Sharing'
<1>1. PICK c : c = Statements[step + 1]
    OBVIOUS
<1>2. /\ calls' = <<c>> /\ step' = step + 1 /\ step < Len(Statements)
      /\ program' = program /\ shape' = shape
      /\ partitioners' = partitioners /\ data' = data
    BY <1>1 DEF Statement
<1>3. program \in Programs /\ shape \in Shapes /\ step \in 0..Len(Statements)
    BY DEF Tree, Phase
<1>4. /\ Len(Statements) \in Nat /\ step + 1 \in 1..Len(Statements)
      /\ step \in Nat /\ Statements' = Statements
  <2>1. Len(Statements) \in PartitionStep..7 /\ program.levels \in {1, 2}
      BY <1>3, StatementFacts
  <2>2. PartitionStep \in Nat
      BY <2>1 DEF PartitionStep
  <2>3. Statements' = Statements
      BY <1>2, SameShape
  <2> QED BY <1>2, <1>3, <2>1, <2>2, <2>3
<1>5. /\ c \in CallTypes /\ c.d = Root
      /\ c.fn \notin {"data_partitioned"}
    BY <1>1, <1>3, <1>4, StatementFacts DEF IsStatement
<1>6. Pending = {} /\ Pending' = {c} /\ Rest' = {}
  <2>1. Members(<<c>>) = {c}
      BY <1>5, OneCall
  <2>2. Pending = {}
      BY StatementStep
  <2>3. Tail(<<c>>) = <<>>
      OBVIOUS
  <2>4. Members(<<c>>)' = Members(<<c>>) /\ Rest' = Members(<<>>)
      BY <1>2, <2>3 DEF Members, Rest
  <2> QED BY <1>2, <2>1, <2>2, <2>4, NoMembers DEF Pending, Members
<1>7. /\ Static' <=> Static
      /\ \A s : Has(s)' <=> Has(s)
    BY <1>2 DEF Static, Has
<1>8. /\ SetByProgram => SetByProgram'
      /\ SetByProgram' => SetByProgram \/ c.fn = "set_memory"
      /\ c.fn = "set_memory" => SetByProgram' /\ Static
  <2>1. \A i \in 1..step + 1 : i \in 1..step \/ i = step + 1
      BY <1>4
  <2>2. 1..step \subseteq 1..step + 1 /\ step + 1 \in 1..step + 1
      BY <1>4
  <2>3. c.fn = "set_memory" => Static
      BY <1>1, <1>3, <1>4, SetByStatement
  <2>4. SetByProgram' <=> \E i \in 1..step + 1 : Statements[i].fn = "set_memory"
      BY <1>2, <1>4 DEF SetByProgram
  <2>5. SetByProgram <=> \E i \in 1..step : Statements[i].fn = "set_memory"
      BY DEF SetByProgram
  <2> HIDE DEF Statements, SetByProgram
  <2> QED BY <1>1, <2>1, <2>2, <2>3, <2>4, <2>5
<1>9. SetByProgram' => c.fn \in {"set_memory", "fill"}
  <2> SUFFICES ASSUME SetByProgram'
               PROVE  c.fn \in {"set_memory", "fill"}
      OBVIOUS
  <2>1. PICK i \in 1..step + 1 : Statements[i].fn = "set_memory"
      BY <1>2, <1>4 DEF SetByProgram
  <2>2. i \in 1..Len(Statements)
      BY <1>2, <1>4
  <2>3. CASE i = step + 1
      BY <1>1, <2>1, <2>3
  <2>4. CASE i # step + 1
    <3>1. step + 1 > i
        BY <1>4, <2>4
    <3> QED BY <1>1, <1>3, <1>4, <2>1, <2>2, <3>1, SetByStatement
  <2> QED BY <2>3, <2>4
<1>10. /\ Root' = Root /\ \A e : Parent(e)' = Parent(e) /\ Level(e)' = Level(e)
       /\ Level(Root) = 0
       /\ \A a, e : Hands(a, e)' <=> Hands(a, e)
    BY <1>7 DEF Root, Parent, Level, Hands, Sets
<1>11. \A e \in DOMAIN data \ {Root} : Parent(e) \in DOMAIN data
    BY TreeFacts
<1>12. \A e \in DOMAIN data \ {Root} : PartOfParent(e)' = PartOfParent(e)
    BY <1>2, <1>11, SamePart
<1> HIDE DEF Pending, Rest
<1>13. SetLast'
    BY <1>6, <1>9 DEF SetLast
<1>14. NothingYet'
  <2>1. NoAllocator' => NoAllocator /\ c.fn # "set_memory"
      BY <1>7, <1>8 DEF NoAllocator
  <2> QED BY <1>2, <1>6, <2>1 DEF Sharing, NothingYet
<1>15. Relinking'
    BY <1>5, <1>6, <1>10 DEF Relinking
<1>16. Uncut'
    BY <1>5, <1>6, <1>7, <1>8 DEF Uncut
<1>17. RootFirst' /\ OneValue' /\ SetAbove' /\ Handing'
    BY <1>5, <1>6, <1>10 DEF RootFirst, OneValue, SetAbove, Handing, Sets
<1>18. Shared'
  <2> SUFFICES ASSUME NEW e \in DOMAIN data \ {Root}, Tied(Parent(e))'
               PROVE  data[e].memory = PartOfParent(e)' \/ Hands(c, e)
      BY <1>2, <1>6, <1>10 DEF Shared
  <2>1. CASE Tied(Parent(e))
    <3>1. data[e].memory = PartOfParent(e)
        BY <1>6, <2>1 DEF Sharing, Shared
    <3> QED BY <1>12, <3>1
  <2>2. CASE ~Tied(Parent(e))
    <3>1. c.fn = "set_memory" /\ Parent(e) = Root /\ Static
        BY <1>7, <1>8, <1>10, <2>2 DEF Tied
    <3> QED BY <1>5, <3>1 DEF Hands, Sets
  <2> QED BY <2>1, <2>2
<1> QED BY <1>13, <1>14, <1>15, <1>16, <1>17, <1>18 DEF Sharing

\* Partitioners have no memory.
LEMMA SharingPartitioner ==
    ASSUME Tree, Sharing, NewPartitioner \/ SetNext, data' = data
    PROVE  Sharing'
<1>1. /\ calls # <<>> /\ calls' = <<>> \o Tail(calls)
      /\ program' = program /\ shape' = shape /\ step' = step
    BY DEF NewPartitioner, SetNext, Calling, Makes
<1>2. /\ Tree' /\ Pending' = {} /\ Head(calls).fn \in {"GPartitioner", "set_next"}
    BY PartitionerStep
<1>3. Rest \subseteq Pending'
  <2>1. CallsOK /\ <<>> \in Seq(CallTypes)
      BY OneCall DEF Tree
  <2>2. Pending' = Members(<<>>) \cup Rest
      BY <1>1, <2>1, PendingAfter DEF Rest
  <2> QED BY <2>2
<1>4. \A e : ~Hands(Head(calls), e)
    BY <1>2 DEF Hands, Sets
<1> HIDE DEF Pending
<1> QED BY <1>1, <1>2, <1>3, <1>4, SharingKept

\* Nothing changes when nothing is called.
LEMMA SharingStutter ==
    ASSUME Tree, Sharing, UNCHANGED vars
    PROVE  Sharing'
<1>1. /\ program' = program /\ shape' = shape /\ step' = step
      /\ calls' = calls /\ data' = data
    BY DEF vars
<1>2. Pending' = Pending /\ Rest' = Rest
    BY <1>1 DEF Pending, Rest, Members
<1>3. /\ Static' <=> Static
      /\ \A s : Has(s)' <=> Has(s)
      /\ SetByProgram' <=> SetByProgram
      /\ NoAllocator' <=> NoAllocator
      /\ \A e : Tied(e)' <=> Tied(e)
    BY <1>1, SameStatement
<1>4. /\ Root' = Root /\ \A e : Parent(e)' = Parent(e) /\ Level(e)' = Level(e)
      /\ \A c, e : Hands(c, e)' <=> Hands(c, e)
    BY <1>3 DEF Root, Parent, Level, Hands, Sets
<1>5. \A e : PartOfParent(e)' = PartOfParent(e)
    BY <1>1, SamePart
<1> HIDE DEF Pending, Rest
<1>6. SetLast' /\ NothingYet' /\ Relinking' /\ Uncut'
    BY <1>1, <1>2, <1>3, <1>4 DEF Sharing, SetLast, NothingYet, Relinking, Uncut
<1>7. RootFirst' /\ OneValue' /\ SetAbove'
    BY <1>1, <1>2, <1>3, <1>4 DEF Sharing, RootFirst, OneValue, SetAbove, Sets
<1>8. Handing' /\ Shared'
    BY <1>1, <1>2, <1>3, <1>4, <1>5 DEF Sharing, Handing, Shared
<1> QED BY <1>6, <1>7, <1>8 DEF Sharing

\* Every step leaves the memory shared out, or about to be.
LEMMA SharingNext ==
    ASSUME Tree, Allocated, Sharing, [Next]_vars
    PROVE  Sharing'
<1>1. CASE Statement
    BY <1>1, SharingStatement
<1>2. CASE (NewPartitioner \/ SetNext) /\ UNCHANGED <<data, content>>
    BY <1>2, SharingPartitioner
<1>3. CASE calls # <<>> /\ Body(Head(calls).d) /\ UNCHANGED partitioners
  <2>1. Head(calls).d \in Nodes
      BY <1>3, HeadFacts
  <2> QED BY <1>3, <2>1, SharingBody
<1>4. CASE UNCHANGED vars
    BY <1>4, SharingStutter
<1> QED BY <1>1, <1>2, <1>3, <1>4 DEF Next, Terminated


\* A row of c parts of s elements each: every element of the row is in one of them.
LEMMA Parts ==
    ASSUME NEW c \in Pos, NEW s \in Pos
    PROVE  /\ \A k \in 0..c - 1, n \in 0..s - 1 : k * s + n \in 0..c * s - 1
           /\ \A x \in 0..c * s - 1 : \E k \in 0..c - 1, n \in 0..s - 1 : x = k * s + n
           /\ \A k, l \in 0..c - 1, n, o \in 0..s - 1 : k * s + n = l * s + o => k = l
<1>1. ASSUME NEW k \in Nat, NEW l \in Nat, k < l
      PROVE  k * s + s <= l * s /\ k * s \in Nat /\ l * s \in Nat
  <2>1. PICK j \in Nat : l = (k + 1) + j
    <3>1. l - (k + 1) \in Nat /\ l = (k + 1) + (l - (k + 1))
        BY <1>1
    <3> QED BY <3>1
  <2>2. l * s = (k * s + s) + j * s
      BY <2>1, SMT DEF Pos
  <2>3. k * s \in Nat /\ j * s \in Nat /\ s \in Nat
      BY <2>1, SMT DEF Pos
  <2> DEFINE p == k * s
             q == j * s
             r == l * s
  <2>4. r = (p + s) + q /\ p \in Nat /\ q \in Nat /\ s \in Nat
      BY <2>2, <2>3
  <2> HIDE DEF p, q, r
  <2>5. p + s <= r /\ p \in Nat /\ r \in Nat
      BY <2>4
  <2> QED BY <2>5 DEF p, r
<1>2. ASSUME NEW k \in 0..c - 1, NEW n \in 0..s - 1
      PROVE  k * s + n \in 0..c * s - 1
  <2>1. k * s + s <= c * s /\ k * s \in Nat /\ c * s \in Nat
      BY <1>1 DEF Pos
  <2> DEFINE p == k * s
             q == c * s
  <2>2. p + s <= q /\ p \in Nat /\ q \in Nat /\ s \in Nat
      BY <2>1 DEF Pos
  <2> HIDE DEF p, q
  <2>3. p + n \in 0..q - 1
      BY <2>2
  <2> QED BY <2>3 DEF p, q
<1>3. ASSUME NEW x \in 0..c * s - 1
      PROVE  \E k \in 0..c - 1, n \in 0..s - 1 : x = k * s + n
  <2> DEFINE k == x \div s
             n == x % s
  <2>1. c * s \in Nat
      BY SMT DEF Pos
  <2>2. x \in Nat /\ x < c * s
      BY <2>1
  <2>3. k \in Nat /\ n \in Nat /\ n < s /\ x = s * k + n
      BY <2>2, SMT DEF Pos
  <2> HIDE DEF k, n
  <2>4. k * s = s * k
      BY <2>3, SMT DEF Pos
  <2>5. k < c
    <3> SUFFICES ASSUME c <= k PROVE FALSE
        BY <2>3, SMT DEF Pos
    <3>1. c * s <= k * s
      <4>1. CASE c = k
          BY <4>1, <2>1
      <4>2. CASE c < k
        <5>1. c * s + s <= k * s /\ c * s \in Nat /\ k * s \in Nat
            BY <1>1, <2>3, <4>2 DEF Pos
        <5> QED BY <5>1 DEF Pos
      <4> QED BY <2>3, <4>1, <4>2 DEF Pos
    <3> DEFINE p == k * s
               q == c * s
    <3>2. q <= p /\ x = p + n /\ x < q /\ n \in Nat /\ q \in Nat
        BY <2>1, <2>2, <2>3, <2>4, <3>1
    <3>3. p \in Nat
        BY <2>3, SMT DEF Pos
    <3> HIDE DEF p, q
    <3> QED BY <3>2, <3>3
  <2>6. k \in 0..c - 1 /\ n \in 0..s - 1 /\ x = k * s + n
      BY <2>3, <2>4, <2>5 DEF Pos
  <2> QED BY <2>6
<1>4. ASSUME NEW k \in 0..c - 1, NEW l \in 0..c - 1, NEW n \in 0..s - 1, NEW o \in 0..s - 1,
             k * s + n = l * s + o, k < l
      PROVE  FALSE
  <2>1. k * s + s <= l * s /\ k * s \in Nat /\ l * s \in Nat
      BY <1>1, <1>4
  <2> DEFINE p == k * s
             q == l * s
  <2>2. p + s <= q /\ p \in Nat /\ q \in Nat /\ p + n = q + o /\ s \in Nat
      BY <1>4, <2>1 DEF Pos
  <2> HIDE DEF p, q
  <2> QED BY <2>2
<1>5. ASSUME NEW k \in 0..c - 1, NEW l \in 0..c - 1, NEW n \in 0..s - 1, NEW o \in 0..s - 1,
             k * s + n = l * s + o
      PROVE  k = l
  <2>1. ~(k < l) /\ ~(l < k)
      BY <1>4, <1>5
  <2> QED BY <2>1
<1> QED BY <1>2, <1>3, <1>5

\* The offsets that are added to an address add up.
LEMMA PlusFacts ==
    ASSUME NEW m \in Addresses
    PROVE  /\ \A a \in Nat : Plus(m, a) = [buf |-> m.buf, ofs |-> m.ofs + a]
           /\ \A a, b \in Nat : Plus(Plus(m, a), b) = Plus(m, a + b)
           /\ \A a, b \in Nat : Plus(m, a) = Plus(m, b) => a = b
<1> DEFINE u == m.buf
           o == m.ofs
<1>1. m = [buf |-> u, ofs |-> o] /\ o \in Nat
    BY DEF Addresses
<1> HIDE DEF u, o
<1>2. \A x, a : [[buf |-> u, ofs |-> x] EXCEPT !.ofs = @ + a] = [buf |-> u, ofs |-> x + a]
    OBVIOUS
<1>3. \A x, a : Plus([buf |-> u, ofs |-> x], a) = [buf |-> u, ofs |-> x + a]
    BY <1>2 DEF Plus
<1>4. \A a \in Nat : Plus(m, a) = [buf |-> u, ofs |-> o + a]
    BY <1>1, <1>3
<1>5. \A a, b \in Nat : Plus(Plus(m, a), b) = Plus(m, a + b)
  <2> SUFFICES ASSUME NEW a \in Nat, NEW b \in Nat
               PROVE  Plus(Plus(m, a), b) = Plus(m, a + b)
      OBVIOUS
  <2>1. Plus(Plus(m, a), b) = [buf |-> u, ofs |-> (o + a) + b]
      BY <1>3, <1>4
  <2>2. (o + a) + b = o + (a + b) /\ a + b \in Nat
      BY <1>1
  <2> QED BY <1>4, <2>1, <2>2
<1>6. \A a, b \in Nat : Plus(m, a) = Plus(m, b) => a = b
  <2> SUFFICES ASSUME NEW a \in Nat, NEW b \in Nat, Plus(m, a) = Plus(m, b)
               PROVE  a = b
      OBVIOUS
  <2>1. [buf |-> u, ofs |-> o + a].ofs = [buf |-> u, ofs |-> o + b].ofs
      BY <1>4
  <2>2. o + a = o + b
      BY <2>1
  <2> QED BY <1>1, <2>2
<1> QED BY <1>4, <1>5, <1>6 DEF u, o


\* Between statements every block of a tied data has its part.
LEMMA PartsAtRest ==
    ASSUME Tree, Sharing, AtRest, NEW d \in DOMAIN data, Tied(d),
           NEW k \in 0..data[d].child_cnt - 1
    PROVE  /\ Child(d, k) \in DOMAIN data
           /\ data[Child(d, k)].memory = PartOf(data[d].memory, Level(d), k)
<1>1. Pending = {}
    BY NoMembers DEF AtRest, Pending
<1>2. Made(Child(d, k)) /\ d \in Nodes /\ data[d].child_cnt \in Nat
    BY TreeFacts
<1>3. k \in Nat
    BY <1>2
<1>4. Child(d, k) # Root /\ Parent(Child(d, k)) = d /\ Last(Child(d, k)) = k
    BY <1>2, <1>3, ChildFacts
<1>5. Child(d, k) \in DOMAIN data
    BY <1>1, <1>2 DEF Made, Coming
<1>6. data[Child(d, k)].memory = PartOfParent(Child(d, k))
    BY <1>1, <1>4, <1>5 DEF Sharing, Shared
<1> QED BY <1>4, <1>5, <1>6 DEF PartOfParent

\* A data above the kernels' level that has memory shares it out.
LEMMA TiedAbove ==
    ASSUME Tree, Sharing, NEW d \in DOMAIN data, Level(d) < KernelLevel,
           data[d].memory # Null, d = Root /\ Has("DT") => SetByProgram
    PROVE  Tied(d)
<1> SUFFICES ASSUME ~Static, ~Has("SG")
             PROVE  FALSE
    BY DEF Tied
<1>1. program.scheds \subseteq {"DT"}
    BY ProgramsAssumption DEF Tree, Static, Has
<1>2. ~SetByProgram
  <2> SUFFICES ASSUME SetByProgram
               PROVE  FALSE
      OBVIOUS
  <2>1. PICK i \in 1..step : Statements[i].fn = "set_memory"
      BY DEF SetByProgram
  <2>2. i \in 1..Len(Statements)
    <3>1. step \in 0..Len(Statements) /\ Len(Statements) \in PartitionStep..7
        BY StatementFacts DEF Tree, Phase
    <3>2. PartitionStep \in Nat
        BY StatementFacts DEF Tree, PartitionStep
    <3> QED BY <3>1, <3>2
  <2> QED BY <2>1, <2>2, SetByStatement DEF Tree
<1>3. Has("DT")
  <2> SUFFICES ASSUME ~Has("DT")
               PROVE  FALSE
      OBVIOUS
  <2>1. NoAllocator
      BY <1>2 DEF NoAllocator
  <2> QED BY <2>1 DEF Sharing, NothingYet
<1>4. d # Root
    BY <1>2, <1>3
<1>5. Level(d) \in 1..2
    BY <1>4, TreeFacts
<1>6. Cardinality(program.scheds) = 2
    BY <1>5 DEF KernelLevel
<1>7. IsFiniteSet({"DT"}) /\ Cardinality({"DT"}) = 1
    BY FS_Singleton
<1>8. Cardinality(program.scheds) <= Cardinality({"DT"})
    BY <1>1, <1>7, FS_Subset
<1> QED BY <1>6, <1>7, <1>8

\* Between statements the blocks of a data that has memory share it out between them,
\* all of it and no two of them an element: the parts that SuperGlue and set_memory
\* compute are the same, and no call hands down memory that has moved since.
THEOREM MemoryTiled == Spec => []BlocksTileMemory
<1> DEFINE Inv == Tree /\ Allocated /\ Sharing
<1>1. Init => Inv
  <2> SUFFICES ASSUME Init
               PROVE  Inv
      OBVIOUS
  <2>1. Tree /\ Allocated /\ Pending = {} /\ DOMAIN data = {}
      BY TreeInit
  <2> HIDE DEF Pending
  <2>2. ~SetByProgram
      BY DEF Init, SetByProgram
  <2> QED
      BY <2>1, <2>2 DEF Sharing, SetLast, NothingYet, Relinking, Uncut, RootFirst, OneValue,
                        SetAbove, Handing, Shared
<1>2. Inv /\ [Next]_vars => Inv'
    BY TreeNext, SharingNext
<1>3. Inv => BlocksTileMemory
  <2> SUFFICES ASSUME Inv, AtRest, NEW d \in DOMAIN data,
                      data[d].child_cnt > 0, Level(d) < KernelLevel,
                      data[d].memory # Null, d = Root /\ Has("DT") => SetByProgram
               PROVE  /\ UNION {Cells(c) : c \in Children(d)} = Cells(d)
                      /\ \A b, c \in Children(d) : b # c => Cells(b) \cap Cells(c) = {}
      BY DEF BlocksTileMemory
  <2> DEFINE n == data[d].child_cnt
             l == Level(d)
             s == SizeAt(l + 1)
             m == data[d].memory
  <2>1. Tied(d)
      BY TiedAbove
  <2>2. \A k \in 0..n - 1 :
           Child(d, k) \in DOMAIN data /\ data[Child(d, k)].memory = Plus(m, k * s)
      BY <2>1, PartsAtRest DEF PartOf
  <2>3. /\ n = Count(l + 1) /\ n \in Pos /\ l + 1 \in 1..2 /\ l \in 0..1
        /\ Size(d) = SizeAt(l) /\ d \in Nodes
      BY TreeFacts
  <2>4. shape \in Shapes
      BY DEF Tree
  <2>5. s \in Pos /\ n * s = SizeAt(l)
    <3>1. (l + 1) - 1 = l /\ l + 1 \in 0..2
        BY <2>3
    <3> QED BY <2>3, <2>4, <3>1, ShapeFacts
  <2>6. m \in Addresses
    <3>1. m \in Place(l)
        BY TreeFacts
    <3> QED BY <2>4, <3>1, PlaceFacts
  <2>7. \A k \in 0..n - 1 : Size(Child(d, k)) = s /\ k \in Nat
    <3> SUFFICES ASSUME NEW k \in 0..n - 1
                 PROVE  Size(Child(d, k)) = s /\ k \in Nat
        OBVIOUS
    <3>1. k \in Nat
        BY <2>3 DEF Pos
    <3>2. Level(Child(d, k)) = l + 1
        BY <2>3, <3>1, ChildFacts
    <3>3. Child(d, k) \in DOMAIN data
        BY <2>2
    <3> QED BY <3>1, <3>2, <3>3, TreeFacts
  <2> HIDE DEF n, l, s, m
  <2>8. Cells(d) = {Plus(m, x) : x \in 0..n * s - 1}
      BY <2>3, <2>5 DEF Cells, CellsFrom, m
  <2>9. \A k \in 0..n - 1 : Cells(Child(d, k)) = {Plus(m, k * s + x) : x \in 0..s - 1}
    <3> SUFFICES ASSUME NEW k \in 0..n - 1
                 PROVE  Cells(Child(d, k)) = {Plus(m, k * s + x) : x \in 0..s - 1}
        OBVIOUS
    <3>1. Cells(Child(d, k)) = {Plus(Plus(m, k * s), x) : x \in 0..s - 1}
        BY <2>2, <2>7 DEF Cells, CellsFrom
    <3>2. k * s \in Nat
        BY <2>5, <2>7, SMT DEF Pos
    <3>3. \A x \in 0..s - 1 : Plus(Plus(m, k * s), x) = Plus(m, k * s + x)
      <4>1. \A x \in 0..s - 1 : x \in Nat
          BY <2>5 DEF Pos
      <4> QED BY <2>6, <3>2, <4>1, PlusFacts
    <3> QED BY <3>1, <3>3
  <2>10. Children(d) = {Child(d, k) : k \in 0..n - 1}
      BY DEF Children, n
  <2>11. /\ \A k \in 0..n - 1, x \in 0..s - 1 : k * s + x \in 0..n * s - 1
         /\ \A y \in 0..n * s - 1 : \E k \in 0..n - 1, x \in 0..s - 1 : y = k * s + x
         /\ \A k, j \in 0..n - 1, x, y \in 0..s - 1 : k * s + x = j * s + y => k = j
      BY <2>3, <2>5, Parts
  <2>12. UNION {Cells(c) : c \in Children(d)} = Cells(d)
    <3>1. ASSUME NEW k \in 0..n - 1, NEW a \in Cells(Child(d, k))
          PROVE  a \in Cells(d)
        BY <2>8, <2>9, <2>11, <3>1
    <3>2. ASSUME NEW a \in Cells(d)
          PROVE  \E k \in 0..n - 1 : a \in Cells(Child(d, k))
      <4>1. PICK y \in 0..n * s - 1 : a = Plus(m, y)
          BY <2>8
      <4>2. PICK k \in 0..n - 1, x \in 0..s - 1 : y = k * s + x
          BY <2>11
      <4> QED BY <2>9, <4>1, <4>2
    <3> QED BY <2>10, <3>1, <3>2
  <2>13. ASSUME NEW b \in Children(d), NEW c \in Children(d), NEW a \in Cells(b),
                a \in Cells(c)
         PROVE  b = c
    <3>1. PICK k \in 0..n - 1 : b = Child(d, k)
        BY <2>10
    <3>2. PICK j \in 0..n - 1 : c = Child(d, j)
        BY <2>10
    <3>3. PICK x \in 0..s - 1 : a = Plus(m, k * s + x)
        BY <2>9, <2>13, <3>1
    <3>4. PICK y \in 0..s - 1 : a = Plus(m, j * s + y)
        BY <2>9, <2>13, <3>2
    <3>5. k * s + x \in Nat /\ j * s + y \in Nat
      <4>1. k * s + x \in 0..n * s - 1 /\ j * s + y \in 0..n * s - 1
          BY <2>11
      <4>2. \A z \in Int : \A i \in 0..z : i \in Nat
          OBVIOUS
      <4>3. n * s - 1 \in Int
          BY <2>3, <2>5, SMT DEF Pos
      <4> QED BY <4>1, <4>2, <4>3
    <3>6. k * s + x = j * s + y
        BY <2>6, <3>3, <3>4, <3>5, PlusFacts
    <3>7. k = j
        BY <2>11, <3>6
    <3> QED BY <3>1, <3>2, <3>7
  <2> QED BY <2>12, <2>13
<1> QED BY <1>1, <1>2, <1>3, PTL DEF Spec


(* What the fills write *)

\* The elements at some addresses become what is written, the others stay.
LEMMA WriteFacts ==
    ASSUME NEW cells, Write(cells)
    PROVE  /\ DOMAIN content' = DOMAIN cells \cup DOMAIN content
           /\ \A a \in DOMAIN cells : content'[a] = cells[a]
           /\ \A a \in DOMAIN content \ DOMAIN cells : content'[a] = content[a]
BY DEF Write

\* A line cut into y parts of p elements: the i-th element of part a.
LEMMA LineSplits ==
    ASSUME NEW p \in Pos, NEW a \in Nat, NEW i \in 0..p - 1
    PROVE  a * p + i \in Nat /\ (a * p + i) \div p = a /\ (a * p + i) % p = i
<1> DEFINE n == a * p + i
<1>1. n \in Nat /\ a * p \in Nat
    BY SMT DEF Pos
<1>2. n \div p = a
    BY SMT DEF Pos
<1>3. n % p = i
    BY SMT DEF Pos
<1> QED BY <1>1, <1>2, <1>3

\* The k-th block of a grid of y rows and x columns, numbered down the columns.
LEMMA BlockInGrid ==
    ASSUME NEW y \in Pos, NEW x \in Pos
    PROVE  /\ \A k \in 0..y * x - 1 :
                 /\ k % y \in 0..y - 1 /\ k \div y \in 0..x - 1
                 /\ k = (k \div y) * y + (k % y)
           /\ \A a \in 0..y - 1, b \in 0..x - 1 :
                 /\ b * y + a \in 0..y * x - 1
                 /\ (b * y + a) % y = a /\ (b * y + a) \div y = b
<1>1. x * y = y * x
    BY SMT DEF Pos
<1>2. ASSUME NEW a \in 0..y - 1, NEW b \in 0..x - 1
      PROVE  /\ b * y + a \in 0..y * x - 1
             /\ (b * y + a) % y = a /\ (b * y + a) \div y = b
  <2>1. b * y + a \in 0..x * y - 1
      BY Parts
  <2>2. b \in Nat
      BY DEF Pos
  <2> QED BY <2>1, <2>2, <1>1, LineSplits
<1>3. ASSUME NEW k \in 0..y * x - 1
      PROVE  /\ k % y \in 0..y - 1 /\ k \div y \in 0..x - 1
             /\ k = (k \div y) * y + (k % y)
  <2>1. PICK b \in 0..x - 1, a \in 0..y - 1 : k = b * y + a
      BY <1>1, Parts
  <2> QED BY <2>1, <1>2
<1> QED BY <1>2, <1>3

\* Element (i, j) of the k-th of y * x blocks of p rows and q columns is stored in its
\* place in the block, after the blocks that come before.
LEMMA StoredInBlock ==
    ASSUME NEW y \in Pos, NEW x \in Pos, NEW p \in Pos, NEW q \in Pos,
           NEW k \in 0..y * x - 1, NEW i \in 0..p - 1, NEW j \in 0..q - 1
    PROVE  /\ (k % y) * p + i \in 0..y * p - 1 /\ (k \div y) * q + j \in 0..x * q - 1
           /\ ElementOffset((k % y) * p + i, (k \div y) * q + j, p, q, y) =
                 k * (p * q) + ColumnMajor(i, j, p)
           /\ ColumnMajor(i, j, p) \in 0..p * q - 1
<1>0. PICK a, b : a = k % y /\ b = k \div y
    OBVIOUS
<1>1. a \in 0..y - 1 /\ b \in 0..x - 1 /\ k = b * y + a
    BY <1>0, BlockInGrid
<1>2. a * p + i \in 0..y * p - 1 /\ b * q + j \in 0..x * q - 1
    BY <1>1, Parts
<1>3. a \in Nat /\ b \in Nat /\ i \in Nat /\ j \in Nat
    BY <1>1 DEF Pos
<1>4. /\ (a * p + i) \div p = a /\ (a * p + i) % p = i
      /\ (b * q + j) \div q = b /\ (b * q + j) % q = j
    BY <1>3, LineSplits
<1>5. ElementOffset(a * p + i, b * q + j, p, q, y) = b * p * q * y + a * p * q + j * p + i
  <2> DEFINE r == a * p + i
             c == b * q + j
  <2>1. ElementOffset(r, c, p, q, y) =
           (c \div q) * p * q * y + (r \div p) * p * q + (c % q) * p + (r % p)
      BY Zenon DEF ElementOffset
  <2>2. r \div p = a /\ r % p = i /\ c \div q = b /\ c % q = j
      BY <1>4
  <2> HIDE DEF r, c
  <2>3. ElementOffset(r, c, p, q, y) = b * p * q * y + a * p * q + j * p + i
      BY <2>1, <2>2, Zenon
  <2> QED BY <2>3 DEF r, c
<1>6. b * p * q * y + a * p * q = k * (p * q)
    BY <1>1, <1>3, SMT DEF Pos
<1>7. j * p + i \in 0..q * p - 1 /\ q * p = p * q
    BY Parts, SMT DEF Pos
<1>8. b * p * q * y + a * p * q + j * p + i = k * (p * q) + (j * p + i)
  <2>1. b * p * q * y \in Nat /\ a * p * q \in Nat /\ j * p \in Nat /\ i \in Nat
      BY <1>3, SMT DEF Pos
  <2> DEFINE u == b * p * q * y
             v == a * p * q
             w == j * p
             z == k * (p * q)
  <2>2. u \in Nat /\ v \in Nat /\ w \in Nat /\ i \in Nat /\ u + v = z
      BY <2>1, <1>6
  <2> HIDE DEF u, v, w, z
  <2>3. u + v + w + i = z + (w + i)
      BY <2>2
  <2> QED BY <2>3 DEF u, v, w, z
<1>9. ColumnMajor(i, j, p) = j * p + i
    BY DEF ColumnMajor
<1> QED BY <1>0, <1>2, <1>5, <1>7, <1>8, <1>9

\* Where a block begins: the whole at its first row and column, a block of the whole
\* below the blocks above it and beside those to its left.
LEMMA OriginFacts ==
    ASSUME Tree, NEW d \in DOMAIN data
    PROVE  /\ Level(d) = 0 => Origin(d) = <<0, 0>>
           /\ Level(d) = 1 => Origin(d) = <<(d[1] % shape.cut[1][1]) * RowsAt(1),
                                            (d[1] \div shape.cut[1][1]) * ColsAt(1)>>
           /\ Origin(d)[1] \in Nat /\ Origin(d)[2] \in Nat
<1>0. PICK n : n = Len(d)
    OBVIOUS
<1> DEFINE b(l) == SubSeq(d, 1, l)
           i(l) == d[l] % shape.cut[l][1]
           j(l) == d[l] \div shape.cut[l][1]
           r(l) == data[b(l)].rows
           c(l) == data[b(l)].cols
           G(l, f) == IF l = 0 THEN <<0, 0>>
                      ELSE <<f[1] + Coordination(d[l], shape.cut[l][1])[1] * r(l),
                             f[2] + Coordination(d[l], shape.cut[l][1])[2] * c(l)>>
           z == <<0, 0>>
           IsFrom(f) == f = [l \in 0..n |-> G(l, f[l - 1])]
<1>1. /\ d \in Nodes /\ n \in 0..2 /\ d \in Seq(Nat) /\ shape \in Shapes
      /\ Level(d) = n /\ \A l \in 1..n : d[l] \in Nat
  <2>1. d \in Nodes /\ Level(d) \in 0..2
      BY TreeFacts
  <2> QED BY <2>1, <1>0 DEF Level, Nodes, Tree
<1>2. Origin(d) = (CHOOSE f : IsFrom(f))[n]
    BY <1>0 DEF Origin
<1>3. /\ \A f : G(0, f) = z
      /\ \A f : G(1, f) = <<f[1] + i(1) * r(1), f[2] + j(1) * c(1)>>
      /\ \A f : G(2, f) = <<f[1] + i(2) * r(2), f[2] + j(2) * c(2)>>
    BY DEF Coordination
<1>4. ASSUME NEW l \in 1..n
      PROVE  b(l) \in DOMAIN data /\ r(l) \in Nat /\ c(l) \in Nat /\ i(l) \in Nat /\ j(l) \in Nat
  <2>1. n \in 1..2 /\ l \in 1..2
    <3>1. \A m \in 0..2 : \A k \in 1..m : m \in 1..2 /\ k \in 1..2
        OBVIOUS
    <3> QED BY <3>1, <1>1
  <2>2. b(l) \in DOMAIN data
    <3>1. CASE l = n
      <4>1. SubSeq(d, 1, Len(d)) = d
          BY <1>1
      <4> QED BY <3>1, <4>1, <1>0
    <3>2. CASE l = n - 1
      <4>1. d # Root
          BY <2>1, <1>0 DEF Root
      <4>2. Parent(d) \in DOMAIN data
          BY <4>1, TreeFacts
      <4> QED BY <3>2, <4>2, <1>0 DEF Parent, Front
    <3>3. \A m \in 1..2 : \A k \in 1..m : k = m \/ k = m - 1
        OBVIOUS
    <3> QED BY <2>1, <3>1, <3>2, <3>3
  <2>3. data[b(l)] \in Datum
      BY <2>2, TreeFacts
  <2>4. r(l) \in Nat /\ c(l) \in Nat
      BY <2>3 DEF Datum
  <2>5. d[l] \in Nat /\ shape.cut[l][1] \in Pos
      BY <1>1, <2>1, ShapeFacts
  <2>6. \A x \in Nat, y \in Pos : x % y \in Nat /\ x \div y \in Nat
      BY DEF Pos
  <2> QED BY <2>2, <2>4, <2>5, <2>6
<1>5. n = 1 => i(1) * r(1) = (d[1] % shape.cut[1][1]) * RowsAt(1)
               /\ j(1) * c(1) = (d[1] \div shape.cut[1][1]) * ColsAt(1)
  <2> SUFFICES ASSUME n = 1
               PROVE  r(1) = RowsAt(1) /\ c(1) = ColsAt(1)
      OBVIOUS
  <2>1. SubSeq(d, 1, 1) = d
      BY <1>0, <1>1
  <2>2. data[d].rows = RowsAt(1) /\ data[d].cols = ColsAt(1)
      BY <1>1, TreeFacts DEF DatumOK
  <2> QED BY <2>1, <2>2
<1> HIDE DEF G, i, j, r, c, b
<1> DEFINE g1 == G(1, z)
           g2 == G(2, g1)
           H == [l \in 0..n |-> IF l = 0 THEN z ELSE IF l = 1 THEN g1 ELSE g2]
<1>6. IsFrom(H)
  <2> HIDE DEF z
  <2>1. ASSUME NEW l \in 0..n
        PROVE  H[l] = G(l, H[l - 1])
    <3>1. l = 0 \/ l = 1 \/ l = 2
        BY <1>1
    <3>2. CASE l = 0
        BY <3>2, <1>3
    <3>3. CASE l = 1
        BY <3>3, <1>1
    <3>4. CASE l = 2
        BY <3>4, <1>1
    <3> QED BY <3>1, <3>2, <3>3, <3>4
  <2>2. H = [l \in 0..n |-> H[l]]
      OBVIOUS
  <2> QED BY <2>1, <2>2
<1>7. PICK f : IsFrom(f) /\ Origin(d) = f[n]
    BY <1>2, <1>6
<1>8. f[0] = z /\ (n \in 1..2 => f[1] = G(1, z)) /\ (n = 2 => f[2] = G(2, f[1]))
  <2> HIDE DEF z
  <2>1. \A l \in 0..n : f[l] = G(l, f[l - 1])
      BY <1>7
  <2>2. 0 \in 0..n /\ (n \in 1..2 => 1 \in 0..n) /\ (n = 2 => 2 \in 0..n)
      BY <1>1
  <2>3. f[0] = z
      BY <2>1, <2>2, <1>3
  <2>4. 1 - 1 = 0 /\ 2 - 1 = 1
      OBVIOUS
  <2> QED BY <2>1, <2>2, <2>3, <2>4
<1>9. \A x, y \in Nat : x * y \in Nat
    BY SMT
<1>10. n \in 1..2 => f[1] = <<i(1) * r(1), j(1) * c(1)>> /\ f[1][1] \in Nat /\ f[1][2] \in Nat
  <2> SUFFICES ASSUME n \in 1..2
               PROVE  f[1] = <<i(1) * r(1), j(1) * c(1)>> /\ f[1][1] \in Nat /\ f[1][2] \in Nat
      OBVIOUS
  <2>1. i(1) * r(1) \in Nat /\ j(1) * c(1) \in Nat
    <3>1. 1 \in 1..n
        BY <1>1
    <3>2. i(1) \in Nat /\ r(1) \in Nat /\ j(1) \in Nat /\ c(1) \in Nat
        BY <3>1, <1>4
    <3> QED BY <3>2, <1>9
  <2>2. f[1] = <<z[1] + i(1) * r(1), z[2] + j(1) * c(1)>>
      BY <1>3, <1>8
  <2> QED BY <2>1, <2>2
<1>11. n = 2 => f[2][1] \in Nat /\ f[2][2] \in Nat
  <2> SUFFICES ASSUME n = 2
               PROVE  f[2][1] \in Nat /\ f[2][2] \in Nat
      OBVIOUS
  <2>1. i(2) * r(2) \in Nat /\ j(2) * c(2) \in Nat
    <3>1. 2 \in 1..n
        BY <1>1
    <3>2. i(2) \in Nat /\ r(2) \in Nat /\ j(2) \in Nat /\ c(2) \in Nat
        BY <3>1, <1>4
    <3> QED BY <3>2, <1>9
  <2>2. f[2] = <<f[1][1] + i(2) * r(2), f[1][2] + j(2) * c(2)>>
      BY <1>3, <1>8
  <2>3. f[1][1] \in Nat /\ f[1][2] \in Nat
      BY <1>10
  <2> QED BY <2>1, <2>2, <2>3
<1>12. n = 0 \/ n = 1 \/ n = 2
    BY <1>1
<1>13. CASE n = 0
    BY <1>13, <1>1, <1>7, <1>8
<1>14. CASE n = 1
  <2>1. Origin(d) = <<i(1) * r(1), j(1) * c(1)>> /\ f[1][1] \in Nat /\ f[1][2] \in Nat
      BY <1>14, <1>7, <1>10
  <2>2. Origin(d) = f[1] /\ Level(d) = 1
      BY <1>14, <1>1, <1>7
  <2> QED BY <2>1, <2>2, <1>5, <1>14
<1>15. CASE n = 2
    BY <1>15, <1>1, <1>7, <1>11
<1> QED BY <1>12, <1>13, <1>14, <1>15


(* What is written, and where *)

\* An address in the memory that SuperGlue makes for the whole, in the dynamic variant.
FromSG(a) == ~Static /\ Has("SG") /\ a.buf = <<"SG">>
\* The whole has been cut, or is going to be.
RootCut ==
    step >= PartitionStep =>
        /\ Root \in DOMAIN data
        /\ \/ data[Root].partitioner # NoPartitioner
           \/ \E c \in Pending : c.fn = "set_partition" /\ c.d = Root
\* Unless the program sets its memory, the whole has none but what SuperGlue makes.
RootBare ==
    ~SetByProgram =>
        /\ Root \in DOMAIN data => data[Root].memory = Null \/ FromSG(data[Root].memory)
        /\ \A c \in Pending : Sets(c, Root) => FromSG(c.m)
\* DuctTeip's blocks have memory of their own, or will be given it.
Linked ==
    ~Static /\ Has("DT") /\ ~Linking =>
        /\ \A c \in Pending : c.fn = "set_memory" /\ Level(c.d) = 1 => c.m.buf # <<"SG">>
        /\ \A e \in DOMAIN data : Level(e) = 1 =>
              data[e].memory.buf # <<"SG">> \/ \E c \in Pending : Sets(c, e)
\* Without memory of the program's nothing is written but in SuperGlue's.
Written ==
    program.fill.kind # "with" /\ ~SetByProgram => \A a \in DOMAIN content : FromSG(a)
\* The fills that write element by element write through the whole.
RootFills ==
    \A c \in Pending : c.fn = "fill" => program.fill.kind = "with" \/ c.d = Root

Placing == RootCut /\ RootBare /\ Linked /\ Written /\ RootFills

\* The last statement of the program is the fill.
FillCalled == step = Len(Statements) /\ program.fill.kind # "none"
\* A call that ends in d being filled.
Fills(c, d) == c.d = d \/ c.d = Root \/ (d # Root /\ c.d = Parent(d))
ByElement == program.fill.kind \notin {"with", "hilbert"}
OnlyFills == FillCalled => \A c \in Pending : c.fn = "fill"
FilledAll ==
    FillCalled /\ program.fill.kind = "with" =>
        \A d \in DOMAIN data : data[d].memory # Null =>
            \/ \A a \in Cells(d) : a \in DOMAIN content /\ content[a] = program.fill.start
            \/ \E c \in Pending : Fills(c, d)
\* Element e of the whole is in its place.
InPlace(e) ==
    LET a == Plus(data[Root].memory, StoredAt(e[1], e[2])) IN
    a \in DOMAIN content /\ content[a] = Wanted(e[1], e[2])
FilledEach ==
    FillCalled /\ ByElement =>
        data[Root].memory = Null \/ Pending # {} \/ \A e \in Elements : InPlace(e)

Filled == OnlyFills /\ FilledAll /\ FilledEach

\* A fill by elements calls nothing, the other one fills the children.
LEMMA FillMakes ==
    ASSUME Tree, NEW d \in Nodes, Calling("fill", d)
    PROVE  /\ d \in DOMAIN data /\ Head(calls) \in Pending /\ data[d].child_cnt \in Nat
           /\ \A k \in 0..data[d].child_cnt - 1 : Child(d, k) \in DOMAIN data
           /\ FillByElement(d) => Pending' = Rest
           /\ FillWith(d) =>
                 /\ Rest \subseteq Pending'
                 /\ \A k \in 0..data[d].child_cnt - 1 : Fill(Child(d, k)) \in Pending'
<1> DEFINE n == data[d].child_cnt
           fills == [i \in 1..n |-> Fill(Child(d, i - 1))]
<1>1. CallsOK /\ calls # <<>> /\ Head(calls).fn = "fill" /\ Head(calls).d = d
    BY DEF Tree, Calling
<1>2. CallOK(Head(calls)) /\ Head(calls) \in Pending /\ NoneComing
    BY <1>1, HeadFacts
<1>3. d \in DOMAIN data /\ n \in Nat /\ Settled(d)
    BY <1>1, <1>2, TreeFacts DEF CallOK, Settled
<1>4. \A k \in 0..n - 1 : Child(d, k) \in DOMAIN data
    BY <1>3, SettledChildren
<1>5. FillByElement(d) => Pending' = Rest
  <2> SUFFICES ASSUME FillByElement(d)
               PROVE  Pending' = Rest
      OBVIOUS
  <2>1. calls' = <<>> \o Tail(calls) /\ <<>> \in Seq(CallTypes)
      BY DEF FillByElement, Makes
  <2>2. Pending' = Members(<<>>) \cup Rest
      BY <1>1, <2>1, PendingAfter DEF Rest
  <2> QED BY <2>2, NoMembers
<1>6. ASSUME NEW i \in 1..n
      PROVE  fills[i] \in CallTypes
  <2>1. i - 1 \in 0..n - 1
      BY <1>3
  <2>2. Child(d, i - 1) \in Nodes
      BY <2>1, <1>4, TreeFacts
  <2> QED BY <2>2, CallsMade
<1>7. fills \in [1..n -> CallTypes]
    BY <1>6
<1>8. \A k \in 0..n - 1 : k + 1 \in 1..n /\ (k + 1) - 1 = k
    BY <1>3
<1>9. \A k \in 0..n - 1 : fills[k + 1] = Fill(Child(d, k))
    BY <1>8
<1>10. FillWith(d) => calls' = fills \o Tail(calls)
    BY DEF FillWith, Makes
<1> HIDE DEF n, fills
<1>11. fills \in Seq(CallTypes) /\ \A i \in 1..n : fills[i] \in Members(fills)
    BY <1>3, <1>7, FunIsSeq
<1>12. ASSUME FillWith(d)
       PROVE  Pending' = Members(fills) \cup Rest
    BY <1>1, <1>10, <1>11, <1>12, PendingAfter DEF Rest
<1>13. \A k \in 0..n - 1 : Fill(Child(d, k)) \in Members(fills)
    BY <1>8, <1>9, <1>11
<1> HIDE DEF Pending, Rest
<1> QED BY <1>2, <1>3, <1>4, <1>5, <1>12, <1>13 DEF n

(* What a body can change of the cuts, the memory and the elements *)

\* The bodies cut one data or move one data, and only what SuperGlue makes for the whole
\* and the fills have elements written.
Moves ==
    /\ Rest \subseteq Pending' /\ DOMAIN data \subseteq DOMAIN data'
    /\ \A e \in DOMAIN data' \ DOMAIN data : Head(calls).fn = "GData" /\ e = Head(calls).d
    /\ \A e \in DOMAIN data :
          \/ (data')[e].partitioner = data[e].partitioner
          \/ Head(calls).fn = "set_partition" /\ e = Head(calls).d
    /\ Head(calls).fn = "set_partition" => (data')[Head(calls).d].partitioner # NoPartitioner
    /\ \A e \in DOMAIN data' :
          \/ /\ e \in DOMAIN data /\ ~Sets(Head(calls), e)
             /\ (data')[e].memory = data[e].memory
          \/ e \notin DOMAIN data /\ (data')[e].memory = Null
          \/ /\ Head(calls).fn = "set_memory" /\ e = Head(calls).d
             /\ (data')[e].memory = Head(calls).m
    /\ \A c \in Pending' \ Rest :
          /\ Sets(c, Root) => FromSG(c.m)
          /\ c.fn = "fill" => Head(calls).fn = "fill" /\ program.fill.kind = "with"
    /\ \/ content' = content \/ Head(calls).fn = "fill"
       \/ /\ ~Static /\ Has("SG")
          /\ \A a \in DOMAIN content' : a \in DOMAIN content \/ a.buf = <<"SG">>

\* A child is no root.
LEMMA NoRoot ==
    ASSUME NEW d \in Nodes
    PROVE  \A n \in Nat : \A k \in 0..n - 1 : Child(d, k) # Root /\ Level(Child(d, k)) = Level(d) + 1
<1>1. \A k \in Nat : Child(d, k) # Root /\ Level(Child(d, k)) = Level(d) + 1
    BY ChildFacts
<1> QED BY <1>1

\* Every body moves only this.
LEMMA BodyMoves ==
    ASSUME Tree, Allocated, NEW d \in Nodes, Body(d), partitioners' = partitioners
    PROVE  Moves
<1> DEFINE h == Head(calls)
<1>1. /\ calls # <<>> /\ h.d = d
      /\ program' = program /\ shape' = shape /\ step' = step
    BY BodyCall
<1>2. /\ data \in [DOMAIN data -> Datum] /\ CallOK(h) /\ h \in CallTypes
      /\ \A e \in DOMAIN data : data[e].child_cnt \in Nat
  <2>1. \A e \in DOMAIN data : data[e].child_cnt \in Nat
      BY TreeFacts
  <2> QED BY <1>1, <2>1, HeadFacts DEF Tree, DataOK
<1>3. CASE CreateData(d)
  <2>1. h.fn = "GData" /\ content' = content
      BY <1>3 DEF CreateData, Calling
  <2>2. /\ DOMAIN data' = DOMAIN data \cup {d} /\ (data')[d].memory = Null
        /\ d \notin DOMAIN data /\ \A e \in DOMAIN data : e # d /\ (data')[e] = data[e]
        /\ Rest \subseteq Pending'
        /\ \A c \in Pending' : c \in Rest \/ c.fn = "data_created"
    <3> HIDE DEF Pending, Rest
    <3> QED BY <1>3, CreateDataStep
  <2> HIDE DEF Pending, Rest
  <2> QED BY <1>1, <2>1, <2>2 DEF Moves, Sets
<1>4. CASE SetPartition(d)
  <2>1. /\ h.fn = "set_partition" /\ content' = content
        /\ data' = [data EXCEPT ![d].child_cnt = CutInto(h.P), ![d].partitioner = h.P]
      BY <1>4 DEF SetPartition, Calling
  <2>2. /\ DOMAIN data' = DOMAIN data /\ d \in DOMAIN data
        /\ \A e \in DOMAIN data : /\ (data')[e].memory = data[e].memory
                                  /\ e # d => (data')[e] = data[e]
        /\ Rest \subseteq Pending'
        /\ \A c \in Pending' : c \in Rest \/ c.fn \notin {"set_memory", "fill"}
    <3> HIDE DEF Pending, Rest
    <3> QED BY <1>4, SetPartitionStep
  <2>3. (data')[d].partitioner # NoPartitioner
    <3>1. h.P \in {1, 2}
        BY <1>2, <2>1, CallFields
    <3> DEFINE n == CutInto(h.P)
    <3> HIDE DEF n
    <3> DEFINE P == h.P
               r == [data[d] EXCEPT !.child_cnt = n, !.partitioner = P]
    <3>2. data' = [data EXCEPT ![d] = r]
        BY <2>1 DEF n
    <3>3. r.partitioner = P
      <4> HIDE DEF P
      <4> QED BY <1>2, <2>2 DEF Datum
    <3> HIDE DEF r
    <3>4. (data')[d].partitioner = P
        BY <2>2, <3>2, <3>3
    <3> QED BY <3>1, <3>4 DEF NoPartitioner
  <2> HIDE DEF Pending, Rest
  <2> QED BY <1>1, <2>1, <2>2, <2>3 DEF Moves, Sets
<1>5. CASE SetMemoryStatic(d) \/ SetMemoryDynamic(d)
  <2>1. /\ h.fn = "set_memory" /\ content' = content
        /\ data' = [data EXCEPT ![d].memory = h.m]
      BY <1>5 DEF SetMemoryStatic, SetMemoryDynamic, Calling
  <2>2. d \in DOMAIN data
      BY <1>1, <1>2, <2>1 DEF CallOK
  <2>3. /\ DOMAIN data' = DOMAIN data /\ (data')[d].memory = h.m
        /\ \A e \in DOMAIN data : /\ (data')[e].partitioner = data[e].partitioner
                                  /\ e # d => (data')[e].memory = data[e].memory
      BY <1>2, <2>1, <2>2 DEF Datum
  <2>4. /\ Rest \subseteq Pending'
        /\ \A c \in Pending' :
              c \in Rest \/ (c.fn # "fill" /\ (c.fn # "set_memory" \/ c.d # Root))
    <3>1. CASE SetMemoryDynamic(d)
      <4>1. Pending' = Rest
          BY <3>1, QuietBodies
      <4> QED BY <4>1
    <3>2. CASE SetMemoryStatic(d)
      <4> HIDE DEF Pending, Rest
      <4>1. /\ Rest \subseteq Pending'
            /\ \A c \in Pending' :
                  \/ c \in Rest
                  \/ c = MemorySet(d, h.m)
                  \/ c.fn = "set_memory" /\ \E k \in 0..data[d].child_cnt - 1 : c.d = Child(d, k)
          BY <3>2, SetMemoryStaticStep
      <4>2. MemorySet(d, h.m).fn \notin {"set_memory", "fill"}
          BY DEF MemorySet
      <4>3. \A k \in 0..data[d].child_cnt - 1 : Child(d, k) # Root
          BY <1>2, <2>2, NoRoot
      <4> QED BY <4>1, <4>2, <4>3
    <3> QED BY <1>5, <3>1, <3>2
  <2> HIDE DEF Pending, Rest
  <2> QED BY <1>1, <2>1, <2>2, <2>3, <2>4 DEF Moves, Sets
<1>6. CASE SGCreated(d) \/ SGWrapperCreated(d)
  <2>1. h.fn = "data_created" /\ h.by = "SG"
      BY <1>6 DEF SGCreated, SGWrapperCreated, Told, Calling
  <2>2. Has("SG")
      BY <1>2, <2>1 DEF CallOK, Has
  <2>3. /\ Rest \subseteq Pending' /\ d \in DOMAIN data
        /\ \A c \in Pending' :
              \/ c \in Rest
              \/ c.fn = "set_memory" /\ c.d = d
                 /\ (d = Root => ~Static /\ c.m = Buffer(<<"SG">>))
    <3> HIDE DEF Pending, Rest
    <3> QED BY <1>6, SGCreatedStep
  <2>4. /\ DOMAIN data' = DOMAIN data
        /\ \A e \in DOMAIN data : /\ (data')[e].memory = data[e].memory
                                  /\ (data')[e].partitioner = data[e].partitioner
      BY <1>6, <2>3, SameCut
  <2>5. \/ content' = content
        \/ ~Static /\ \A a \in DOMAIN content' : a \in DOMAIN content \/ a.buf = <<"SG">>
    <3> SUFFICES ASSUME content' # content
                 PROVE  ~Static /\ \A a \in DOMAIN content' :
                                      a \in DOMAIN content \/ a.buf = <<"SG">>
        OBVIOUS
    <3> DEFINE b == Buffer(<<"SG">>)
    <3>1. ~Static /\ Write([a \in CellsFrom(b, d) |-> 0])
        BY <1>6 DEF SGCreated, SGWrapperCreated
    <3>2. DOMAIN content' = CellsFrom(b, d) \cup DOMAIN content
        BY <3>1, WriteFacts
    <3>3. \A a \in CellsFrom(b, d) : a.buf = <<"SG">>
        BY DEF CellsFrom, Plus, Buffer
    <3> QED BY <3>1, <3>2, <3>3
  <2>6. \A m : m = Buffer(<<"SG">>) => m.buf = <<"SG">>
      BY DEF Buffer
  <2> HIDE DEF Pending, Rest
  <2>7. \A c \in Pending' \ Rest : c.fn # "fill" /\ (Sets(c, Root) => FromSG(c.m))
      BY <2>2, <2>3, <2>6 DEF Sets, FromSG
  <2> QED BY <1>1, <2>1, <2>2, <2>3, <2>4, <2>5, <2>7 DEF Moves, Sets
<1>7. CASE SGPartitioned(d) \/ SGWrapperPartitioned(d)
  <2>1. h.fn = "data_partitioned" /\ data' = data /\ content' = content
      BY <1>7 DEF SGPartitioned, SGWrapperPartitioned, Told, Calling
  <2>2. /\ Rest \subseteq Pending' /\ d \in DOMAIN data
        /\ \A c \in Pending' :
              \/ c \in Rest
              \/ /\ c.fn = "set_memory"
                 /\ \E k \in 0..data[d].child_cnt - 1 : c.d = Child(d, k)
    <3> HIDE DEF Pending, Rest
    <3> QED BY <1>7, SGPartitionedStep
  <2>3. \A k \in 0..data[d].child_cnt - 1 : Child(d, k) # Root
      BY <1>2, <2>2, NoRoot
  <2> HIDE DEF Pending, Rest
  <2> QED BY <1>1, <2>1, <2>2, <2>3 DEF Moves, Sets
<1>8. CASE DTPartitioned(d) \/ DTWrapperPartitioned(d)
  <2>1. h.fn = "data_partitioned" /\ content' = content
      BY <1>8 DEF DTPartitioned, DTWrapperPartitioned, Told, Calling
  <2>2. /\ Rest \subseteq Pending' /\ d \in DOMAIN data
        /\ \A c \in Pending' :
              \/ c \in Rest
              \/ /\ c.fn = "set_memory"
                 /\ \E k \in 0..data[d].child_cnt - 1 : c.d = Child(d, k)
              \/ c.fn = "set_memory" /\ c.d = d /\ Level(d) = 1
    <3> HIDE DEF Pending, Rest
    <3> QED BY <1>8, DTPartitionedStep
  <2>3. \A k \in 0..data[d].child_cnt - 1 : Child(d, k) # Root
      BY <1>2, <2>2, NoRoot
  <2>4. Level(d) = 1 => d # Root
      BY DEF Level, Root
  <2>5. /\ DOMAIN data' = DOMAIN data
        /\ \A e \in DOMAIN data : /\ (data')[e].memory = data[e].memory
                                  /\ (data')[e].partitioner = data[e].partitioner
      BY <1>8, <2>2, SameCut
  <2> HIDE DEF Pending, Rest
  <2> QED BY <1>1, <2>1, <2>2, <2>3, <2>4, <2>5 DEF Moves, Sets
<1>9. CASE SPUCreated(d) \/ SPUSetMemory(d) \/ DTCreated(d) \/ DTWrapperCreated(d)
  <2>1. h.fn \in {"data_created", "data_set_memory"} /\ content' = content
      BY <1>9 DEF SPUCreated, SPUSetMemory, DTCreated, DTWrapperCreated, NewOneLevelData,
                  Told, Calling
  <2>2. Pending' = Rest /\ d \in DOMAIN data /\ DOMAIN data' = DOMAIN data
      BY <1>9, QuietBodies
  <2>3. \A e \in DOMAIN data : /\ (data')[e].memory = data[e].memory
                               /\ (data')[e].partitioner = data[e].partitioner
      BY <1>9, <2>2, SameMemory
  <2> HIDE DEF Pending, Rest
  <2> QED BY <1>1, <2>1, <2>2, <2>3 DEF Moves, Sets
<1>10. CASE FillWith(d) \/ FillByElement(d)
  <2>1. h.fn = "fill"
      BY <1>10 DEF FillWith, FillByElement, Calling
  <2>2. /\ Rest \subseteq Pending' /\ data' = data
        /\ \A c \in Pending' : c \in Rest \/ c.fn = "fill"
    <3> HIDE DEF Pending, Rest
    <3> QED BY <1>10, FillStep
  <2>3. program.fill.kind = "with" \/ Pending' = Rest
    <3>1. Calling("fill", d)
        BY <1>10 DEF FillWith, FillByElement
    <3> HIDE DEF Pending, Rest
    <3>2. FillByElement(d) => Pending' = Rest
        BY <3>1, FillMakes
    <3> QED BY <1>10, <3>2 DEF FillWith
  <2> HIDE DEF Pending, Rest
  <2> QED BY <1>1, <2>1, <2>2, <2>3 DEF Moves, Sets
<1> QED BY <1>3, <1>4, <1>5, <1>6, <1>7, <1>8, <1>9, <1>10 DEF Body

\* A call of fill is answered by one of the fills.
LEMMA BodyOfFill ==
    ASSUME NEW d, Body(d), Head(calls).fn = "fill"
    PROVE  FillWith(d) \/ FillByElement(d)
<1>1. ~CreateData(d)
    BY DEF CreateData, Calling
<1>2. ~SetPartition(d)
    BY DEF SetPartition, Calling
<1>3. ~SetMemoryStatic(d) /\ ~SetMemoryDynamic(d)
    BY DEF SetMemoryStatic, SetMemoryDynamic, Calling
<1>4. ~SGCreated(d) /\ ~SGWrapperCreated(d)
    BY DEF SGCreated, SGWrapperCreated, Told, Calling
<1>5. ~SGPartitioned(d) /\ ~SGWrapperPartitioned(d)
    BY DEF SGPartitioned, SGWrapperPartitioned, Told, Calling
<1>6. ~DTCreated(d) /\ ~DTWrapperCreated(d)
    BY DEF DTCreated, DTWrapperCreated, Told, Calling
<1>7. ~DTPartitioned(d) /\ ~DTWrapperPartitioned(d)
    BY DEF DTPartitioned, DTWrapperPartitioned, Told, Calling
<1>8. ~SPUCreated(d) /\ ~SPUSetMemory(d)
    BY DEF SPUCreated, SPUSetMemory, Told, Calling
<1> QED BY <1>1, <1>2, <1>3, <1>4, <1>5, <1>6, <1>7, <1>8 DEF Body

\* A fill by elements writes into the memory of its data, if there is some.
LEMMA ElementsWritten ==
    ASSUME NEW d, FillByElement(d)
    PROVE  \/ data[d].memory = Null /\ content' = content
           \/ /\ data[d].memory # Null
              /\ DOMAIN content' =
                    {Plus(data[d].memory, StoredAt(e[1], e[2])) : e \in Elements}
                    \cup DOMAIN content
              /\ \A a \in DOMAIN content' :
                    a \in DOMAIN content \/ a.buf = data[d].memory.buf
<1> SUFFICES ASSUME data[d].memory # Null
             PROVE  /\ DOMAIN content' =
                          {Plus(data[d].memory, StoredAt(e[1], e[2])) : e \in Elements}
                          \cup DOMAIN content
                    /\ \A a \in DOMAIN content' :
                          a \in DOMAIN content \/ a.buf = data[d].memory.buf
    BY DEF FillByElement
<1> DEFINE At(e) == Plus(data[d].memory, StoredAt(e[1], e[2]))
           S == {At(e) : e \in Elements}
           Value(a) == Wanted((CHOOSE e \in Elements : At(e) = a)[1],
                              (CHOOSE e \in Elements : At(e) = a)[2])
<1>1. Write([a \in S |-> Value(a)])
    BY Zenon DEF FillByElement
<1> HIDE DEF Value
<1>2. DOMAIN content' = S \cup DOMAIN content
    BY <1>1 DEF Write
<1>3. \A m, n : Plus(m, n).buf = m.buf
    BY DEF Plus
<1>4. \A a \in S : a.buf = data[d].memory.buf
    BY <1>3
<1> QED BY <1>2, <1>4

\* What only SuperGlue makes is the same throughout a statement.
LEMMA SameFromSG ==
    ASSUME program' = program
    PROVE  \A a : FromSG(a)' <=> FromSG(a)
BY DEF FromSG, Static, Has

\* The bodies leave the whole cut, and bare unless SuperGlue or the program give it
\* memory.
LEMMA RootBody ==
    ASSUME Tree, Allocated, Placing, NEW d \in Nodes, Body(d), partitioners' = partitioners
    PROVE  RootCut' /\ RootBare' /\ Written' /\ RootFills'
<1> DEFINE h == Head(calls)
<1>1. /\ calls # <<>> /\ h.d = d
      /\ program' = program /\ shape' = shape /\ step' = step
    BY BodyCall
<1>2. Moves
    BY BodyMoves
<1>3. Pending = {h} \cup Rest
    BY <1>1, NextAndRest
<1>4. /\ SetByProgram' <=> SetByProgram
      /\ \A a : FromSG(a)' <=> FromSG(a)
      /\ PartitionStep' = PartitionStep /\ Root' = Root
      /\ \A c, e : Sets(c, e)' <=> Sets(c, e)
    BY <1>1, SameStatement, SameFromSG DEF PartitionStep, Root, Sets
<1>5. Written'
  <2> SUFFICES ASSUME program.fill.kind # "with", ~SetByProgram
               PROVE  \A a \in DOMAIN content' : FromSG(a)
      BY <1>1, <1>4 DEF Written
  <2>1. \A a \in DOMAIN content : FromSG(a)
      BY DEF Placing, Written
  <2>2. CASE h.fn # "fill"
      BY <2>1, <2>2, <1>2 DEF Moves, FromSG
  <2>3. CASE h.fn = "fill"
    <3>1. FillByElement(d) /\ d = Root
      <4>1. FillByElement(d)
          BY <2>3, BodyOfFill DEF FillWith
      <4> HIDE DEF Pending
      <4> QED BY <2>3, <4>1, <1>1, <1>3 DEF Placing, RootFills
    <3>2. Root \in DOMAIN data
      <4>1. Calling("fill", d)
          BY <3>1 DEF FillByElement
      <4> QED BY <3>1, <4>1, FillMakes
    <3>3. data[Root].memory = Null \/ FromSG(data[Root].memory)
        BY <3>2 DEF Placing, RootBare
    <3>4. \/ content' = content
          \/ /\ FromSG(data[Root].memory)
             /\ \A a \in DOMAIN content' :
                   a \in DOMAIN content \/ a.buf = data[Root].memory.buf
        BY <3>1, <3>3, ElementsWritten
    <3> QED BY <2>1, <3>4 DEF FromSG
  <2> QED BY <2>2, <2>3
<1> HIDE DEF Pending, Rest
<1>6. RootCut'
  <2> SUFFICES ASSUME step >= PartitionStep
               PROVE  /\ Root \in DOMAIN data'
                      /\ \/ (data')[Root].partitioner # NoPartitioner
                         \/ \E c \in Pending' : c.fn = "set_partition" /\ c.d = Root
      BY <1>1, <1>4 DEF RootCut
  <2>1. /\ Root \in DOMAIN data
        /\ \/ data[Root].partitioner # NoPartitioner
           \/ \E c \in Pending : c.fn = "set_partition" /\ c.d = Root
      BY DEF Placing, RootCut
  <2>2. CASE h.fn = "set_partition" /\ h.d = Root
      BY <2>1, <2>2, <1>2 DEF Moves
  <2>3. CASE ~(h.fn = "set_partition" /\ h.d = Root)
      BY <2>1, <2>3, <1>2, <1>3 DEF Moves
  <2> QED BY <2>2, <2>3
<1>7. RootBare'
  <2> SUFFICES ASSUME ~SetByProgram
               PROVE  /\ Root \in DOMAIN data' =>
                            (data')[Root].memory = Null \/ FromSG((data')[Root].memory)
                      /\ \A c \in Pending' : Sets(c, Root) => FromSG(c.m)
      BY <1>4 DEF RootBare
  <2>1. /\ Root \in DOMAIN data => data[Root].memory = Null \/ FromSG(data[Root].memory)
        /\ \A c \in Pending : Sets(c, Root) => FromSG(c.m)
      BY DEF Placing, RootBare
  <2>2. \A c \in Pending' : Sets(c, Root) => FromSG(c.m)
      BY <2>1, <1>2, <1>3 DEF Moves
  <2>3. Root \in DOMAIN data' =>
           \/ Root \in DOMAIN data /\ (data')[Root].memory = data[Root].memory
           \/ (data')[Root].memory = Null
           \/ Sets(h, Root) /\ (data')[Root].memory = h.m
      BY <1>2 DEF Moves, Sets
  <2> QED BY <2>1, <2>2, <2>3, <1>3
<1>8. RootFills'
  <2>1. \A c \in Pending' : c \in Rest \/ c.fn # "fill" \/ program.fill.kind = "with"
      BY <1>2 DEF Moves
  <2> QED BY <2>1, <1>1, <1>3, <1>4 DEF Placing, RootFills
<1> QED BY <1>5, <1>6, <1>7, <1>8

\* The loop of DuctTeip's data_partitioned sets the memory of every child.
LEMMA LinkCallsAll ==
    ASSUME Tree, NEW d \in DOMAIN data, data[d].partitioner # NoPartitioner,
           NEW held, NEW k \in 0..data[d].child_cnt - 1
    PROVE  \E c \in Members(LinkCalls(d, held)) : Sets(c, Child(d, k))
<1> DEFINE n == data[d].child_cnt
           y == Cut(d)[1]
           x == Cut(d)[2]
           At(i) == GetPart((i - 1) \div x, (i - 1) % x, y)
           Own(j) == IF j \in held THEN Buffer(<<"DT", j>>) ELSE Null
           F == [i \in 1..n |-> SetMemory(Child(d, At(i)), Own(At(i)))]
<1>1. /\ shape \in Shapes /\ n \in Pos
      /\ Level(d) + 1 \in 1..2 /\ n = Count(Level(d) + 1) /\ Cut(d) = shape.cut[Level(d) + 1]
    BY TreeFacts DEF Tree
<1>2. y \in Pos /\ x \in Pos /\ n = y * x
    BY <1>1, ShapeFacts DEF Count
<1>3. LinkCalls(d, held) = F
    BY DEF LinkCalls, OverGrid
<1> DEFINE a == k % y
           b == k \div y
           i == a * x + b + 1
<1>4. a \in 0..y - 1 /\ b \in 0..x - 1 /\ k = b * y + a
  <2> HIDE DEF y, x
  <2>1. k \in 0..y * x - 1
      BY <1>2
  <2> QED BY <2>1, <1>2, BlockInGrid
<1>5. a * x + b \in 0..n - 1 /\ (a * x + b) \div x = a /\ (a * x + b) % x = b
  <2> HIDE DEF y, x, a, b
  <2>1. a * x + b \in 0..y * x - 1
      BY <1>2, <1>4, Parts
  <2>2. a \in Nat
      BY <1>2, <1>4 DEF Pos
  <2> QED BY <2>1, <2>2, <1>2, <1>4, LineSplits
<1>6. i \in 1..n /\ i - 1 = a * x + b
  <2> DEFINE z == a * x + b
  <2>1. z \in 0..n - 1 /\ n \in Nat
      BY <1>1, <1>5 DEF Pos
  <2> HIDE DEF z, n
  <2>2. z + 1 \in 1..n /\ (z + 1) - 1 = z
      BY <2>1
  <2> QED BY <2>2 DEF z
<1>7. At(i) = k
  <2> HIDE DEF y, x, a, b, i
  <2>1. (i - 1) \div x = a /\ (i - 1) % x = b
      BY <1>5, <1>6
  <2> QED BY <2>1, <1>4 DEF GetPart
<1>8. F[i] = SetMemory(Child(d, k), Own(k)) /\ F[i] \in Members(F)
  <2>1. n \in Nat
      BY <1>1 DEF Pos
  <2> HIDE DEF At, Own, n, i
  <2>2. F[i] = SetMemory(Child(d, At(i)), Own(At(i))) /\ Len(F) = n
      BY <1>6, <2>1
  <2> HIDE DEF F
  <2> QED BY <2>2, <1>6, <1>7 DEF Members
<1>9. Sets(SetMemory(Child(d, k), Own(k)), Child(d, k))
    BY DEF Sets, SetMemory
<1> QED BY <1>3, <1>8, <1>9

\* In the dynamic variant, once DuctTeip has been told that the whole has been cut, its
\* blocks get memory of DuctTeip's only.
LEMMA LinkedNow ==
    ASSUME Tree, ~Static, NEW d \in Nodes, d = Root, partitioners' = partitioners,
           DTWrapperPartitioned(d)
    PROVE  /\ \A c \in Pending' : c.fn = "set_memory" => c.m.buf # <<"SG">>
           /\ \A e \in DOMAIN data' : Level(e) = 1 => \E c \in Pending' : Sets(c, e)
<1>1. /\ calls # <<>> /\ Head(calls).fn = "data_partitioned"
      /\ LinkParts(d, 0..data[d].child_cnt - 1)
    BY DEF DTWrapperPartitioned, Told, Calling
<1>2. /\ d \in DOMAIN data /\ NoneComing /\ data[d].partitioner # NoPartitioner
      /\ DOMAIN data' = DOMAIN data
      /\ \A c \in Pending' :
            \/ c \in Rest
            \/ c.fn = "set_memory" /\ \E k \in 0..data[d].child_cnt - 1 :
                  c.m = Null \/ c.m = Buffer(<<"DT", k>>)
            \/ Level(d) = 1
  <2> HIDE DEF Pending, Rest
  <2> QED BY DTPartitionedStep
<1>3. Level(d) # 1
    BY DEF Level, Root
<1>4. \A c \in Rest : c.fn # "set_memory"
  <2>1. Pending = {Head(calls)} \cup Rest
      BY <1>1, NextAndRest
  <2>2. \A c \in Pending : c.fn # "set_memory"
      BY <1>1, HeadFacts
  <2> QED BY <2>1, <2>2
<1>5. /\ Null.buf # <<"SG">>
      /\ \A k : Buffer(<<"DT", k>>).buf # <<"SG">>
    BY DEF Null, Buffer
<1>6. \A c \in Pending' : c.fn = "set_memory" => c.m.buf # <<"SG">>
  <2> HIDE DEF Pending, Rest
  <2> QED BY <1>2, <1>3, <1>4, <1>5
<1>7. ASSUME NEW e \in DOMAIN data, Level(e) = 1
      PROVE  \E c \in Pending' : Sets(c, e)
  <2>1. e # Root
      BY <1>7 DEF Level, Root
  <2>2. Parent(e) = d
    <3>1. e \in Nodes
        BY TreeFacts
    <3> QED BY <3>1, <2>1, <1>7, BlocksOfRoot
  <2>3. Last(e) \in 0..data[d].child_cnt - 1 /\ e = Child(d, Last(e))
      BY <2>1, <2>2, TreeFacts
  <2> DEFINE held == 0..data[d].child_cnt - 1
             cs == LinkCalls(d, held)
  <2>4. calls' = cs \o Tail(calls)
      BY <1>1 DEF LinkParts, LinkCalls, OverGrid, Makes
  <2>5. cs \in Seq(CallTypes)
      BY <1>2, LinkCallsParts
  <2>6. \E c \in Members(cs) : Sets(c, e)
      BY <1>2, <2>3, LinkCallsAll
  <2> HIDE DEF cs
  <2>7. Pending' = Members(cs) \cup Rest
    <3>1. CallsOK
        BY DEF Tree
    <3> QED BY <3>1, <1>1, <2>4, <2>5, PendingAfter DEF Rest
  <2> QED BY <2>6, <2>7
<1> QED BY <1>2, <1>6, <1>7

\* DuctTeip is told of the whole by a call of its own.
LEMMA BodyOfLink ==
    ASSUME NEW d, Body(d), Head(calls).fn = "data_partitioned", Head(calls).by = "DT"
    PROVE  DTPartitioned(d) \/ DTWrapperPartitioned(d)
<1>1. ~CreateData(d) /\ ~SetPartition(d)
    BY DEF CreateData, SetPartition, Calling
<1>2. ~SetMemoryStatic(d) /\ ~SetMemoryDynamic(d)
    BY DEF SetMemoryStatic, SetMemoryDynamic, Calling
<1>3. ~SGCreated(d) /\ ~SGWrapperCreated(d)
    BY DEF SGCreated, SGWrapperCreated, Told, Calling
<1>4. ~SGPartitioned(d) /\ ~SGWrapperPartitioned(d)
    BY DEF SGPartitioned, SGWrapperPartitioned, Told, Calling
<1>5. ~DTCreated(d) /\ ~DTWrapperCreated(d)
    BY DEF DTCreated, DTWrapperCreated, Told, Calling
<1>6. ~SPUCreated(d) /\ ~SPUSetMemory(d)
    BY DEF SPUCreated, SPUSetMemory, Told, Calling
<1>7. ~FillWith(d) /\ ~FillByElement(d)
    BY DEF FillWith, FillByElement, Calling
<1> QED BY <1>1, <1>2, <1>3, <1>4, <1>5, <1>6, <1>7 DEF Body

\* The memory that the bodies set of the blocks of level 1, in a program of the dynamic
\* variant with DuctTeip, is what SuperGlue sets of a block that is being made.
LEMMA BlocksSet ==
    ASSUME Tree, Allocated, NEW d \in Nodes, Body(d), partitioners' = partitioners,
           ~Static, Has("DT"),
           ~(Head(calls).fn = "data_partitioned" /\ Head(calls).by = "DT" /\ d = Root)
    PROVE  \A c \in Pending' :
              \/ c \in Rest
              \/ c.fn # "set_memory"
              \/ Level(c.d) # 1
              \/ Head(calls).fn = "data_created" /\ c.d = d
<1>1. CASE CreateData(d)
  <2>1. \A c \in Pending' : c \in Rest \/ c.fn = "data_created"
    <3> HIDE DEF Pending, Rest
    <3> QED BY <1>1, CreateDataStep
  <2> HIDE DEF Pending, Rest
  <2> QED BY <2>1
<1>2. CASE SetPartition(d)
  <2>1. \A c \in Pending' : c \in Rest \/ c.fn # "set_memory"
    <3> HIDE DEF Pending, Rest
    <3> QED BY <1>2, SetPartitionStep
  <2> HIDE DEF Pending, Rest
  <2> QED BY <2>1
<1>3. CASE SetMemoryStatic(d) \/ SGCreated(d) \/ SGPartitioned(d) \/ DTPartitioned(d)
    BY <1>3 DEF SetMemoryStatic, SGCreated, SGPartitioned, DTPartitioned
<1>4. CASE \/ SetMemoryDynamic(d) \/ SPUCreated(d) \/ SPUSetMemory(d)
           \/ DTCreated(d) \/ DTWrapperCreated(d)
  <2>1. Pending' = Rest
    <3> HIDE DEF Pending, Rest
    <3> QED BY <1>4, QuietBodies
  <2> QED BY <2>1
<1>5. CASE SGWrapperCreated(d)
  <2>1. Head(calls).fn = "data_created"
      BY <1>5 DEF SGWrapperCreated, Told, Calling
  <2>2. \A c \in Pending' : c \in Rest \/ c.d = d
    <3> HIDE DEF Pending, Rest
    <3> QED BY <1>5, SGCreatedStep
  <2> HIDE DEF Pending, Rest
  <2> QED BY <2>1, <2>2
<1>6. CASE SGWrapperPartitioned(d)
  <2>1. CASE d = Root
    <3>1. calls # <<>> /\ calls' = <<>> \o Tail(calls) /\ <<>> \in Seq(CallTypes)
        BY <1>6, <2>1 DEF SGWrapperPartitioned, Makes, Told, Calling
    <3>2. Pending' = Members(<<>>) \cup Rest
      <4>1. CallsOK
          BY DEF Tree
      <4> QED BY <3>1, <4>1, PendingAfter DEF Rest
    <3> QED BY <3>2, NoMembers
  <2>2. CASE d # Root
    <3>1. /\ d \in DOMAIN data
          /\ \A c \in Pending' :
                c \in Rest \/ \E k \in 0..data[d].child_cnt - 1 : c.d = Child(d, k)
      <4> HIDE DEF Pending, Rest
      <4> QED BY <1>6, SGPartitionedStep
    <3>2. Level(d) \in 1..2 /\ data[d].child_cnt \in Nat
        BY <2>2, <3>1, TreeFacts
    <3>3. \A k \in 0..data[d].child_cnt - 1 : Level(Child(d, k)) # 1
      <4>1. \A k \in 0..data[d].child_cnt - 1 : Level(Child(d, k)) = Level(d) + 1
          BY <3>2, NoRoot
      <4>2. \A l \in 1..2 : l + 1 # 1
          OBVIOUS
      <4> QED BY <3>2, <4>1, <4>2
    <3> HIDE DEF Pending, Rest
    <3> QED BY <3>1, <3>3
  <2> QED BY <2>1, <2>2
<1>7. CASE DTWrapperPartitioned(d)
  <2>1. d # Root
      BY <1>7 DEF DTWrapperPartitioned, Told, Calling
  <2>2. \A c \in Pending' : c \in Rest
    <3> HIDE DEF Pending, Rest
    <3> QED BY <1>7, <2>1, DTPartitionedStep
  <2> QED BY <2>2
<1>8. CASE FillWith(d) \/ FillByElement(d)
  <2>1. \A c \in Pending' : c \in Rest \/ c.fn = "fill"
    <3> HIDE DEF Pending, Rest
    <3> QED BY <1>8, FillStep
  <2> HIDE DEF Pending, Rest
  <2> QED BY <2>1
<1> QED BY <1>1, <1>2, <1>3, <1>4, <1>5, <1>6, <1>7, <1>8 DEF Body

\* The bodies give no block of DuctTeip's memory that is SuperGlue's.
LEMMA LinkedBody ==
    ASSUME Tree, Allocated, Guesting, Linked, NEW d \in Nodes, Body(d),
           partitioners' = partitioners
    PROVE  Linked'
<1> DEFINE h == Head(calls)
<1>1. /\ calls # <<>> /\ h.d = d
      /\ program' = program /\ shape' = shape /\ step' = step
    BY BodyCall
<1>2. Moves
    BY BodyMoves
<1>3. Pending = {h} \cup Rest
    BY <1>1, NextAndRest
<1>4. (Static' <=> Static) /\ \A s : Has(s)' <=> Has(s)
    BY <1>1, SameStatement
<1>5. /\ Root' = Root /\ \A e : Level(e)' = Level(e)
      /\ \A c, e : Sets(c, e)' <=> Sets(c, e)
    BY DEF Root, Level, Sets
<1> SUFFICES ASSUME ~Static, Has("DT"), ~Linking'
             PROVE  /\ \A c \in Pending' : c.fn = "set_memory" /\ Level(c.d) = 1 =>
                          c.m.buf # <<"SG">>
                    /\ \A e \in DOMAIN data' : Level(e) = 1 =>
                          (data')[e].memory.buf # <<"SG">> \/ \E c \in Pending' : Sets(c, e)
    BY <1>4, <1>5 DEF Linked
<1>6. CASE h.fn = "data_partitioned" /\ h.by = "DT" /\ d = Root
  <2>1. DTWrapperPartitioned(d)
      BY <1>6, BodyOfLink DEF DTPartitioned
  <2> HIDE DEF Pending
  <2> QED BY <2>1, <1>6, LinkedNow
<1>7. CASE ~(h.fn = "data_partitioned" /\ h.by = "DT" /\ d = Root)
  <2>1. \A c \in Pending' :
           \/ c \in Rest
           \/ c.fn # "set_memory"
           \/ Level(c.d) # 1
           \/ h.fn = "data_created" /\ c.d = d
    <3> HIDE DEF Pending, Rest
    <3> QED BY <1>7, BlocksSet
  <2> HIDE DEF Pending, Rest
  <2>2. ~Linking
      BY <1>1, <1>2, <1>3, <1>5, <1>7 DEF Linking, Moves
  <2>3. /\ \A c \in Pending : c.fn = "set_memory" /\ Level(c.d) = 1 => c.m.buf # <<"SG">>
        /\ \A e \in DOMAIN data : Level(e) = 1 =>
              data[e].memory.buf # <<"SG">> \/ \E c \in Pending : Sets(c, e)
      BY <2>2 DEF Linked
  <2>4. h.fn \in {"GData", "data_created"} => Level(d) # 1
      BY <2>2, <1>1, <1>3 DEF Guesting
  <2>5. \A c \in Pending' : c.fn = "set_memory" /\ Level(c.d) = 1 => c.m.buf # <<"SG">>
      BY <2>1, <2>3, <2>4, <1>3
  <2>6. ASSUME NEW e \in DOMAIN data', Level(e) = 1
        PROVE  (data')[e].memory.buf # <<"SG">> \/ \E c \in Pending' : Sets(c, e)
    <3>1. e \in DOMAIN data
        BY <2>4, <2>6, <1>1, <1>2 DEF Moves
    <3>2. \/ (data')[e].memory = data[e].memory /\ ~Sets(h, e)
          \/ h.fn = "set_memory" /\ e = d /\ (data')[e].memory = h.m
        BY <3>1, <1>1, <1>2 DEF Moves
    <3>3. CASE h.fn = "set_memory" /\ e = d /\ (data')[e].memory = h.m
        BY <3>3, <2>3, <2>6, <1>1, <1>3
    <3>4. CASE (data')[e].memory = data[e].memory /\ ~Sets(h, e)
        BY <3>1, <3>4, <2>3, <2>6, <1>2, <1>3 DEF Moves
    <3> QED BY <3>2, <3>3, <3>4
  <2> QED BY <2>5, <2>6
<1> QED BY <1>6, <1>7

\* A statement makes its call, when there is no other.
LEMMA StatementMakes ==
    ASSUME Tree, Statement
    PROVE  /\ step + 1 \in 1..Len(Statements) /\ step \in Nat /\ step' = step + 1
           /\ program' = program /\ shape' = shape /\ data' = data /\ content' = content
           /\ Statements' = Statements /\ PartitionStep' = PartitionStep
           /\ PartitionStep \in Nat /\ Len(Statements) \in Nat
           /\ Pending = {} /\ Pending' = {Statements[step + 1]}
           /\ Statements[step + 1].d = Root
           /\ step + 1 = PartitionStep => Statements[step + 1].fn = "set_partition"
           /\ step >= 1 => Root \in DOMAIN data
           /\ SetByProgram => SetByProgram'
           /\ Statements[step + 1].fn = "set_memory" => SetByProgram'
<1>1. PICK c : c = Statements[step + 1]
    OBVIOUS
<1>2. /\ calls' = <<c>> /\ step' = step + 1 /\ step < Len(Statements)
      /\ program' = program /\ shape' = shape /\ data' = data /\ content' = content
    BY <1>1 DEF Statement
<1>3. program \in Programs /\ shape \in Shapes /\ step \in 0..Len(Statements)
    BY DEF Tree, Phase
<1>4. /\ Len(Statements) \in Nat /\ step + 1 \in 1..Len(Statements)
      /\ step \in Nat /\ Statements' = Statements /\ PartitionStep' = PartitionStep
      /\ PartitionStep = 2 * program.levels + 1 /\ program.levels \in {1, 2}
      /\ PartitionStep \in Nat
  <2>1. Len(Statements) \in PartitionStep..7 /\ program.levels \in {1, 2}
      BY <1>3, StatementFacts
  <2>2. PartitionStep = 2 * program.levels + 1
      BY DEF PartitionStep
  <2>3. PartitionStep \in Nat
      BY <2>1, <2>2
  <2>4. Statements' = Statements /\ PartitionStep' = PartitionStep
      BY <1>2, SameShape
  <2> QED BY <1>2, <1>3, <2>1, <2>2, <2>3, <2>4
<1>5. c \in CallTypes /\ c.d = Root /\ IsStatement(step + 1, c)
  <2>1. IsStatement(step + 1, c)
      BY <1>1, <1>3, <1>4, StatementFacts
  <2> QED BY <2>1 DEF IsStatement
<1>6. step + 1 = PartitionStep => c.fn = "set_partition"
  <2> SUFFICES ASSUME step + 1 = PartitionStep
               PROVE  c.fn = "set_partition"
      OBVIOUS
  <2>1. PICK k : k = step + 1
      OBVIOUS
  <2>2. k = PartitionStep /\ IsStatement(k, c)
      BY <2>1, <1>5
  <2>3. (program.levels = 1 /\ k = 3) \/ (program.levels = 2 /\ k = 5)
      BY <2>2, <1>4
  <2>4. /\ k # 1 /\ k \notin 2..program.levels + 1 /\ ~(program.levels = 2 /\ k = 4)
        /\ k # k + 1 /\ ~(k > k)
      BY <2>3
  <2> QED BY <2>2, <2>4 DEF IsStatement
<1>7. Pending = {} /\ Pending' = {c}
  <2>1. Members(<<c>>) = {c}
      BY <1>5, OneCall
  <2>2. Pending = {}
      BY StatementStep
  <2>3. Members(<<c>>)' = Members(<<c>>)
      BY <1>2 DEF Members
  <2> QED BY <1>2, <2>1, <2>2, <2>3 DEF Pending, Members
<1>8. step >= 1 => Root \in DOMAIN data
  <2> HIDE DEF Pending
  <2> QED BY <1>7 DEF Tree, Phase, Made, Coming
<1>9. /\ SetByProgram => SetByProgram'
      /\ c.fn = "set_memory" => SetByProgram'
  <2>1. 1..step \subseteq 1..step + 1 /\ step + 1 \in 1..step + 1
      BY <1>4
  <2>2. SetByProgram' <=> \E i \in 1..step + 1 : Statements[i].fn = "set_memory"
      BY <1>2, <1>4 DEF SetByProgram
  <2>3. SetByProgram <=> \E i \in 1..step : Statements[i].fn = "set_memory"
      BY DEF SetByProgram
  <2> HIDE DEF Statements, SetByProgram
  <2> QED BY <1>1, <2>1, <2>2, <2>3
<1> HIDE DEF Pending, Statements
<1> QED BY <1>1, <1>2, <1>4, <1>5, <1>6, <1>7, <1>8, <1>9

\* A statement cuts the whole, or gives it memory, or leaves it as it is.
LEMMA PlacingStatement ==
    ASSUME Tree, Placing, Statement
    PROVE  Placing'
<1> DEFINE c == Statements[step + 1]
<1>1. /\ step \in Nat /\ step' = step + 1 /\ PartitionStep' = PartitionStep
      /\ program' = program /\ data' = data /\ content' = content /\ PartitionStep \in Nat
      /\ Pending = {} /\ Pending' = {c} /\ c.d = Root
      /\ step + 1 = PartitionStep => c.fn = "set_partition"
      /\ step >= 1 => Root \in DOMAIN data
      /\ SetByProgram => SetByProgram'
      /\ c.fn = "set_memory" => SetByProgram'
    BY StatementMakes
<1> HIDE DEF c, Pending
<1>2. /\ \A a : FromSG(a)' <=> FromSG(a)
      /\ Root' = Root /\ \A e : Level(e)' = Level(e)
      /\ \A b, e : Sets(b, e)' <=> Sets(b, e)
    BY <1>1, SameFromSG DEF Root, Level, Sets
<1>3. (Static' <=> Static) /\ \A s : Has(s)' <=> Has(s)
    BY <1>1 DEF Static, Has
<1>4. RootCut'
  <2>1. PartitionStep = 2 * program.levels + 1 /\ program.levels \in {1, 2}
      BY ProgramsAssumption DEF Tree, PartitionStep
  <2>2. step + 1 >= PartitionStep => step >= 1
      BY <1>1, <2>1
  <2>3. CASE step >= PartitionStep
      BY <2>2, <2>3, <1>1, <1>2 DEF Placing, RootCut
  <2>4. CASE step + 1 = PartitionStep
      BY <2>2, <2>4, <1>1, <1>2 DEF RootCut
  <2>5. CASE ~(step + 1 >= PartitionStep)
      BY <2>5, <1>1 DEF RootCut
  <2>6. step >= PartitionStep \/ step + 1 = PartitionStep \/ ~(step + 1 >= PartitionStep)
      BY <1>1
  <2> QED BY <2>3, <2>4, <2>5, <2>6
<1>5. RootBare'
    BY <1>1, <1>2 DEF Placing, RootBare, Sets
<1>6. Linked'
  <2>1. ~Linking /\ Level(Root) # 1
      BY <1>1 DEF Linking, Level, Root
  <2> QED BY <2>1, <1>1, <1>2, <1>3 DEF Placing, Linked
<1>7. Written'
    BY <1>1, <1>2 DEF Placing, Written
<1>8. RootFills'
    BY <1>1, <1>2 DEF RootFills
<1> QED BY <1>4, <1>5, <1>6, <1>7, <1>8 DEF Placing

\* A partitioner is made before anything is cut.
LEMMA PlacingPartitioner ==
    ASSUME Tree, Placing, NewPartitioner \/ SetNext, UNCHANGED <<data, content>>
    PROVE  Placing'
<1>1. /\ program' = program /\ shape' = shape /\ step' = step
      /\ data' = data /\ content' = content
    BY DEF NewPartitioner, SetNext, Makes
<1>2. /\ Pending' = {} /\ Pending = {Head(calls)}
      /\ Head(calls).fn \in {"GPartitioner", "set_next"}
    BY <1>1, PartitionerStep
<1> HIDE DEF Pending
<1>3. /\ Static' <=> Static
      /\ \A s : Has(s)' <=> Has(s)
      /\ SetByProgram' <=> SetByProgram
      /\ PartitionStep' = PartitionStep
      /\ \A a : FromSG(a)' <=> FromSG(a)
    BY <1>1, SameStatement, SameFromSG DEF PartitionStep
<1>4. /\ Root' = Root /\ \A e : Level(e)' = Level(e)
      /\ \A b, e : Sets(b, e)' <=> Sets(b, e)
    BY DEF Root, Level, Sets
<1>5. ~Linking
    BY <1>2 DEF Linking
<1>6. RootCut'
    BY <1>1, <1>2, <1>3, <1>4 DEF Placing, RootCut
<1>7. RootBare'
    BY <1>1, <1>2, <1>3, <1>4 DEF Placing, RootBare
<1>8. Linked'
    BY <1>1, <1>2, <1>3, <1>4, <1>5 DEF Placing, Linked, Sets
<1>9. Written'
    BY <1>1, <1>3 DEF Placing, Written
<1>10. RootFills'
    BY <1>2 DEF RootFills
<1> QED BY <1>6, <1>7, <1>8, <1>9, <1>10 DEF Placing

\* Nothing moves when nothing is called.
LEMMA PlacingStutter ==
    ASSUME Tree, Placing, UNCHANGED vars
    PROVE  Placing'
<1>1. /\ program' = program /\ shape' = shape /\ step' = step /\ calls' = calls
      /\ data' = data /\ content' = content
    BY DEF vars
<1>2. Pending' = Pending
    BY <1>1 DEF Pending, Members
<1> HIDE DEF Pending
<1>3. /\ Static' <=> Static
      /\ \A s : Has(s)' <=> Has(s)
      /\ SetByProgram' <=> SetByProgram
      /\ PartitionStep' = PartitionStep
      /\ \A a : FromSG(a)' <=> FromSG(a)
    BY <1>1, SameStatement, SameFromSG DEF PartitionStep
<1>4. /\ Root' = Root /\ \A e : Level(e)' = Level(e)
      /\ \A b, e : Sets(b, e)' <=> Sets(b, e)
    BY DEF Root, Level, Sets
<1>5. Linking' <=> Linking
    BY <1>2, <1>4 DEF Linking
<1>6. RootCut' /\ RootBare'
    BY <1>1, <1>2, <1>3, <1>4 DEF Placing, RootCut, RootBare
<1>7. Linked'
    BY <1>1, <1>2, <1>3, <1>4, <1>5 DEF Placing, Linked
<1>8. Written' /\ RootFills'
    BY <1>1, <1>2, <1>3, <1>4 DEF Placing, Written, RootFills
<1> QED BY <1>6, <1>7, <1>8 DEF Placing

\* Every step leaves what is written where it may be.
LEMMA PlacingNext ==
    ASSUME Tree, Allocated, Guesting, Placing, [Next]_vars
    PROVE  Placing'
<1>1. CASE Statement
    BY <1>1, PlacingStatement
<1>2. CASE (NewPartitioner \/ SetNext) /\ UNCHANGED <<data, content>>
    BY <1>2, PlacingPartitioner
<1>3. CASE calls # <<>> /\ Body(Head(calls).d) /\ UNCHANGED partitioners
  <2>1. Head(calls).d \in Nodes
      BY <1>3, HeadFacts
  <2>2. Linked
      BY DEF Placing
  <2> QED BY <1>3, <2>1, <2>2, RootBody, LinkedBody DEF Placing
<1>4. CASE UNCHANGED vars
    BY <1>4, PlacingStutter
<1> QED BY <1>1, <1>2, <1>3, <1>4 DEF Next, Terminated


(* Where the elements are stored *)

\* Element (r, c) of a matrix of blocks of p rows and q columns, y blocks high, is
\* element (i, j) of block k, and stored there.
IsIn(r, c, k, i, j, p, q, y) ==
    /\ r = (k % y) * p + i /\ c = (k \div y) * q + j
    /\ ElementOffset(r, c, p, q, y) = k * (p * q) + ColumnMajor(i, j, p)
    /\ ColumnMajor(i, j, p) \in 0..p * q - 1

\* Every element of a matrix of blocks is an element of one of them.
LEMMA InBlock ==
    ASSUME NEW y \in Pos, NEW x \in Pos, NEW p \in Pos, NEW q \in Pos
    PROVE  \A r \in 0..y * p - 1, c \in 0..x * q - 1 :
              \E k \in 0..y * x - 1, i \in 0..p - 1, j \in 0..q - 1 :
                 IsIn(r, c, k, i, j, p, q, y)
<1> TAKE r \in 0..y * p - 1, c \in 0..x * q - 1
<1>1. PICK a \in 0..y - 1, i \in 0..p - 1 : r = a * p + i
    BY Parts
<1>2. PICK b \in 0..x - 1, j \in 0..q - 1 : c = b * q + j
    BY Parts
<1>3. PICK k : k = b * y + a
    OBVIOUS
<1>4. k \in 0..y * x - 1 /\ k % y = a /\ k \div y = b
    BY <1>3, BlockInGrid
<1>5. r = (k % y) * p + i /\ c = (k \div y) * q + j
    BY <1>1, <1>2, <1>4
<1>6. /\ ElementOffset((k % y) * p + i, (k \div y) * q + j, p, q, y) =
            k * (p * q) + ColumnMajor(i, j, p)
      /\ ColumnMajor(i, j, p) \in 0..p * q - 1
    BY <1>4, StoredInBlock
<1>7. ElementOffset(r, c, p, q, y) = k * (p * q) + ColumnMajor(i, j, p)
    BY <1>5, <1>6
<1> QED BY <1>4, <1>5, <1>6, <1>7 DEF IsIn

\* Every place of a block is that of one of its elements, and of no other.
LEMMA Columns ==
    ASSUME NEW p \in Pos, NEW q \in Pos
    PROVE  /\ \A i \in 0..p - 1, j \in 0..q - 1 : ColumnMajor(i, j, p) \in 0..p * q - 1
           /\ \A n \in 0..p * q - 1 :
                 \E i \in 0..p - 1, j \in 0..q - 1 : n = ColumnMajor(i, j, p)
           /\ \A i, a \in 0..p - 1, j, b \in 0..q - 1 :
                 ColumnMajor(i, j, p) = ColumnMajor(a, b, p) => i = a /\ j = b
<1>1. p * q = q * p
    BY SMT DEF Pos
<1>2. \A i, j : ColumnMajor(i, j, p) = j * p + i
    BY DEF ColumnMajor
<1>3. /\ \A j \in 0..q - 1, i \in 0..p - 1 : j * p + i \in 0..q * p - 1
      /\ \A n \in 0..q * p - 1 : \E j \in 0..q - 1, i \in 0..p - 1 : n = j * p + i
      /\ \A j, b \in 0..q - 1, i, a \in 0..p - 1 : j * p + i = b * p + a => j = b
    BY Parts
<1>4. ASSUME NEW i \in 0..p - 1, NEW a \in 0..p - 1, NEW j \in 0..q - 1,
             j * p + i = j * p + a
      PROVE  i = a
  <2>1. PICK u : u = j * p
      OBVIOUS
  <2>2. u \in Nat
      BY <2>1, SMT DEF Pos
  <2>3. u + i = u + a
      BY <2>1, <1>4
  <2> QED BY <2>2, <2>3
<1> QED BY <1>1, <1>2, <1>3, <1>4

\* The elements of a matrix of y * x blocks of p rows and q columns are stored one in
\* each place of its memory.
OneInEach(y, x, p, q) ==
    /\ \A r \in 0..y * p - 1, c \in 0..x * q - 1 :
          ElementOffset(r, c, p, q, y) \in 0..(y * x) * (p * q) - 1
    /\ \A n \in 0..(y * x) * (p * q) - 1 :
          \E r \in 0..y * p - 1, c \in 0..x * q - 1 : n = ElementOffset(r, c, p, q, y)
    /\ \A r, e \in 0..y * p - 1, c, f \in 0..x * q - 1 :
          ElementOffset(r, c, p, q, y) = ElementOffset(e, f, p, q, y) => r = e /\ c = f

\* They are, whatever the blocks.
LEMMA StoredOnce ==
    ASSUME NEW y \in Pos, NEW x \in Pos, NEW p \in Pos, NEW q \in Pos
    PROVE  OneInEach(y, x, p, q)
<1>1. y * x \in Pos /\ p * q \in Pos
    BY SMT DEF Pos
<1> DEFINE g == y * x
           s == p * q
           In(r, c, k, i, j) == IsIn(r, c, k, i, j, p, q, y)
<1>2. \A r \in 0..y * p - 1, c \in 0..x * q - 1 :
          \E k \in 0..g - 1, i \in 0..p - 1, j \in 0..q - 1 : In(r, c, k, i, j)
    BY InBlock
<1>3. /\ \A n \in 0..s - 1 : \E i \in 0..p - 1, j \in 0..q - 1 : n = ColumnMajor(i, j, p)
      /\ \A i, a \in 0..p - 1, j, b \in 0..q - 1 :
            ColumnMajor(i, j, p) = ColumnMajor(a, b, p) => i = a /\ j = b
    BY Columns
<1>4. /\ \A k \in 0..g - 1, n \in 0..s - 1 : k * s + n \in 0..g * s - 1
      /\ \A m \in 0..g * s - 1 : \E k \in 0..g - 1, n \in 0..s - 1 : m = k * s + n
      /\ \A k, l \in 0..g - 1, n, o \in 0..s - 1 : k * s + n = l * s + o => k = l
  <2> HIDE DEF g, s
  <2> QED BY <1>1, Parts DEF g, s
<1>5. ASSUME NEW r \in 0..y * p - 1, NEW c \in 0..x * q - 1
      PROVE  ElementOffset(r, c, p, q, y) \in 0..g * s - 1
  <2> HIDE DEF In, IsIn
  <2>1. PICK k \in 0..g - 1, i \in 0..p - 1, j \in 0..q - 1 : In(r, c, k, i, j)
      BY <1>5, <1>2
  <2>2. /\ ElementOffset(r, c, p, q, y) = k * s + ColumnMajor(i, j, p)
        /\ ColumnMajor(i, j, p) \in 0..s - 1
      BY <2>1 DEF In, IsIn
  <2> HIDE DEF g, s
  <2> QED BY <1>4, <2>2
<1>6. ASSUME NEW m \in 0..g * s - 1
      PROVE  \E r \in 0..y * p - 1, c \in 0..x * q - 1 : m = ElementOffset(r, c, p, q, y)
  <2>1. PICK k \in 0..g - 1, n \in 0..s - 1 : m = k * s + n
      BY <1>4
  <2>2. PICK i \in 0..p - 1, j \in 0..q - 1 : n = ColumnMajor(i, j, p)
      BY <2>1, <1>3
  <2>3. /\ (k % y) * p + i \in 0..y * p - 1 /\ (k \div y) * q + j \in 0..x * q - 1
        /\ ElementOffset((k % y) * p + i, (k \div y) * q + j, p, q, y) =
              k * s + ColumnMajor(i, j, p)
      BY StoredInBlock
  <2> HIDE DEF g, s
  <2> QED BY <2>1, <2>2, <2>3
<1>7. ASSUME NEW r \in 0..y * p - 1, NEW e \in 0..y * p - 1,
             NEW c \in 0..x * q - 1, NEW f \in 0..x * q - 1,
             ElementOffset(r, c, p, q, y) = ElementOffset(e, f, p, q, y)
      PROVE  r = e /\ c = f
  <2> HIDE DEF In, IsIn
  <2>1. PICK k \in 0..g - 1, i \in 0..p - 1, j \in 0..q - 1 : In(r, c, k, i, j)
      BY <1>2
  <2>2. PICK l \in 0..g - 1, a \in 0..p - 1, b \in 0..q - 1 : In(e, f, l, a, b)
      BY <1>2
  <2>3. PICK m, n : m = ColumnMajor(i, j, p) /\ n = ColumnMajor(a, b, p)
      OBVIOUS
  <2>4. k * s + m = l * s + n /\ m \in 0..s - 1 /\ n \in 0..s - 1
      BY <1>7, <2>1, <2>2, <2>3 DEF In, IsIn
  <2>5. k = l
      BY <1>4, <2>4
  <2>6. m = n
    <3>1. PICK u : u = k * s
        OBVIOUS
    <3>2. u \in Nat
        BY <1>1, <3>1, SMT DEF Pos
    <3>3. u + m = u + n /\ m \in Nat /\ n \in Nat
      <4>1. s \in Nat
          BY <1>1 DEF Pos
      <4> HIDE DEF s
      <4> QED BY <4>1, <2>4, <2>5, <3>1
    <3> QED BY <3>2, <3>3
  <2>7. i = a /\ j = b
      BY <2>3, <2>6, <1>3
  <2> QED BY <2>1, <2>2, <2>5, <2>7 DEF In, IsIn
<1> QED BY <1>5, <1>6, <1>7 DEF OneInEach

\* The elements of the whole are stored by the blocks it has been cut into, one in each
\* place of its memory.
LEMMA StoredInWhole ==
    ASSUME Tree, Root \in DOMAIN data, data[Root].partitioner # NoPartitioner,
           program.fill.kind # "hilbert"
    PROVE  /\ \A i, j : StoredAt(i, j) =
                 ElementOffset(i, j, RowsAt(1), ColsAt(1), shape.cut[1][1])
           /\ \A e \in Elements : StoredAt(e[1], e[2]) \in 0..SizeAt(0) - 1
           /\ \A n \in 0..SizeAt(0) - 1 : \E e \in Elements : n = StoredAt(e[1], e[2])
           /\ \A e, f \in Elements :
                 StoredAt(e[1], e[2]) = StoredAt(f[1], f[2]) => e = f
<1> DEFINE y == shape.cut[1][1]
           x == shape.cut[1][2]
           p == RowsAt(1)
           q == ColsAt(1)
<1>1. Cut(Root) = shape.cut[1] /\ shape \in Shapes
  <2>1. Level(Root) = 0
      BY DEF Level, Root
  <2>2. Cut(Root) = shape.cut[Level(Root) + 1]
      BY TreeFacts
  <2> QED BY <2>1, <2>2 DEF Tree
<1>2. /\ y \in Pos /\ x \in Pos /\ p \in Pos /\ q \in Pos
      /\ p = shape.M \div y /\ q = shape.N \div x
      /\ y * p = shape.M /\ x * q = shape.N
      /\ Count(1) * SizeAt(1) = SizeAt(0)
  <2>1. 1 \in 1..2 /\ 1 \in 0..2 /\ 1 - 1 = 0
      OBVIOUS
  <2>2. /\ RowsAt(1) = RowsAt(0) \div y /\ ColsAt(1) = ColsAt(0) \div x
        /\ y * RowsAt(1) = RowsAt(0) /\ x * ColsAt(1) = ColsAt(0)
        /\ Count(1) * SizeAt(1) = SizeAt(0)
        /\ RowsAt(0) = shape.M /\ ColsAt(0) = shape.N
      BY <1>1, <2>1, ShapeFacts
  <2> QED BY <1>1, <2>1, <2>2, ShapeFacts
<1>3. SizeAt(0) = (y * x) * (p * q)
    BY <1>2 DEF Count, SizeAt
<1>4. \A i, j : StoredAt(i, j) = ElementOffset(i, j, p, q, y)
    BY <1>1, <1>2 DEF StoredAt
<1>5. Elements = (0..y * p - 1) \X (0..x * q - 1)
    BY <1>2 DEF Elements
<1> HIDE DEF y, x, p, q
<1>6. OneInEach(y, x, p, q)
    BY <1>2, StoredOnce
<1> DEFINE S == 0..y * p - 1
           T == 0..x * q - 1
           U == 0..SizeAt(0) - 1
<1>7. /\ \A r \in S, c \in T : StoredAt(r, c) \in U
      /\ \A n \in U : \E r \in S, c \in T : n = StoredAt(r, c)
      /\ \A r, e \in S, c, f \in T : StoredAt(r, c) = StoredAt(e, f) => r = e /\ c = f
    BY <1>3, <1>4, <1>6 DEF OneInEach
<1> HIDE DEF S, T, U
<1>8. Elements = S \X T
    BY <1>5 DEF S, T
<1>9. /\ \A e \in Elements : StoredAt(e[1], e[2]) \in U
      /\ \A n \in U : \E e \in Elements : n = StoredAt(e[1], e[2])
      /\ \A e, f \in Elements : StoredAt(e[1], e[2]) = StoredAt(f[1], f[2]) => e = f
  <2>1. \A e \in Elements : e[1] \in S /\ e[2] \in T /\ e = <<e[1], e[2]>>
      BY <1>8
  <2>2. \A r \in S, c \in T :
           <<r, c>> \in Elements /\ <<r, c>>[1] = r /\ <<r, c>>[2] = c
      BY <1>8
  <2>3. \A n \in U : \E e \in Elements : n = StoredAt(e[1], e[2])
    <3> TAKE n \in U
    <3>1. PICK r \in S, c \in T : n = StoredAt(r, c)
        BY <1>7
    <3>2. <<r, c>> \in Elements /\ <<r, c>>[1] = r /\ <<r, c>>[2] = c
        BY <2>2
    <3>3. n = StoredAt(<<r, c>>[1], <<r, c>>[2])
        BY <3>1, <3>2
    <3> QED BY <3>2, <3>3
  <2>4. ASSUME NEW e \in Elements, NEW f \in Elements,
               StoredAt(e[1], e[2]) = StoredAt(f[1], f[2])
        PROVE  e = f
    <3>1. e[1] = f[1] /\ e[2] = f[2]
        BY <1>7, <2>1, <2>4
    <3> QED BY <2>1, <3>1
  <2> QED BY <1>7, <2>1, <2>3, <2>4
<1> QED BY <1>4, <1>9 DEF U, p, q, y

\* A fill by elements puts every element of the whole in its place.
LEMMA FillPlaces ==
    ASSUME Tree, FillByElement(Root), Root \in DOMAIN data,
           data[Root].partitioner # NoPartitioner, data[Root].memory # Null,
           program.fill.kind # "hilbert", partitioners' = partitioners
    PROVE  \A e \in Elements' : InPlace(e)'
<1> DEFINE At(e) == Plus(data[Root].memory, StoredAt(e[1], e[2]))
           S == {At(e) : e \in Elements}
           Which(a) == CHOOSE e \in Elements : At(e) = a
           Value(a) == Wanted(Which(a)[1], Which(a)[2])
<1>1. Write([a \in S |-> Value(a)])
    BY Zenon DEF FillByElement
<1>2. data' = data /\ program' = program /\ shape' = shape
    BY DEF FillByElement, Makes
<1>3. ASSUME NEW e \in Elements
      PROVE  At(e) \in S /\ Which(At(e)) = e
  <2>1. Which(At(e)) \in Elements /\ At(Which(At(e))) = At(e)
      BY Zenon
  <2>2. PICK f : f = Which(At(e))
      OBVIOUS
  <2>3. f \in Elements /\ At(f) = At(e)
      BY <2>1, <2>2
  <2>4. StoredAt(f[1], f[2]) = StoredAt(e[1], e[2])
    <3>1. data[Root].memory \in Addresses
        BY TreeFacts DEF Place
    <3>2. StoredAt(f[1], f[2]) \in 0..SizeAt(0) - 1
          /\ StoredAt(e[1], e[2]) \in 0..SizeAt(0) - 1
        BY <2>3, StoredInWhole
    <3>3. StoredAt(f[1], f[2]) \in Nat /\ StoredAt(e[1], e[2]) \in Nat
      <4>1. SizeAt(0) \in Nat
        <5>1. SizeAt(0) \in Pos
            BY ShapeFacts DEF Tree
        <5> QED BY <5>1 DEF Pos
      <4> QED BY <3>2, <4>1
    <3> QED BY <2>3, <3>1, <3>3, PlusFacts
  <2>5. f = e
      BY <2>3, <2>4, StoredInWhole
  <2> QED BY <2>2, <2>5
<1>4. \A e \in Elements :
         At(e) \in DOMAIN content' /\ content'[At(e)] = Wanted(e[1], e[2])
  <2> HIDE DEF At, S, Which
  <2>1. \A a \in S : a \in DOMAIN content' /\ content'[a] = Value(a)
    <3> HIDE DEF Value
    <3> QED BY <1>1 DEF Write
  <2> QED BY <1>3, <2>1
<1>5. /\ Elements' = Elements /\ Root' = Root
      /\ \A i, j : Wanted(i, j)' = Wanted(i, j)
      /\ \A i, j : StoredAt(i, j)' = StoredAt(i, j)
    BY <1>2 DEF Elements, Root, Wanted, RowValue, MolerValue, CholDiagValue, HilbertValue,
                StoredAt, Cut
<1> QED BY <1>2, <1>4, <1>5 DEF InPlace, Plus


(* What has been filled *)

\* Once the fill has been called, nothing but the fills is called, of data that are cut
\* and have their memory for good; each element that is filled stays so.
LEMMA FilledBody ==
    ASSUME Tree, Allocated, Placing, Filled, NEW d \in Nodes, Body(d),
           partitioners' = partitioners
    PROVE  Filled'
<1> DEFINE h == Head(calls)
<1>1. /\ calls # <<>> /\ h.d = d
      /\ program' = program /\ shape' = shape /\ step' = step
    BY BodyCall
<1>2. Pending = {h} \cup Rest
    BY <1>1, NextAndRest
<1>3. (FillCalled' <=> FillCalled) /\ (ByElement' <=> ByElement) /\ Statements' = Statements
    BY <1>1, SameShape DEF FillCalled, ByElement
<1> SUFFICES ASSUME FillCalled
             PROVE  Filled'
    BY <1>3 DEF Filled, OnlyFills, FilledAll, FilledEach
<1>4. \A c \in Pending : c.fn = "fill"
    BY DEF Filled, OnlyFills
<1>5. FillWith(d) \/ FillByElement(d)
    BY <1>2, <1>4, BodyOfFill
<1>6. /\ Rest \subseteq Pending' /\ data' = data
      /\ \A c \in Pending' : c \in Rest \/ c.fn = "fill"
  <2> HIDE DEF Pending, Rest
  <2> QED BY <1>5, FillStep
<1>7. Calling("fill", d)
    BY <1>5 DEF FillWith, FillByElement
<1>8. d \in DOMAIN data
    BY <1>7, FillMakes
<1>9. OnlyFills'
  <2> HIDE DEF Pending, Rest
  <2> QED BY <1>2, <1>4, <1>6 DEF OnlyFills
<1>10. FilledAll'
  <2> DEFINE v == program.fill.start
             Full(e) == \A a \in Cells(e) : a \in DOMAIN content /\ content[a] = v
  <2>1. /\ \A e : Cells(e)' = Cells(e)
        /\ Root' = Root /\ \A e : Parent(e)' = Parent(e)
      BY <1>6 DEF Cells, CellsFrom, Size, Plus, Root, Parent
  <2>2. \A c, e : Fills(c, e)' <=> Fills(c, e)
      BY <2>1 DEF Fills
  <2> SUFFICES ASSUME program.fill.kind = "with",
                      NEW e \in DOMAIN data, data[e].memory # Null
               PROVE  \/ \A a \in Cells(e) : a \in DOMAIN content' /\ content'[a] = v
                      \/ \E c \in Pending' : Fills(c, e)
    <3> HIDE DEF Pending
    <3>1. Null' = Null
        BY DEF Null
    <3> QED BY <1>1, <1>6, <2>1, <2>2, <3>1 DEF FilledAll
  <2>3. FillWith(d)
      BY <1>5 DEF FillByElement
  <2>4. \A k \in 0..data[d].child_cnt - 1 : Fill(Child(d, k)) \in Pending'
      BY <1>7, <2>3, FillMakes
  <2>5. \/ data[d].memory = Null /\ content' = content
        \/ data[d].memory # Null /\ Write([a \in Cells(d) |-> v])
      BY <2>3 DEF FillWith
  <2>6. /\ \A a \in DOMAIN content :
              a \in DOMAIN content' /\ (content'[a] = content[a] \/ content'[a] = v)
        /\ data[d].memory # Null =>
              \A a \in Cells(d) : a \in DOMAIN content' /\ content'[a] = v
      BY <2>5 DEF Write
  <2> HIDE DEF Pending, Rest
  <2>7. Full(e) \/ \E c \in Pending : Fills(c, e)
      BY DEF Filled, FilledAll
  <2>8. CASE Full(e)
      BY <2>6, <2>8
  <2>9. CASE \E c \in Rest : Fills(c, e)
      BY <2>9, <1>6
  <2>10. CASE Fills(h, e)
    <3>1. CASE e = d
        BY <3>1, <2>6
    <3>2. CASE e # d
      <4>1. e # Root
          BY <3>2, <2>10, <1>1 DEF Fills
      <4>2. /\ Last(e) \in 0..data[Parent(e)].child_cnt - 1
            /\ e = Child(Parent(e), Last(e)) /\ Parent(e) \in DOMAIN data
          BY <4>1, TreeFacts
      <4>3. CASE d = Parent(e)
        <5>1. Fill(e) \in Pending'
            BY <4>2, <4>3, <2>4
        <5>2. Fills(Fill(e), e)
            BY DEF Fills, Fill
        <5> QED BY <5>1, <5>2
      <4>4. CASE d = Root /\ d # Parent(e)
        <5>1. /\ Last(Parent(e)) \in 0..data[Parent(Parent(e))].child_cnt - 1
              /\ Parent(e) = Child(Parent(Parent(e)), Last(Parent(e)))
            BY <4>2, <4>4, TreeFacts
        <5>2. Parent(Parent(e)) = Root
          <6>1. Level(e) \in 1..2 /\ Level(Parent(e)) + 1 = Level(e)
              BY <4>1, TreeFacts
          <6>2. Level(Parent(e)) = 1
            <7>1. Level(Parent(e)) \in 1..2
                BY <4>2, <4>4, TreeFacts
            <7>2. \A m, n \in 1..2 : m + 1 = n => m = 1
                OBVIOUS
            <7> QED BY <6>1, <7>1, <7>2
          <6>3. Parent(e) \in Nodes
              BY <4>2, TreeFacts
          <6> QED BY <4>4, <6>2, <6>3, BlocksOfRoot
        <5>3. Fill(Parent(e)) \in Pending'
            BY <4>4, <5>1, <5>2, <2>4
        <5>4. Fills(Fill(Parent(e)), e)
            BY <4>1 DEF Fills, Fill
        <5> QED BY <5>3, <5>4
      <4>5. d = Root \/ d = Parent(e)
          BY <3>2, <2>10, <1>1 DEF Fills
      <4> QED BY <4>3, <4>4, <4>5
    <3> QED BY <3>1, <3>2
  <2> QED BY <1>2, <2>7, <2>8, <2>9, <2>10
<1>11. FilledEach'
  <2> SUFFICES ASSUME ByElement, data[Root].memory # Null
               PROVE  \A e \in Elements' : InPlace(e)'
    <3>1. data[Root].memory = Null => (data[Root].memory = Null)'
        BY <1>6 DEF Root, Null
    <3> QED BY <1>3, <3>1 DEF FilledEach
  <2>1. FillByElement(d) /\ d = Root
    <3>1. FillByElement(d)
        BY <1>5 DEF FillWith, ByElement
    <3> HIDE DEF Pending
    <3> QED BY <3>1, <1>1, <1>2, <1>4 DEF Placing, RootFills, ByElement
  <2>2. data[Root].partitioner # NoPartitioner
    <3>1. step >= PartitionStep
      <4>1. Len(Statements) > PartitionStep /\ PartitionStep \in Nat
            /\ Len(Statements) \in Nat
          BY StatementFacts DEF FillCalled, Tree, PartitionStep
      <4> QED BY <4>1 DEF FillCalled
    <3> HIDE DEF Pending
    <3> QED BY <3>1, <1>4 DEF Placing, RootCut
  <2>3. program.fill.kind # "hilbert"
      BY DEF ByElement
  <2> QED BY <1>8, <2>1, <2>2, <2>3, FillPlaces
<1> QED BY <1>9, <1>10, <1>11 DEF Filled

\* The statement that fills calls the fill of the whole.
LEMMA FilledStatement ==
    ASSUME Tree, Statement
    PROVE  Filled'
<1>0. PICK c : c = Statements[step + 1]
    OBVIOUS
<1>1. /\ step' = step + 1 /\ program' = program /\ Statements' = Statements
      /\ Pending' = {c} /\ c.d = Root
    BY <1>0, StatementMakes
<1> SUFFICES ASSUME FillCalled'
             PROVE  Filled'
    BY DEF Filled, OnlyFills, FilledAll, FilledEach
<1>2. c = Fill(Root)
  <2>1. step + 1 = Len(Statements) /\ program.fill.kind # "none"
      BY <1>1 DEF FillCalled
  <2>2. Statements[Len(Statements)] = Fill(Root)
      BY <2>1, StatementFacts DEF Tree
  <2> QED BY <1>0, <2>1, <2>2
<1>3. c.fn = "fill"
    BY <1>2 DEF Fill
<1>4. \A e : Fills(c, e)'
    BY <1>2 DEF Fills, Fill, Root
<1> HIDE DEF Pending
<1>5. c \in Pending' /\ Pending' # {}
    BY <1>1
<1>6. \A e : (\E b \in Pending : Fills(b, e))'
    BY <1>4, <1>5
<1> QED BY <1>1, <1>3, <1>5, <1>6 DEF Filled, OnlyFills, FilledAll, FilledEach

\* Nothing is filled when a partitioner is made.
LEMMA FilledPartitioner ==
    ASSUME Tree, Filled, NewPartitioner \/ SetNext, data' = data
    PROVE  Filled'
<1>1. program' = program /\ shape' = shape /\ step' = step
    BY DEF NewPartitioner, SetNext, Makes
<1>2. Pending = {Head(calls)} /\ Head(calls).fn \in {"GPartitioner", "set_next"}
    BY PartitionerStep
<1> HIDE DEF Pending
<1>3. ~FillCalled
    BY <1>2 DEF Filled, OnlyFills
<1>4. ~FillCalled'
    BY <1>1, <1>3, SameShape DEF FillCalled
<1> QED BY <1>4 DEF Filled, OnlyFills, FilledAll, FilledEach

\* Nothing changes when nothing is called.
LEMMA FilledStutter ==
    ASSUME Filled, UNCHANGED vars
    PROVE  Filled'
<1>1. /\ program' = program /\ shape' = shape /\ step' = step /\ calls' = calls
      /\ data' = data /\ content' = content /\ partitioners' = partitioners
    BY DEF vars
<1>2. Pending' = Pending
    BY <1>1 DEF Pending, Members
<1>3. (FillCalled' <=> FillCalled) /\ (ByElement' <=> ByElement)
    BY <1>1, SameShape DEF FillCalled, ByElement
<1>4. /\ \A e : Cells(e)' = Cells(e)
      /\ Root' = Root /\ Null' = Null /\ \A e : Parent(e)' = Parent(e)
      /\ \A c, e : Fills(c, e)' <=> Fills(c, e)
    BY <1>1 DEF Cells, CellsFrom, Size, Plus, Root, Parent, Fills, Null
<1>5. /\ Elements' = Elements
      /\ \A i, j : Wanted(i, j)' = Wanted(i, j)
      /\ \A i, j : StoredAt(i, j)' = StoredAt(i, j)
    BY <1>1 DEF Elements, Root, Wanted, RowValue, MolerValue, CholDiagValue, HilbertValue,
                StoredAt, Cut
<1>6. \A e : InPlace(e)' <=> InPlace(e)
    BY <1>1, <1>4, <1>5 DEF InPlace, Plus
<1> HIDE DEF Pending
<1>7. OnlyFills' /\ FilledAll'
    BY <1>1, <1>2, <1>3, <1>4 DEF Filled, OnlyFills, FilledAll
<1>8. FilledEach'
    BY <1>1, <1>2, <1>3, <1>4, <1>5, <1>6 DEF Filled, FilledEach
<1> QED BY <1>7, <1>8 DEF Filled

\* Every step leaves what the fill has filled.
LEMMA FilledNext ==
    ASSUME Tree, Allocated, Placing, Filled, [Next]_vars
    PROVE  Filled'
<1>1. CASE Statement
    BY <1>1, FilledStatement
<1>2. CASE (NewPartitioner \/ SetNext) /\ UNCHANGED <<data, content>>
    BY <1>2, FilledPartitioner
<1>3. CASE calls # <<>> /\ Body(Head(calls).d) /\ UNCHANGED partitioners
  <2>1. Head(calls).d \in Nodes
      BY <1>3, HeadFacts
  <2> QED BY <1>3, <2>1, FilledBody
<1>4. CASE UNCHANGED vars
    BY <1>4, FilledStutter
<1> QED BY <1>1, <1>2, <1>3, <1>4 DEF Next, Terminated


(* What is read *)

\* What the schedulers and the fills have done together.
FillingInv == Tree /\ Allocated /\ Guesting /\ Sharing /\ Placing /\ Filled

\* Data are cut, given memory and filled in this order, whatever the program.
LEMMA FillingInductive == Spec => []FillingInv
<1>1. Init => FillingInv
  <2> SUFFICES ASSUME Init
               PROVE  FillingInv
      OBVIOUS
  <2>1. Tree /\ Allocated /\ Pending = {} /\ DOMAIN data = {}
      BY TreeInit
  <2> HIDE DEF Pending
  <2>2. ~SetByProgram /\ step = 0 /\ DOMAIN content = {}
      BY DEF Init, SetByProgram
  <2>3. PartitionStep \in Nat \ {0} /\ Len(Statements) # 0
    <3>1. program.levels \in {1, 2} /\ Len(Statements) \in PartitionStep..7
        BY <2>1, StatementFacts DEF Tree
    <3>2. PartitionStep \in Nat \ {0}
        BY <3>1 DEF PartitionStep
    <3> QED BY <3>1, <3>2
  <2>4. Guesting
      BY <2>1 DEF Guesting
  <2>5. Sharing
      BY <2>1, <2>2 DEF Sharing, SetLast, NothingYet, Relinking, Uncut, RootFirst, OneValue,
                        SetAbove, Handing, Shared
  <2>6. Placing
      BY <2>1, <2>2, <2>3 DEF Placing, RootCut, RootBare, Linked, Written, RootFills
  <2>7. Filled
      BY <2>1, <2>2, <2>3 DEF Filled, OnlyFills, FilledAll, FilledEach, FillCalled
  <2> QED BY <2>1, <2>4, <2>5, <2>6, <2>7 DEF FillingInv
<1>2. FillingInv /\ [Next]_vars => FillingInv'
    BY TreeNext, GuestingNext, SharingNext, PlacingNext, FilledNext DEF FillingInv
<1> QED BY <1>1, <1>2, PTL DEF Spec

\* Once the program is over its fill has reached all the data it is to reach.
LEMMA FilledAtRest ==
    ASSUME FillingInv, AtRest, FillCalled
    PROVE  /\ Pending = {} /\ ~Linking
           /\ Root \in DOMAIN data /\ data[Root].partitioner # NoPartitioner
           /\ program.memory => SetByProgram
           /\ program.fill.kind = "with" =>
                 \A d \in DOMAIN data : data[d].memory # Null =>
                     \A a \in Cells(d) : a \in DOMAIN content /\ content[a] = program.fill.start
           /\ ByElement => data[Root].memory = Null \/ \A e \in Elements : InPlace(e)
<1>1. Pending = {}
    BY NoMembers DEF AtRest, Pending
<1> HIDE DEF Pending
<1>2. step >= PartitionStep /\ step = Len(Statements) /\ step \in Nat
  <2>1. program.levels \in {1, 2} /\ Len(Statements) \in PartitionStep..7
      BY StatementFacts DEF FillingInv, Tree
  <2>2. PartitionStep \in Nat
      BY <2>1 DEF PartitionStep
  <2> QED BY <2>1, <2>2 DEF FillCalled
<1>3. Root \in DOMAIN data /\ data[Root].partitioner # NoPartitioner
    BY <1>1, <1>2 DEF FillingInv, Placing, RootCut
<1>4. program.memory => SetByProgram
    BY <1>2, StatementFacts DEF FillingInv, Tree, SetByProgram
<1> QED BY <1>1, <1>3, <1>4 DEF FillingInv, Filled, FilledAll, FilledEach, Linking

\* The elements of a data lie from its memory on.
LEMMA LiesAt ==
    ASSUME Tree, NEW d \in DOMAIN data, NEW n \in 0..SizeAt(Level(d)) - 1
    PROVE  Plus(data[d].memory, n) \in Cells(d)
BY TreeFacts DEF Cells, CellsFrom

\* Where print looks for the elements of a data is within the data, and for one that is
\* not cut it is where the kernels look.
LEMMA ShownWithin ==
    ASSUME Tree, NEW d \in DOMAIN data, NEW i \in 0..RowsAt(Level(d)) - 1,
           NEW j \in 0..ColsAt(Level(d)) - 1
    PROVE  /\ \E n \in 0..SizeAt(Level(d)) - 1 : Shown(d, i, j) = Plus(data[d].memory, n)
           /\ data[d].partitioner = NoPartitioner =>
                 Shown(d, i, j) = Plus(data[d].memory, ColumnMajor(i, j, RowsAt(Level(d))))
           /\ data[d].partitioner # NoPartitioner =>
                 Shown(d, i, j) = Plus(data[d].memory,
                    ElementOffset(i, j, RowsAt(Level(d) + 1), ColsAt(Level(d) + 1),
                                  shape.cut[Level(d) + 1][1]))
<1> DEFINE l == Level(d)
<1>1. /\ shape \in Shapes /\ l \in 0..2 /\ data[d].rows = RowsAt(l) /\ data[d].cols = ColsAt(l)
      /\ RowsAt(l) \in Pos /\ ColsAt(l) \in Pos
    BY TreeFacts, ShapeFacts DEF DatumOK, Tree
<1>2. ASSUME data[d].partitioner = NoPartitioner
      PROVE  /\ Shown(d, i, j) = Plus(data[d].memory, ColumnMajor(i, j, RowsAt(l)))
             /\ ColumnMajor(i, j, RowsAt(l)) \in 0..SizeAt(l) - 1
  <2>1. data[d].child_cnt = 0
      BY <1>2, TreeFacts DEF DatumOK, NoPartitioner
  <2>2. Shown(d, i, j) = Plus(data[d].memory,
                             ElementOffset(i, j, RowsAt(l) \div 1, ColsAt(l) \div 1, 1))
      BY <1>1, <2>1 DEF Shown
  <2>3. RowsAt(l) \div 1 = RowsAt(l) /\ ColsAt(l) \div 1 = ColsAt(l)
    <3>1. \A m \in Pos : m \div 1 = m
        BY DEF Pos
    <3> QED BY <1>1, <3>1
  <2> HIDE DEF l
  <2>4. PICK p, q : p = RowsAt(l) /\ q = ColsAt(l)
      OBVIOUS
  <2>5. p \in Pos /\ q \in Pos /\ i \in 0..p - 1 /\ j \in 0..q - 1
      BY <1>1, <2>4 DEF l
  <2>6. /\ ElementOffset((0 % 1) * p + i, (0 \div 1) * q + j, p, q, 1) =
              0 * (p * q) + ColumnMajor(i, j, p)
        /\ ColumnMajor(i, j, p) \in 0..p * q - 1
    <3>1. 1 \in Pos /\ 0 \in 0..1 * 1 - 1
        BY DEF Pos
    <3> QED BY <2>5, <3>1, StoredInBlock
  <2>7. (0 % 1) * p + i = i /\ (0 \div 1) * q + j = j
      BY <2>5 DEF Pos
  <2>8. 0 * (p * q) + ColumnMajor(i, j, p) = ColumnMajor(i, j, p)
    <3>1. p * q \in Int
        BY <2>5, SMT DEF Pos
    <3>2. \A a, b \in Int : \A c \in 0..b : 0 * a + c = c
        OBVIOUS
    <3>3. p * q - 1 \in Int
        BY <3>1
    <3> QED BY <2>6, <3>1, <3>2, <3>3
  <2> QED BY <2>2, <2>3, <2>4, <2>6, <2>7, <2>8 DEF SizeAt
<1>3. ASSUME data[d].partitioner # NoPartitioner
      PROVE  /\ Shown(d, i, j) = Plus(data[d].memory,
                   ElementOffset(i, j, RowsAt(l + 1), ColsAt(l + 1), shape.cut[l + 1][1]))
             /\ ElementOffset(i, j, RowsAt(l + 1), ColsAt(l + 1), shape.cut[l + 1][1])
                   \in 0..SizeAt(l) - 1
  <2>1. /\ l \in 0..1 /\ l + 1 \in 1..2 /\ data[d].child_cnt # 0 /\ Cut(d) = shape.cut[l + 1]
      BY <1>3, TreeFacts DEF Pos
  <2>2. l + 1 - 1 = l /\ l + 1 \in 0..2
      BY <2>1
  <2> HIDE DEF l
  <2>3. PICK y, x, p, q : /\ y = shape.cut[l + 1][1] /\ x = shape.cut[l + 1][2]
                          /\ p = RowsAt(l + 1) /\ q = ColsAt(l + 1)
      OBVIOUS
  <2>4. /\ y \in Pos /\ x \in Pos /\ p \in Pos /\ q \in Pos
        /\ p = RowsAt(l) \div y /\ q = ColsAt(l) \div x
        /\ y * p = RowsAt(l) /\ x * q = ColsAt(l)
        /\ (y * x) * (p * q) = SizeAt(l)
    <3>1. Count(l + 1) * SizeAt(l + 1) = SizeAt(l)
        BY <1>1, <2>1, <2>2, ShapeFacts
    <3>2. (y * x) * (p * q) = SizeAt(l)
        BY <3>1, <2>3 DEF Count, SizeAt
    <3> QED BY <1>1, <2>1, <2>2, <2>3, <3>2, ShapeFacts
  <2>5. Shown(d, i, j) = Plus(data[d].memory, ElementOffset(i, j, p, q, y))
      BY <1>1, <2>1, <2>3, <2>4 DEF Shown, l
  <2>6. i \in 0..y * p - 1 /\ j \in 0..x * q - 1
      BY <2>4 DEF l
  <2>7. OneInEach(y, x, p, q)
      BY <2>4, StoredOnce
  <2>8. ElementOffset(i, j, p, q, y) \in 0..(y * x) * (p * q) - 1
      BY <2>6, <2>7 DEF OneInEach
  <2> QED BY <2>3, <2>4, <2>5, <2>8
<1> QED BY <1>2, <1>3


\* The part of a block that shares its parent's memory is a part of its parent's.
LEMMA WithinParent ==
    ASSUME Tree, Sharing, AtRest, NEW d \in DOMAIN data, d # Root, Tied(Parent(d)),
           data[d].memory # Null
    PROVE  LET above == data[Parent(d)].memory
               from  == Last(d) * SizeAt(Level(d))
           IN
           /\ above # Null /\ above \in Addresses /\ from \in Nat
           /\ data[d].memory = Plus(above, from) /\ data[d].memory.buf = above.buf
           /\ \A n \in 0..SizeAt(Level(d)) - 1 :
                 /\ from + n \in 0..SizeAt(Level(Parent(d))) - 1
                 /\ Plus(data[d].memory, n) = Plus(above, from + n)
<1>1. PICK p, k, l, m : /\ p = Parent(d) /\ k = Last(d) /\ l = Level(p)
                        /\ m = data[Parent(d)].memory
    OBVIOUS
<1>2. /\ p \in DOMAIN data /\ data[p].partitioner # NoPartitioner
      /\ l + 1 = Level(d) /\ k \in 0..data[p].child_cnt - 1 /\ d = Child(p, k)
    BY <1>1, TreeFacts
<1>3. /\ l \in 0..1 /\ l + 1 \in 1..2 /\ l + 1 \in 0..2 /\ l + 1 - 1 = l
      /\ data[p].child_cnt = Count(l + 1) /\ m \in Place(l) /\ shape \in Shapes
  <2>1. l \in 0..1 /\ data[p].child_cnt = Count(l + 1) /\ m \in Place(l)
      BY <1>1, <1>2, TreeFacts
  <2> QED BY <2>1 DEF Tree
<1>4. m \in Addresses
    BY <1>3, PlaceFacts
<1>5. PICK c, s : c = Count(l + 1) /\ s = SizeAt(l + 1)
    OBVIOUS
<1>6. c \in Pos /\ s \in Pos /\ c * s = SizeAt(l)
    BY <1>3, <1>5, ShapeFacts
<1>7. data[d].memory = PartOf(m, l, k)
    BY <1>1, <1>2, PartsAtRest
<1>8. m # Null /\ data[d].memory = Plus(m, k * s)
    BY <1>5, <1>7 DEF PartOf
<1>9. k \in 0..c - 1 /\ k \in Nat
    BY <1>2, <1>3, <1>5, <1>6 DEF Pos
<1>10. k * s \in Nat
    BY <1>6, <1>9, SMT DEF Pos
<1>11. data[d].memory.buf = m.buf
    BY <1>4, <1>8, <1>10, PlusFacts
<1>12. ASSUME NEW n \in 0..s - 1
       PROVE  k * s + n \in 0..c * s - 1 /\ Plus(data[d].memory, n) = Plus(m, k * s + n)
  <2>1. k * s + n \in 0..c * s - 1
      BY <1>6, <1>9, Parts
  <2>2. n \in Nat
      BY <1>6 DEF Pos
  <2> QED BY <2>1, <2>2, <1>4, <1>8, <1>10, PlusFacts
<1> QED BY <1>1, <1>2, <1>4, <1>5, <1>6, <1>8, <1>10, <1>11, <1>12

\* When the program has set the memory of the whole, or nobody but SuperGlue would, the
\* memory of all that has some is shared out.
LEMMA AllTied ==
    ASSUME FillingInv, Has("DT") => SetByProgram, NEW d \in DOMAIN data,
           data[d].memory # Null
    PROVE  \A e : Tied(e)
<1> SUFFICES ASSUME ~Static, ~Has("SG")
             PROVE  FALSE
    BY DEF Tied
<1>1. ~SetByProgram
  <2> SUFFICES ASSUME SetByProgram
               PROVE  FALSE
      OBVIOUS
  <2>1. PICK i \in 1..step : Statements[i].fn = "set_memory"
      BY DEF SetByProgram
  <2>2. i \in 1..Len(Statements)
    <3>1. step \in 0..Len(Statements) /\ Len(Statements) \in PartitionStep..7
        BY StatementFacts DEF FillingInv, Tree, Phase
    <3>2. program.levels \in {1, 2}
        BY StatementFacts DEF FillingInv, Tree
    <3>3. PartitionStep \in Nat
        BY <3>2 DEF PartitionStep
    <3> QED BY <3>1, <3>3
  <2> QED BY <2>1, <2>2, SetByStatement DEF FillingInv, Tree
<1> QED BY <1>1 DEF NoAllocator, FillingInv, Sharing, NothingYet

\* What a block shows of a fill by elements is the memory of the whole.
LEMMA ShownOfWhole ==
    ASSUME FillingInv, AtRest, ~Linking, program.fill.kind # "with",
           NEW d \in DOMAIN data, d # Root, data[d].memory # Null,
           NEW n \in Nat, Plus(data[d].memory, n) \in DOMAIN content
    PROVE  \A e : Tied(e)
<1>1. d \in Nodes /\ Parent(d) \in DOMAIN data /\ data[d].memory \in Addresses
  <2>1. data[d].memory \in Place(Level(d)) /\ d \in Nodes
      BY TreeFacts DEF FillingInv
  <2>2. Parent(d) \in DOMAIN data
      BY TreeFacts DEF FillingInv
  <2> QED BY <2>1, <2>2, PlaceFacts DEF FillingInv, Tree
<1>2. Plus(data[d].memory, n).buf = data[d].memory.buf
    BY <1>1, PlusFacts
<1> SUFFICES ASSUME Has("DT"), ~SetByProgram
             PROVE  FALSE
    BY AllTied
<1>3. FromSG(Plus(data[d].memory, n))
    BY DEF FillingInv, Placing, Written
<1>4. ~Static /\ Has("SG") /\ data[d].memory.buf = <<"SG">>
    BY <1>2, <1>3 DEF FromSG
<1>5. Pending = {}
    BY NoMembers DEF AtRest, Pending
<1> HIDE DEF Pending
<1>6. \A e \in DOMAIN data : Level(e) = 1 => data[e].memory.buf # <<"SG">>
    BY <1>4, <1>5 DEF FillingInv, Placing, Linked
<1>7. Parent(d) # Root
    BY <1>1, <1>4, <1>6, BlocksOfRoot
<1>8. Tied(Parent(d))
    BY <1>4, <1>7 DEF Tied
<1>9. data[Parent(d)].memory.buf = <<"SG">>
    BY <1>4, <1>8, WithinParent DEF FillingInv
<1>10. Level(Parent(d)) = 1
  <2>1. Level(Parent(d)) \in 1..2 /\ Level(d) \in 1..2 /\ Level(Parent(d)) + 1 = Level(d)
      BY <1>1, <1>7, TreeFacts DEF FillingInv
  <2>2. \A a, b \in 1..2 : a + 1 = b => a = 1
      OBVIOUS
  <2> QED BY <2>1, <2>2
<1> QED BY <1>1, <1>6, <1>9, <1>10

\* All the elements of d have value v.
AllAre(d, v) ==
    \A n \in 0..SizeAt(Level(d)) - 1 :
        /\ Plus(data[d].memory, n) \in DOMAIN content
        /\ content[Plus(data[d].memory, n)] = v

\* A matrix that is filled with one value has it everywhere.
LEMMA SameInWhole ==
    ASSUME FillingInv, AtRest, FillCalled, ByElement, SameValue(program.fill),
           data[Root].memory # Null
    PROVE  /\ AllAre(Root, program.fill.start)
           /\ \A i, j \in Nat : Wanted(i, j) = program.fill.start
<1>1. program.fill.kind = "rows" /\ program.fill.scale = 0 /\ program.fill.start \in Nat
    BY ProgramsAssumption DEF ByElement, SameValue, FillingInv, Tree
<1>2. \A i, j \in Nat : Wanted(i, j) = program.fill.start
  <2>1. \A i, j : Wanted(i, j) = program.fill.start + i * 0
      BY <1>1 DEF Wanted, RowValue
  <2>2. \A i, s \in Nat : s + i * 0 = s
      OBVIOUS
  <2> QED BY <1>1, <2>1, <2>2
<1>3. ASSUME NEW n \in 0..SizeAt(0) - 1
      PROVE  /\ Plus(data[Root].memory, n) \in DOMAIN content
             /\ content[Plus(data[Root].memory, n)] = program.fill.start
  <2>1. /\ Root \in DOMAIN data /\ data[Root].partitioner # NoPartitioner
        /\ \A e \in Elements : InPlace(e)
      BY FilledAtRest
  <2>2. PICK e \in Elements : n = StoredAt(e[1], e[2])
      BY <2>1, StoredInWhole DEF FillingInv, ByElement
  <2>3. e[1] \in Nat /\ e[2] \in Nat
    <3>1. shape.M \in Nat \ {0} /\ shape.N \in Nat \ {0}
        BY ShapesAssumption DEF FillingInv, Tree
    <3>2. \A m \in Nat \ {0} : \A i \in 0..m - 1 : i \in Nat
        OBVIOUS
    <3> QED BY <3>1, <3>2 DEF Elements
  <2>4. Wanted(e[1], e[2]) = program.fill.start
      BY <1>2, <2>3
  <2> QED BY <2>1, <2>2, <2>4 DEF InPlace
<1>4. Level(Root) = 0
    BY DEF Level, Root
<1> QED BY <1>2, <1>3, <1>4 DEF AllAre

\* A block that shares its parent's memory has its parent's value.
LEMMA SameInBlock ==
    ASSUME FillingInv, AtRest, NEW d \in DOMAIN data, d # Root, Tied(Parent(d)),
           data[d].memory # Null, NEW v, AllAre(Parent(d), v)
    PROVE  AllAre(d, v)
BY WithinParent DEF AllAre, FillingInv

\* Where all memory is shared out every block has the value of the whole.
LEMMA SameInAll ==
    ASSUME FillingInv, AtRest, FillCalled, ByElement, SameValue(program.fill),
           \A e : Tied(e), NEW d \in DOMAIN data, d # Root, data[d].memory # Null
    PROVE  AllAre(d, program.fill.start) /\ data[Root].memory # Null
<1>1. /\ d \in Nodes /\ Parent(d) \in DOMAIN data /\ Parent(d) \in Nodes
      /\ data[Parent(d)].memory # Null
    BY TreeFacts, WithinParent DEF FillingInv
<1>2. CASE Parent(d) = Root
    BY <1>1, <1>2, SameInWhole, SameInBlock
<1>3. CASE Parent(d) # Root
  <2>1. Parent(Parent(d)) \in DOMAIN data /\ data[Parent(Parent(d))].memory # Null
      BY <1>1, <1>3, TreeFacts, WithinParent DEF FillingInv
  <2>2. Parent(Parent(d)) = Root
    <3>1. /\ Level(Parent(d)) \in 1..2 /\ Level(d) \in 1..2
          /\ Level(Parent(d)) + 1 = Level(d)
        BY <1>1, <1>3, TreeFacts DEF FillingInv
    <3>2. \A a, b \in 1..2 : a + 1 = b => a = 1
        OBVIOUS
    <3> QED BY <1>1, <1>3, <3>1, <3>2, BlocksOfRoot
  <2> QED BY <1>1, <1>3, <2>1, <2>2, SameInWhole, SameInBlock
<1> QED BY <1>2, <1>3


\* In a matrix that is cut once a block of the whole holds the elements its coordinates
\* say, each in its column and row.
LEMMA BlockOfFill ==
    ASSUME FillingInv, AtRest, FillCalled, ByElement, \A e : Tied(e),
           NEW d \in DOMAIN data, Level(d) = 1, data[d].memory # Null,
           NEW i \in 0..RowsAt(1) - 1, NEW j \in 0..ColsAt(1) - 1
    PROVE  LET a == Plus(data[d].memory, ColumnMajor(i, j, RowsAt(1))) IN
           a \in DOMAIN content /\ content[a] = Wanted(Origin(d)[1] + i, Origin(d)[2] + j)
<1>1. /\ Tree /\ shape \in Shapes /\ d \in Nodes /\ d # Root /\ Parent(d) = Root
      /\ Level(Root) = 0
  <2>1. d # Root /\ Level(Root) = 0
      BY DEF Level, Root
  <2>2. d \in Nodes
      BY TreeFacts DEF FillingInv
  <2> QED BY <2>1, <2>2, BlocksOfRoot DEF FillingInv, Tree
<1>2. /\ Root \in DOMAIN data /\ data[Root].partitioner # NoPartitioner
      /\ data[Root].memory = Null \/ \A e \in Elements : InPlace(e)
    BY FilledAtRest
<1>3. PICK y, x, p, q, k : /\ y = shape.cut[1][1] /\ x = shape.cut[1][2]
                           /\ p = RowsAt(1) /\ q = ColsAt(1) /\ k = Last(d)
    OBVIOUS
<1>4. /\ y \in Pos /\ x \in Pos /\ p \in Pos /\ q \in Pos
      /\ y * p = shape.M /\ x * q = shape.N /\ SizeAt(1) = p * q
  <2>1. 1 - 1 = 0 /\ 1 \in 1..2 /\ 1 \in 0..2
      OBVIOUS
  <2> QED BY <1>1, <1>3, <2>1, ShapeFacts DEF SizeAt
<1>5. k \in 0..y * x - 1 /\ d[1] = k
  <2>1. Last(d) \in 0..data[Root].child_cnt - 1
      BY <1>1, TreeFacts
  <2>2. data[Root].child_cnt = Count(0 + 1)
      BY <1>1, <1>2, TreeFacts
  <2>3. data[Root].child_cnt = y * x
      BY <1>3, <2>2 DEF Count
  <2>4. Last(d) = d[1]
      BY DEF Last, Level
  <2> QED BY <1>3, <2>1, <2>3, <2>4
<1>6. PICK r, c, n : /\ r = (k % y) * p + i /\ c = (k \div y) * q + j
                     /\ n = ColumnMajor(i, j, p)
    OBVIOUS
<1>7. /\ r \in 0..y * p - 1 /\ c \in 0..x * q - 1
      /\ ElementOffset(r, c, p, q, y) = k * (p * q) + n
      /\ n \in 0..p * q - 1
  <2>1. i \in 0..p - 1 /\ j \in 0..q - 1
      BY <1>3
  <2> QED BY <1>4, <1>5, <1>6, <2>1, StoredInBlock
<1>8. <<r, c>> \in Elements
    BY <1>4, <1>7 DEF Elements
<1>9. StoredAt(r, c) = k * (p * q) + n
    BY <1>1, <1>2, <1>3, <1>7, StoredInWhole DEF ByElement
<1>10. /\ data[Root].memory # Null
       /\ Plus(data[d].memory, n) = Plus(data[Root].memory, k * (p * q) + n)
    BY <1>1, <1>3, <1>4, <1>7, WithinParent DEF FillingInv
<1>11. /\ Plus(data[d].memory, n) \in DOMAIN content
       /\ content[Plus(data[d].memory, n)] = Wanted(r, c)
  <2>1. InPlace(<<r, c>>)
      BY <1>2, <1>8, <1>10
  <2> QED BY <2>1, <1>9, <1>10 DEF InPlace
<1>12. Origin(d) = <<(k % y) * p, (k \div y) * q>>
    BY <1>1, <1>3, <1>5, OriginFacts
<1> QED BY <1>3, <1>6, <1>11, <1>12

\* What the program has filled the matrix with is what the kernels read, in every program
\* whose fill goes to the memory of the blocks and, element by element, follows the cut
\* they are of: whoever handed the memory down, and in whatever order, element (i, j) of
\* a block is in the place where the fill has put it through the whole.
THEOREM KernelsReadTheFill ==
    ASSUME \A p \in Programs : FilledForKernels(p)
    PROVE  Spec => []KernelsSeeTheFill
<1>1. FillingInv => KernelsSeeTheFill
  <2> SUFFICES ASSUME FillingInv, AtRest, FillCalled,
                      NEW d \in DOMAIN data, Level(d) = KernelLevel, data[d].memory # Null,
                      NEW i \in 0..data[d].rows - 1, NEW j \in 0..data[d].cols - 1
               PROVE  LET a == Plus(data[d].memory, ColumnMajor(i, j, data[d].rows)) IN
                      /\ a \in DOMAIN content
                      /\ content[a] = Wanted(Origin(d)[1] + i, Origin(d)[2] + j)
      BY DEF KernelsSeeTheFill, FillCalled
  <2>1. /\ Tree /\ shape \in Shapes /\ program \in Programs /\ FilledForKernels(program)
        /\ program.fill.kind # "none"
      BY DEF FillingInv, Tree, FillCalled
  <2>2. /\ data[d].rows = RowsAt(Level(d)) /\ data[d].cols = ColsAt(Level(d))
        /\ d \in Nodes /\ Level(d) \in 1..2 /\ d # Root
    <3>1. Level(d) \in 1..2
        BY DEF KernelLevel
    <3>2. Level(Root) = 0
        BY DEF Level, Root
    <3>3. d # Root
        BY <3>1, <3>2
    <3> QED BY <2>1, <3>1, <3>3, TreeFacts DEF DatumOK
  <2>3. PICK n : n = ColumnMajor(i, j, data[d].rows)
      OBVIOUS
  <2>4. n \in 0..SizeAt(Level(d)) - 1
    <3>1. RowsAt(Level(d)) \in Pos /\ ColsAt(Level(d)) \in Pos
      <4>1. Level(d) \in 0..2
          BY <2>2
      <4> QED BY <2>1, <4>1, ShapeFacts
    <3> QED BY <2>2, <2>3, <3>1, Columns DEF SizeAt
  <2>5. CASE program.fill.kind = "with"
    <3>1. Plus(data[d].memory, n) \in Cells(d)
        BY <2>1, <2>4, LiesAt
    <3> QED BY <2>3, <2>5, <3>1, FilledAtRest DEF Wanted
  <2>6. CASE program.fill.kind # "with"
    <3>1. ByElement
        BY <2>1, <2>6 DEF FilledForKernels, ByElement
    <3>2. \A e : Tied(e)
      <4>1. Has("DT") => SetByProgram
          BY <2>1, <2>6, FilledAtRest DEF FilledForKernels, Has
      <4> QED BY <4>1, AllTied
    <3>3. CASE Level(d) = 1
        BY <2>2, <3>1, <3>2, <3>3, BlockOfFill
    <3>4. CASE Level(d) # 1
      <4>1. Level(d) = 2 /\ Cardinality(program.scheds) = 2
          BY <3>4 DEF KernelLevel
      <4>2. program.levels # 1
        <5>1. /\ Parent(d) \in DOMAIN data /\ data[Parent(d)].partitioner # NoPartitioner
              /\ Level(Parent(d)) + 1 = 2
            BY <2>1, <2>2, <4>1, TreeFacts
        <5>2. 2 \in 1..Len(partitioners)
            BY <2>1, <5>1, TreeFacts
        <5>3. Len(partitioners) <= program.levels /\ Len(partitioners) \in Nat
            BY <2>1 DEF Tree, PartitionersOK
        <5> QED BY <5>2, <5>3
      <4>3. SameValue(program.fill)
          BY <2>1, <2>6, <4>1, <4>2 DEF FilledForKernels
      <4>4. AllAre(d, program.fill.start)
          BY <2>2, <3>1, <3>2, <4>3, SameInAll
      <4>5. Wanted(Origin(d)[1] + i, Origin(d)[2] + j) = program.fill.start
        <5>1. Origin(d)[1] \in Nat /\ Origin(d)[2] \in Nat
            BY <2>1, OriginFacts
        <5>2. i \in Nat /\ j \in Nat
          <6>1. data[d].rows \in Nat /\ data[d].cols \in Nat
              BY <2>1, TreeFacts DEF Datum
          <6> QED BY <6>1
        <5>3. Origin(d)[1] + i \in Nat /\ Origin(d)[2] + j \in Nat
            BY <5>1, <5>2
        <5>4. data[Root].memory # Null
            BY <2>2, <3>1, <3>2, <4>3, SameInAll
        <5> QED BY <3>1, <4>3, <5>3, <5>4, SameInWhole
      <4> QED BY <2>3, <2>4, <4>4, <4>5 DEF AllAre
    <3> QED BY <3>3, <3>4
  <2> QED BY <2>5, <2>6
<1> QED BY <1>1, FillingInductive, PTL


\* print of a data that has memory shows the elements the program has filled the matrix
\* with, each in its place, in every program whose fill follows the cut print reads by:
\* of the whole in any case, of the blocks when they are not cut or all elements are the
\* same; a block DuctTeip has elsewhere, in which nothing has been written, is left out.
THEOREM PrintReadsTheFill ==
    ASSUME \A p \in Programs : FilledForPrint(p)
    PROVE  Spec => []PrintShowsTheFill
<1>1. FillingInv => PrintShowsTheFill
  <2> SUFFICES ASSUME FillingInv, AtRest, FillCalled,
                      NEW d \in DOMAIN data, data[d].memory # Null,
                      Shown(d, 0, 0) \in DOMAIN content,
                      NEW i \in 0..data[d].rows - 1, NEW j \in 0..data[d].cols - 1
               PROVE  content[Shown(d, i, j)] = Wanted(Origin(d)[1] + i, Origin(d)[2] + j)
      BY DEF PrintShowsTheFill, FillCalled
  <2>1. /\ Tree /\ shape \in Shapes /\ program \in Programs /\ FilledForPrint(program)
        /\ program.fill.kind \notin {"none", "hilbert"} /\ ~Linking
      BY FilledAtRest DEF FillingInv, Tree, FillCalled, FilledForPrint
  <2>2. /\ data[d].rows = RowsAt(Level(d)) /\ data[d].cols = ColsAt(Level(d))
        /\ Level(d) \in 0..2 /\ RowsAt(Level(d)) \in Pos /\ ColsAt(Level(d)) \in Pos
      BY <2>1, TreeFacts, ShapeFacts DEF DatumOK
  <2>3. PICK n \in 0..SizeAt(Level(d)) - 1 : Shown(d, i, j) = Plus(data[d].memory, n)
      BY <2>1, <2>2, ShownWithin
  <2>4. CASE program.fill.kind = "with"
    <3>1. Plus(data[d].memory, n) \in Cells(d)
        BY <2>1, LiesAt
    <3> QED BY <2>3, <2>4, <3>1, FilledAtRest DEF Wanted
  <2>5. CASE program.fill.kind # "with"
    <3>1. ByElement
        BY <2>1, <2>5 DEF ByElement
    <3>2. CASE d = Root
      <4>1. Level(d) = 0 /\ 0 + 1 = 1
          BY <3>2 DEF Level, Root
      <4>2. data[d].partitioner # NoPartitioner /\ InPlace(<<i, j>>)
        <5>1. <<i, j>> \in Elements
            BY <2>1, <2>2, <4>1, ShapeFacts DEF Elements
        <5> QED BY <3>1, <3>2, <5>1, FilledAtRest
      <4>3. Shown(d, i, j) = Plus(data[d].memory, StoredAt(i, j))
        <5>1. Shown(d, i, j) = Plus(data[d].memory,
                    ElementOffset(i, j, RowsAt(1), ColsAt(1), shape.cut[1][1]))
            BY <2>1, <2>2, <4>1, <4>2, ShownWithin
        <5> QED BY <2>1, <3>2, <4>2, <5>1, StoredInWhole
      <4>4. Origin(d) = <<0, 0>>
          BY <2>1, <4>1, OriginFacts
      <4>5. 0 + i = i /\ 0 + j = j
        <5>1. \A m \in Pos : \A k \in 0..m - 1 : 0 + k = k
            BY DEF Pos
        <5> QED BY <2>2, <5>1
      <4> QED BY <3>2, <4>2, <4>3, <4>4, <4>5 DEF InPlace
    <3>3. CASE d # Root
      <4>1. \A e : Tied(e)
        <5>1. 0 \in 0..RowsAt(Level(d)) - 1 /\ 0 \in 0..ColsAt(Level(d)) - 1
            BY <2>2 DEF Pos
        <5>2. PICK m \in 0..SizeAt(Level(d)) - 1 :
                    Shown(d, 0, 0) = Plus(data[d].memory, m)
            BY <2>1, <5>1, ShownWithin
        <5>3. m \in Nat
          <6>1. SizeAt(Level(d)) \in Nat
              BY <2>1, <2>2, ShapeFacts DEF Pos
          <6> QED BY <6>1
        <5> QED BY <2>1, <2>5, <3>3, <5>2, <5>3, ShownOfWhole
      <4>2. CASE SameValue(program.fill)
        <5>1. AllAre(d, program.fill.start) /\ data[Root].memory # Null
            BY <3>1, <3>3, <4>1, <4>2, SameInAll
        <5>2. Origin(d)[1] \in Nat /\ Origin(d)[2] \in Nat
            BY <2>1, OriginFacts
        <5>3. i \in Nat /\ j \in Nat
          <6>1. \A m \in Pos : \A k \in 0..m - 1 : k \in Nat
              BY DEF Pos
          <6> QED BY <2>2, <6>1
        <5>4. Origin(d)[1] + i \in Nat /\ Origin(d)[2] + j \in Nat
            BY <5>2, <5>3
        <5>5. Wanted(Origin(d)[1] + i, Origin(d)[2] + j) = program.fill.start
            BY <3>1, <4>2, <5>1, <5>4, SameInWhole
        <5> QED BY <2>3, <5>1, <5>5 DEF AllAre
      <4>3. CASE ~SameValue(program.fill)
        <5>1. program.levels = 1
            BY <2>1, <4>3 DEF FilledForPrint
        <5>2. Len(partitioners) \in Nat /\ Len(partitioners) <= 1
            BY <2>1, <5>1 DEF Tree, PartitionersOK
        <5>3. Level(d) = 1
          <6>1. /\ Parent(d) \in DOMAIN data /\ Level(d) \in 1..2
                /\ data[Parent(d)].partitioner # NoPartitioner
                /\ Level(Parent(d)) + 1 = Level(d)
              BY <2>1, <3>3, TreeFacts
          <6>2. Level(d) \in 1..Len(partitioners)
              BY <2>1, <6>1, TreeFacts
          <6>3. \A a, b : b \in Nat /\ b <= 1 /\ a \in 1..b => a = 1
              OBVIOUS
          <6> QED BY <5>2, <6>2, <6>3
        <5>4. data[d].partitioner = NoPartitioner
          <6> SUFFICES ASSUME data[d].partitioner # NoPartitioner
                       PROVE  FALSE
              OBVIOUS
          <6>1. 1 + 1 \in 1..Len(partitioners)
              BY <2>1, <5>3, TreeFacts
          <6> QED BY <5>2, <6>1
        <5>5. Shown(d, i, j) = Plus(data[d].memory, ColumnMajor(i, j, RowsAt(1)))
            BY <2>1, <2>2, <5>3, <5>4, ShownWithin
        <5> QED BY <2>2, <3>1, <4>1, <5>3, <5>5, BlockOfFill
      <4> QED BY <4>2, <4>3
    <3> QED BY <3>2, <3>3
  <2> QED BY <2>4, <2>5
<1> QED BY <1>1, FillingInductive, PTL

===============================================================================
