--------------------------- MODULE MessageQueueProof ---------------------------
(***************************************************************************)
(* Proofs about MessageQueue, for every program: what run_rpc takes for a  *)
(* key is one, and the application has every object the server names; and  *)
(* for every program that is FirstCutEarly: the server has every object    *)
(* the application names.                                                  *)
(***************************************************************************)
EXTENDS MessageQueue, FiniteSetTheorems, SequenceTheorems, TLAPS

Kinds == {"data", "part"}
Length(kind, s) == IF kind = "data" THEN Len(all_data[s]) ELSE Len(part_list[s])
DataKeys(s) == 0..(Len(all_data[s]) - 1)
PartKeys(s) == 0..(Len(part_list[s]) - 1)

(* Types *)

Datum == [parent : Int, child_idx : Int, partitioner : Int, children : Seq(Int)]
Partitioner == [y : Positive, x : Positive, next : Int]

Tags == {"DATA_CREATED", "DATA_PARTITIONED", "PARTITION_CREATED", "PARTITION_CASCADED"}
Whats == {"key", "M", "N", "child_idx", "child_cnt", "level", "parent", "partitioner",
          "x", "y", "next", "name"}
OneField == [what : Whats, val : Int]
Body == Seq(OneField)

CallNames == {"data", "child", "data_created", "partitioner", "partition_defined",
              "assert_key", "set_next", "P.set_next", "partition_cascaded",
              "set_partition", "A.set_partition", "data_partitioned"}
Calls == [call : CallNames, args : Seq(Int)]

Typed ==
    /\ all_data \in [Sides -> Seq(Datum)]
    /\ part_list \in [Sides -> Seq(Partitioner)]
    /\ queue \in [Sides -> Seq([tag : Tags, body : Body])]
    /\ todo \in [Threads -> Seq(Calls)]
    /\ mine \in [data : Seq(Int), part : Seq(Int)]
    /\ failed \subseteq Sides

\* A datum is made after its parent; what an object refers to is there.
DatumOK(s, k) ==
    /\ At(all_data[s], k).parent \in -1..(k - 1)
    /\ \/ At(all_data[s], k).partitioner = None
       \/ At(all_data[s], k).partitioner \in PartKeys(s)

DataOK == \A s \in Sides : \A k \in DataKeys(s) : DatumOK(s, k)

NextOK ==
    \A s \in Sides : \A p \in PartKeys(s) :
        At(part_list[s], p).next = None \/ At(part_list[s], p).next \in PartKeys(s)

MineOK ==
    /\ \A i \in DOMAIN mine.data : mine.data[i] \in DataKeys("app")
    /\ \A i \in DOMAIN mine.part : mine.part[i] \in PartKeys("app")

ObjectsOK == DataOK /\ NextOK /\ MineOK

\* What a call names is there, save the child that set_partition is called on.
CallOK(s, c) ==
    /\ c.call = "data" => c.args[1] = None \/ c.args[1] \in DataKeys(s)
    /\ c.call \in {"child", "data_created", "data_partitioned"} => c.args[1] \in DataKeys(s)
    /\ c.call = "data_partitioned" => At(all_data[s], c.args[1]).partitioner \in PartKeys(s)
    /\ c.call = "partitioner" => c.args[1] \in Positive /\ c.args[2] \in Positive
    /\ c.call \in {"partition_defined", "partition_cascaded", "set_next"} =>
          c.args[1] \in PartKeys(s)
    /\ c.call = "set_next" => c.args[2] = None \/ c.args[2] \in PartKeys(s)
    /\ c.call = "set_partition" => c.args[2] \in PartKeys(s)
    /\ c.call \in {"data", "child", "assert_key", "set_partition"} =>
          c.args[1] \in Int /\ c.args[2] \in Int
    /\ c.call = "partitioner" => c.args[3] \in Int
    /\ c.call \in {"P.set_next", "A.set_partition"} => s = "app"

OKCalls(s) == {c \in Calls : CallOK(s, c)}
CallsOK == \A t \in Threads : \A i \in DOMAIN todo[t] : todo[t][i] \in OKCalls(t[1])

\* The fields of a message are where run_rpc looks for them.
MessageOK(m) ==
    IF m.tag \in {"DATA_CREATED", "DATA_PARTITIONED"}
    THEN /\ Len(m.body) >= 9
         /\ m.body[1].what = "key" /\ m.body[1].val \in Nat
         /\ m.body[4].what = "child_idx"
         /\ m.body[7].what = "parent" /\ m.body[7].val \in -1..(m.body[1].val - 1)
         /\ m.body[8].what = "partitioner"
         /\ m.tag = "DATA_PARTITIONED" => m.body[8].val \in Nat
    ELSE /\ Len(m.body) = 4
         /\ m.body[1].what = "key" /\ m.body[1].val \in Nat
         /\ m.body[2].val \in Positive /\ m.body[3].val \in Positive
         /\ m.body[4].what = "next" /\ m.body[4].val \in Nat \cup {None}

MessagesOK == \A s \in Sides : \A i \in DOMAIN queue[s] : MessageOK(queue[s][i])

(* The objects of the server reach the application in their order *)

Callback(kind) == IF kind = "data" THEN "data_created" ELSE "partition_defined"
Creation(kind) == IF kind = "data" THEN "DATA_CREATED" ELSE "PARTITION_CREATED"
Constructor(kind) == IF kind = "data" THEN "data" ELSE "partitioner"

AppIo == <<"app", "io">>
ServerIo == <<"server", "io">>

\* The application has the objects up to this key, or its io thread is about to
\* construct the last of them.
Coming(kind) == todo[AppIo] # <<>> /\ Head(todo[AppIo]).call = Constructor(kind)
Bound(kind) == Length(kind, "app") + IF Coming(kind) THEN 1 ELSE 0

Creates(kind, m, k) == m.tag = Creation(kind) /\ m.body[1].val = k

\* The application has k when it comes to the n-th message.
Reaches(kind, n, k) ==
    \/ k < Bound(kind)
    \/ \E j \in DOMAIN queue["app"] : j < n /\ Creates(kind, queue["app"][j], k)

\* The keys a message names; a new object names all that are older.
Named(kind, m) ==
    {k \in Nat :
        \/ m.tag = Creation(kind) /\ k < m.body[1].val
        \/ m.tag = "DATA_PARTITIONED" /\ k = m.body[IF kind = "data" THEN 1 ELSE 8].val
        \/ /\ m.tag = "PARTITION_CASCADED" /\ kind = "part"
           /\ k \in {m.body[1].val, m.body[4].val}}

InOrder ==
    \A kind \in Kinds : \A i \in DOMAIN queue["app"] :
        \A k \in Named(kind, queue["app"][i]) : Reaches(kind, i, k)

\* The object the server has made and not broadcast.
Pending(kind, k) ==
    todo[ServerIo] # <<>> /\ Head(todo[ServerIo]).call = Callback(kind)
                          /\ Head(todo[ServerIo]).args[1] = k

Sent(kind, k) == Reaches(kind, Len(queue["app"]) + 1, k)

AllSent ==
    \A kind \in Kinds : \A k \in 0..(Length(kind, "server") - 1) :
        Sent(kind, k) \/ Pending(kind, k)

MQInv == Typed /\ ObjectsOK /\ CallsOK /\ MessagesOK /\ InOrder /\ AllSent
-------------------------------------------------------------------------------
(* Sequences *)

\* Fields put one after the other.
LEMMA FieldFacts ==
    ASSUME NEW what \in Whats, NEW val \in Int
    PROVE  /\ Field(what, val) \in Body
           /\ Len(Field(what, val)) = 1
           /\ Field(what, val)[1].what = what
           /\ Field(what, val)[1].val = val
BY DEF Field, Body, OneField

\* A field written after others is at the end; the others stay where they are.
LEMMA AddField ==
    ASSUME NEW b \in Body, NEW what \in Whats, NEW val \in Int
    PROVE  /\ b \o Field(what, val) \in Body
           /\ Len(b \o Field(what, val)) = Len(b) + 1
           /\ \A i \in 1..Len(b) : (b \o Field(what, val))[i] = b[i]
           /\ (b \o Field(what, val))[Len(b) + 1].what = what
           /\ (b \o Field(what, val))[Len(b) + 1].val = val
<1> DEFINE f == Field(what, val)
<1>0. b \in Seq(OneField) /\ f \in Seq(OneField) /\ Len(f) = 1
    BY FieldFacts DEF Body
<1> HIDE DEF f
<1>1. /\ b \o f \in Seq(OneField) /\ Len(b \o f) = Len(b) + 1
      /\ \A i \in 1..Len(b) : (b \o f)[i] = b[i]
      /\ (b \o f)[Len(b) + 1] = f[1]
    BY <1>0, ConcatProperties, SMTT(30)
<1>2. Len(b) \in Nat
    BY <1>0
<1> QED BY <1>1, <1>2, FieldFacts DEF Body, f

\* The layout of a partitioner.
LEMMA PartitionerLayout ==
    ASSUME NEW list \in Seq(Partitioner), NEW p \in 0..(Len(list) - 1), NEW what \in Whats
    PROVE  LET b == SerializePartitioner(list, p, what) IN
           /\ b \in Body /\ Len(b) = 4
           /\ b[1].what = what /\ b[1].val = p
           /\ b[2].val = At(list, p).x /\ b[3].val = At(list, p).y
           /\ b[4].what = "next" /\ b[4].val = At(list, p).next
<1> DEFINE x == At(list, p).x
           y == At(list, p).y
           n == At(list, p).next
           b1 == Field(what, p)
           b2 == b1 \o Field("x", x)
           b3 == b2 \o Field("y", y)
           b4 == b3 \o Field("next", n)
<1>1. SerializePartitioner(list, p, what) = b4
    BY DEF SerializePartitioner
<1>2. At(list, p) \in Partitioner
    BY DEF At
<1>3. x \in Int /\ y \in Int /\ n \in Int
    BY <1>2 DEF Partitioner, Positive
<1>4. "x" \in Whats /\ "y" \in Whats /\ "next" \in Whats
    BY DEF Whats
<1> HIDE DEF x, y, n
<1>5. b1 \in Body /\ Len(b1) = 1 /\ b1[1].what = what /\ b1[1].val = p
    BY FieldFacts
<1> HIDE DEF b1
<1>a. b1 \in Body
    BY <1>5
<1>6. /\ b2 \in Body /\ Len(b2) = Len(b1) + 1 /\ b2[Len(b1) + 1].val = x
      /\ \A i \in 1..Len(b1) : b2[i] = b1[i]
    BY <1>3, <1>4, <1>a, AddField
<1> HIDE DEF b2
<1>7. /\ b3 \in Body /\ Len(b3) = Len(b2) + 1 /\ b3[Len(b2) + 1].val = y
      /\ \A i \in 1..Len(b2) : b3[i] = b2[i]
    BY <1>3, <1>4, <1>6, AddField
<1> HIDE DEF b3
<1>8. /\ b4 \in Body /\ Len(b4) = Len(b3) + 1
      /\ b4[Len(b3) + 1].what = "next" /\ b4[Len(b3) + 1].val = n
      /\ \A i \in 1..Len(b3) : b4[i] = b3[i]
    BY <1>3, <1>4, <1>7, AddField
<1> HIDE DEF b4
<1>9. /\ Len(b4) = 4
      /\ b4[1] = b1[1] /\ b4[2].val = x /\ b4[3].val = y
      /\ b4[4].what = "next" /\ b4[4].val = n
    BY <1>5, <1>6, <1>7, <1>8
<1> QED BY <1>1, <1>5, <1>8, <1>9 DEF x, y, n

\* Likewise for fields written as a group, of which only the first is looked for.
LEMMA AddBody ==
    ASSUME NEW b \in Body, NEW c \in Body
    PROVE  /\ b \o c \in Body
           /\ Len(b \o c) = Len(b) + Len(c)
           /\ \A i \in 1..Len(b) : (b \o c)[i] = b[i]
           /\ Len(c) > 0 => (b \o c)[Len(b) + 1] = c[1]
<1>1. b \in Seq(OneField) /\ c \in Seq(OneField) /\ Len(b) \in Nat /\ Len(c) \in Nat
    BY DEF Body
<1>2. /\ b \o c \in Seq(OneField) /\ Len(b \o c) = Len(b) + Len(c)
      /\ \A i \in 1..Len(b) : (b \o c)[i] = b[i]
    BY <1>1, ConcatProperties, SMTT(30)
<1>3. Len(c) > 0 => (b \o c)[Len(b) + 1] = c[1]
    BY <1>1, ConcatProperties, SMTT(30)
<1> QED BY <1>2, <1>3 DEF Body

\* The layout of a datum: what follows its partitioner is not looked for.
LEMMA DataLayout ==
    ASSUME NEW list \in Seq(Partitioner), NEW datum \in Datum, NEW k \in Nat,
           datum.partitioner = None \/ datum.partitioner \in 0..(Len(list) - 1)
    PROVE  LET b == SerializeData(datum, list, k) IN
           /\ b \in Body /\ Len(b) >= 9
           /\ b[1].what = "key" /\ b[1].val = k
           /\ b[4].what = "child_idx"
           /\ b[7].what = "parent" /\ b[7].val = datum.parent
           /\ b[8].what = "partitioner" /\ b[8].val = datum.partitioner
<1> DEFINE idx == datum.child_idx
           cnt == Len(datum.children)
           par == datum.parent
           cut == datum.partitioner
           b1 == Field("key", k)
           b2 == b1 \o Field("M", 0)
           b3 == b2 \o Field("N", 0)
           b4 == b3 \o Field("child_idx", idx)
           b5 == b4 \o Field("child_cnt", cnt)
           b6 == b5 \o Field("level", 0)
           b7 == b6 \o Field("parent", par)
           c == IF cut = None THEN Field("partitioner", None)
                ELSE SerializePartitioner(list, cut, "partitioner")
           b8 == b7 \o c
           b9 == b8 \o Field("name", 0)
<1>1. SerializeData(datum, list, k) = b9
    BY DEF SerializeData
<1>2. idx \in Int /\ cnt \in Int /\ par \in Int /\ cut \in Int
    BY DEF Datum
<1>3. {"key", "M", "N", "child_idx", "child_cnt", "level", "parent", "partitioner", "name"}
          \subseteq Whats
    BY DEF Whats
<1>4. c \in Body /\ Len(c) >= 1 /\ c[1].what = "partitioner" /\ c[1].val = cut
    <2>1. CASE cut = None
        <3>1. None \in Int /\ "partitioner" \in Whats
            BY <1>3 DEF None
        <3>2. c = Field("partitioner", None)
            BY <2>1
        <3> QED BY <2>1, <3>1, <3>2, FieldFacts
    <2>2. CASE cut # None
        <3>1. cut \in 0..(Len(list) - 1) /\ "partitioner" \in Whats
            BY <1>3, <2>2
        <3>2. c = SerializePartitioner(list, cut, "partitioner")
            BY <2>2
        <3> HIDE DEF c, cut
        <3>3. LET b == SerializePartitioner(list, cut, "partitioner") IN
              b \in Body /\ Len(b) = 4 /\ b[1].what = "partitioner" /\ b[1].val = cut
            BY <3>1, PartitionerLayout
        <3> QED BY <3>2, <3>3
    <2> QED BY <2>1, <2>2
<1> HIDE DEF idx, cnt, par, cut, c
<1>5. b1 \in Body /\ Len(b1) = 1 /\ b1[1].what = "key" /\ b1[1].val = k
    BY <1>3, FieldFacts
<1>a. b1 \in Body
    BY <1>5
<1> HIDE DEF b1
<1>6. /\ b2 \in Body /\ Len(b2) = Len(b1) + 1
      /\ \A i \in 1..Len(b1) : b2[i] = b1[i]
    BY <1>3, <1>a, AddField
<1> HIDE DEF b2
<1>7. /\ b3 \in Body /\ Len(b3) = Len(b2) + 1
      /\ \A i \in 1..Len(b2) : b3[i] = b2[i]
    BY <1>3, <1>6, AddField
<1> HIDE DEF b3
<1>8. /\ b4 \in Body /\ Len(b4) = Len(b3) + 1 /\ b4[Len(b3) + 1].what = "child_idx"
      /\ \A i \in 1..Len(b3) : b4[i] = b3[i]
    BY <1>2, <1>3, <1>7, AddField
<1> HIDE DEF b4
<1>9. /\ b5 \in Body /\ Len(b5) = Len(b4) + 1
      /\ \A i \in 1..Len(b4) : b5[i] = b4[i]
    BY <1>2, <1>3, <1>8, AddField
<1> HIDE DEF b5
<1>10. /\ b6 \in Body /\ Len(b6) = Len(b5) + 1
       /\ \A i \in 1..Len(b5) : b6[i] = b5[i]
    BY <1>3, <1>9, AddField
<1> HIDE DEF b6
<1>11. /\ b7 \in Body /\ Len(b7) = Len(b6) + 1
       /\ b7[Len(b6) + 1].what = "parent" /\ b7[Len(b6) + 1].val = par
       /\ \A i \in 1..Len(b6) : b7[i] = b6[i]
    BY <1>2, <1>3, <1>10, AddField
<1> HIDE DEF b7
<1>b. b7 \in Body /\ c \in Body /\ Len(c) \in Nat /\ Len(c) > 0
    BY <1>4, <1>11 DEF Body
<1>12. /\ b8 \in Body /\ Len(b8) = Len(b7) + Len(c) /\ b8[Len(b7) + 1] = c[1]
       /\ \A i \in 1..Len(b7) : b8[i] = b7[i]
    BY <1>b, AddBody
<1> HIDE DEF b8
<1>13. /\ b9 \in Body /\ Len(b9) = Len(b8) + 1
       /\ \A i \in 1..Len(b8) : b9[i] = b8[i]
    BY <1>3, <1>12, AddField
<1> HIDE DEF b9
<1>14. Len(b7) = 7 /\ Len(b8) >= 8 /\ Len(b9) >= 9 /\ Len(c) \in Nat
    <2>1. Len(b3) = 3
        BY <1>5, <1>6, <1>7
    <2>2. Len(b5) = 5
        BY <1>8, <1>9, <2>1
    <2>3. Len(b7) = 7
        BY <1>10, <1>11, <2>2
    <2>4. Len(b8) >= 8 /\ Len(b8) \in Nat
        BY <1>4, <1>b, <1>12, <2>3
    <2>5. Len(b9) >= 9
        BY <1>13, <2>4
    <2> QED BY <1>b, <2>3, <2>4, <2>5
<1>15. b7[1] = b1[1] /\ b7[4].what = "child_idx" /\ b7[7].what = "parent" /\ b7[7].val = par
    BY <1>5, <1>6, <1>7, <1>8, <1>9, <1>10, <1>11
<1>16. \A i \in 1..7 : b9[i] = b7[i]
    BY <1>12, <1>13, <1>14
<1>17. b9[8] = c[1]
    BY <1>12, <1>13, <1>14
<1> QED BY <1>1, <1>4, <1>5, <1>13, <1>14, <1>15, <1>16, <1>17 DEF par, cut

\* The rest of a thread's calls after those the first of them makes.
LEMMA CallsBefore ==
    ASSUME NEW S, NEW q \in Seq(S), q # <<>>, NEW calls \in Seq(S)
    PROVE  /\ calls \o Tail(q) \in Seq(S)
           /\ \A i \in DOMAIN (calls \o Tail(q)) :
                 \/ \E j \in DOMAIN calls : (calls \o Tail(q))[i] = calls[j]
                 \/ \E j \in DOMAIN q : (calls \o Tail(q))[i] = q[j]
           /\ calls # <<>> => calls \o Tail(q) # <<>> /\ Head(calls \o Tail(q)) = calls[1]
<1>1. /\ Tail(q) \in Seq(S) /\ Len(Tail(q)) = Len(q) - 1 /\ Len(q) \in Nat /\ Len(q) > 0
      /\ \A i \in 1..Len(Tail(q)) : Tail(q)[i] = q[i + 1]
    BY HeadTailProperties
<1> DEFINE r == Tail(q)
<1> HIDE DEF r
<1>2. r \in Seq(S) /\ Len(r) \in Nat /\ Len(calls) \in Nat
    BY <1>1 DEF r
<1>3. /\ calls \o r \in Seq(S) /\ Len(calls \o r) = Len(calls) + Len(r)
      /\ \A i \in 1..Len(calls) : (calls \o r)[i] = calls[i]
    BY <1>2, ConcatProperties, SMTT(30)
<1>4. \A i \in (Len(calls) + 1)..(Len(calls) + Len(r)) : (calls \o r)[i] = r[i - Len(calls)]
    BY <1>2, ConcatProperties, SMTT(30)
<1>5. \A i \in 1..Len(r) : i + 1 \in DOMAIN q /\ r[i] = q[i + 1]
    BY <1>1 DEF r
<1>6. ASSUME NEW i \in DOMAIN (calls \o r)
      PROVE  \/ \E j \in DOMAIN calls : (calls \o r)[i] = calls[j]
             \/ \E j \in DOMAIN q : (calls \o r)[i] = q[j]
    <2>1. i \in 1..(Len(calls) + Len(r)) /\ i \in Int
        BY <1>2, <1>3
    <2>2. CASE i <= Len(calls)
        BY <1>2, <1>3, <2>1, <2>2
    <2>3. CASE i > Len(calls)
        <3>1. i - Len(calls) \in 1..Len(r) /\ (calls \o r)[i] = r[i - Len(calls)]
            BY <1>2, <1>4, <2>1, <2>3
        <3> QED BY <1>5, <3>1
    <2> QED BY <1>2, <2>1, <2>2, <2>3
<1>7. calls # <<>> => calls \o r # <<>> /\ Head(calls \o r) = calls[1]
    BY <1>2, <1>3
<1> QED BY <1>3, <1>6, <1>7 DEF r
-------------------------------------------------------------------------------
(* What a step keeps *)

\* No object is lost, and a datum that is cut stays cut.
Grows ==
    \A s \in Sides :
        /\ Len(all_data[s]) <= Len(all_data[s])'
        /\ Len(part_list[s]) <= Len(part_list[s])'
        /\ \A k \in DataKeys(s) :
              At(all_data[s], k).partitioner \in PartKeys(s)
                  => (At(all_data[s], k).partitioner \in PartKeys(s))'

\* The keys of a list that has grown.
LEMMA UpTo == ASSUME NEW a \in Nat, NEW b \in Nat, a <= b PROVE 0..(a - 1) \subseteq 0..(b - 1)
OBVIOUS

\* No key is ever taken away from a process.
LEMMA KeysGrow ==
    ASSUME Typed, Typed', Grows, NEW s \in Sides
    PROVE  DataKeys(s) \subseteq DataKeys(s)' /\ PartKeys(s) \subseteq PartKeys(s)'
<1>1. /\ Len(all_data[s]) \in Nat /\ Len(all_data'[s]) \in Nat
      /\ Len(part_list[s]) \in Nat /\ Len(part_list'[s]) \in Nat
    BY DEF Typed
<1>2. Len(all_data[s]) <= Len(all_data'[s]) /\ Len(part_list[s]) <= Len(part_list'[s])
    BY DEF Grows
<1> QED BY <1>1, <1>2, UpTo DEF DataKeys, PartKeys

\* A call that may be made still may be.
LEMMA CallsStayOK ==
    ASSUME Typed, Typed', Grows, NEW s \in Sides
    PROVE  OKCalls(s) \subseteq OKCalls(s)'
<1>1. DataKeys(s) \subseteq DataKeys(s)' /\ PartKeys(s) \subseteq PartKeys(s)'
    BY KeysGrow
<1>2. ASSUME NEW k \in DataKeys(s), At(all_data[s], k).partitioner \in PartKeys(s)
      PROVE  At(all_data'[s], k).partitioner \in PartKeys(s)'
    BY <1>2 DEF Grows, At
<1>3. ASSUME NEW c \in Calls, CallOK(s, c) PROVE CallOK(s, c)'
    <2>1. c.call = "data_partitioned" =>
              At(all_data'[s], c.args[1]).partitioner \in PartKeys(s)'
        BY <1>2, <1>3 DEF CallOK
    <2> QED BY <1>1, <1>3, <2>1 DEF CallOK, At
<1> QED BY <1>3 DEF OKCalls

\* The calls of a thread are replaced by those the first of them makes.
LEMMA ThenKeeps ==
    ASSUME Typed, CallsOK, \A s \in Sides : OKCalls(s) \subseteq OKCalls(s)',
           NEW t \in Threads, todo[t] # <<>>,
           NEW STATE calls, calls \in Seq(Calls), Then(t, calls),
           \A i \in DOMAIN calls : calls[i] \in OKCalls(t[1])'
    PROVE  /\ CallsOK' /\ todo' \in [Threads -> Seq(Calls)]
           /\ \A u \in Threads \ {t} : todo'[u] = todo[u]
           /\ calls # <<>> => todo'[t] # <<>> /\ Head(todo'[t]) = calls[1]
<1>1. todo \in [Threads -> Seq(Calls)] /\ todo' = [todo EXCEPT ![t] = calls \o Tail(todo[t])]
    BY DEF Typed, Then
<1>2. todo'[t] = calls \o Tail(todo[t]) /\ \A u \in Threads \ {t} : todo'[u] = todo[u]
    BY <1>1
<1>3. todo[t] \in Seq(Calls)
    BY <1>1
<1>4. /\ todo'[t] \in Seq(Calls)
      /\ \A i \in DOMAIN todo'[t] :
             \/ \E j \in DOMAIN calls : todo'[t][i] = calls[j]
             \/ \E j \in DOMAIN todo[t] : todo'[t][i] = todo[t][j]
      /\ calls # <<>> => todo'[t] # <<>> /\ Head(todo'[t]) = calls[1]
    <2> DEFINE r == calls \o Tail(todo[t])
    <2>1. /\ r \in Seq(Calls)
          /\ \A i \in DOMAIN r : \/ \E j \in DOMAIN calls : r[i] = calls[j]
                                 \/ \E j \in DOMAIN todo[t] : r[i] = todo[t][j]
          /\ calls # <<>> => r # <<>> /\ Head(r) = calls[1]
        BY <1>3, CallsBefore, Zenon
    <2>2. todo'[t] = r
        BY <1>2
    <2> HIDE DEF r
    <2> QED BY <2>1, <2>2
<1>5. \A u \in Threads : u[1] \in Sides
    BY DEF Threads, Main, Sides
<1>6. \A u \in Threads : \A i \in DOMAIN todo[u] : todo[u][i] \in OKCalls(u[1])'
    BY <1>5 DEF CallsOK
<1>7. \A u \in Threads : \A i \in DOMAIN todo'[u] : todo'[u][i] \in OKCalls(u[1])'
    <2>1. ASSUME NEW u \in Threads \ {t}, NEW i \in DOMAIN todo'[u]
          PROVE  todo'[u][i] \in OKCalls(u[1])'
        BY <1>2, <1>6, <2>1
    <2>2. ASSUME NEW i \in DOMAIN todo'[t] PROVE todo'[t][i] \in OKCalls(t[1])'
        <3>1. CASE \E j \in DOMAIN calls : todo'[t][i] = calls[j]
            BY <3>1
        <3>2. CASE \E j \in DOMAIN todo[t] : todo'[t][i] = todo[t][j]
            BY <1>6, <3>2
        <3> QED BY <1>4, <2>2, <3>1, <3>2
    <2> QED BY <2>1, <2>2
<1> QED BY <1>1, <1>2, <1>4, <1>7 DEF CallsOK
-------------------------------------------------------------------------------
(* The order of the messages *)

\* The types the order rests on.
OrderTyped ==
    /\ queue["app"] \in Seq([tag : Tags, body : Body])
    /\ \A i \in DOMAIN queue["app"] : MessageOK(queue["app"][i])
    /\ \A kind \in Kinds : Bound(kind) \in Nat

\* The order of the messages rests on these types.
LEMMA OrderTypes == ASSUME Typed, MessagesOK PROVE OrderTyped
<1>1. "app" \in Sides
    BY DEF Sides
<1>2. Len(all_data["app"]) \in Nat /\ Len(part_list["app"]) \in Nat
    BY <1>1 DEF Typed
<1>3. \A kind \in Kinds : Bound(kind) \in Nat
    <2> TAKE kind \in Kinds
    <2>1. Length(kind, "app") \in Nat
        BY <1>2 DEF Length
    <2> QED BY <2>1 DEF Bound
<1> QED BY <1>1, <1>3 DEF Typed, MessagesOK, OrderTyped

\* What other threads do leaves the messages on their way in order.
LEMMA SameMessages ==
    ASSUME OrderTyped, OrderTyped', InOrder, UNCHANGED queue["app"],
           \A kind \in Kinds : Bound(kind) <= Bound(kind)'
    PROVE  /\ InOrder'
           /\ \A kind \in Kinds : \A k \in Nat : Sent(kind, k) => Sent(kind, k)'
<1>1. \A kind \in Kinds : \A n, k \in Nat : Reaches(kind, n, k) => Reaches(kind, n, k)'
    <2> SUFFICES ASSUME NEW kind \in Kinds, NEW n \in Nat, NEW k \in Nat, Reaches(kind, n, k)
                 PROVE  Reaches(kind, n, k)'
        OBVIOUS
    <2>1. Bound(kind) \in Nat /\ Bound(kind)' \in Nat /\ Bound(kind) <= Bound(kind)'
        BY DEF OrderTyped
    <2> QED BY <2>1 DEF Reaches
<1>2. \A i \in DOMAIN queue["app"] : i \in Nat
    BY DEF OrderTyped
<1>3. \A kind, m : Named(kind, m) \subseteq Nat
    BY DEF Named
<1>4. InOrder'
    <2> SUFFICES ASSUME NEW kind \in Kinds, NEW i \in DOMAIN queue["app"],
                        NEW k \in Named(kind, queue["app"][i])
                 PROVE  Reaches(kind, i, k)'
        BY DEF InOrder
    <2> QED BY <1>1, <1>2, <1>3 DEF InOrder
<1>5. Len(queue["app"]) + 1 \in Nat
    BY DEF OrderTyped
<1>6. ASSUME NEW kind \in Kinds, NEW k \in Nat, Sent(kind, k) PROVE Sent(kind, k)'
    <2>1. PICK n \in Nat : n = Len(queue["app"]) + 1
        BY <1>5
    <2>2. n = (Len(queue["app"]) + 1)'
        BY <2>1
    <2>3. Reaches(kind, n, k)'
        BY <1>1, <1>6, <2>1 DEF Sent
    <2> QED BY <2>2, <2>3 DEF Sent, Reaches
<1> QED BY <1>4, <1>6

\* A message the server sends, when what it names is on its way.
LEMMA MessageSent ==
    ASSUME OrderTyped, OrderTyped', InOrder, NEW STATE m,
           m \in [tag : Tags, body : Body],
           queue'["app"] = Append(queue["app"], m),
           \A kind \in Kinds : Bound(kind)' = Bound(kind),
           \A kind \in Kinds : \A k \in Named(kind, m) : Sent(kind, k)
    PROVE  /\ InOrder'
           /\ \A kind \in Kinds : \A k \in Nat :
                 Sent(kind, k) \/ Creates(kind, m, k) => Sent(kind, k)'
<1> DEFINE q == queue["app"]
<1>1. /\ Len(q) \in Nat /\ DOMAIN q = 1..Len(q)
      /\ DOMAIN q' = 1..(Len(q) + 1) /\ Len(q') = Len(q) + 1
      /\ \A i \in 1..Len(q) : q'[i] = q[i]
      /\ q'[Len(q) + 1] = m
    BY AppendProperties DEF OrderTyped
<1>2. ASSUME NEW kind \in Kinds, NEW n \in Nat, NEW k \in Nat, Reaches(kind, n, k)
      PROVE  Reaches(kind, n, k)'
    BY <1>1, <1>2 DEF Reaches
<1>3. \A kind, e : Named(kind, e) \subseteq Nat
    BY DEF Named
<1>4. ASSUME NEW kind \in Kinds, NEW k \in Nat, Sent(kind, k)
      PROVE  /\ Sent(kind, k)'
             /\ \A n \in Nat : n = Len(q) + 1 => Reaches(kind, n, k)'
    <2>1. Reaches(kind, Len(q) + 1, k)
        BY <1>4 DEF Sent
    <2>2. Sent(kind, k)'
        BY <1>1, <2>1 DEF Sent, Reaches
    <2>3. \A n \in Nat : n = Len(q) + 1 => Reaches(kind, n, k)'
        BY <1>1, <1>2, <2>1
    <2> QED BY <2>2, <2>3
<1>5. ASSUME NEW kind \in Kinds, NEW k \in Nat, Creates(kind, m, k) PROVE Sent(kind, k)'
    BY <1>1, <1>5 DEF Sent, Reaches, Creates
<1>6. ASSUME NEW kind \in Kinds, NEW i \in DOMAIN q', NEW k \in Named(kind, q'[i])
      PROVE  Reaches(kind, i, k)'
    <2>1. i \in Nat /\ k \in Nat
        BY <1>1, <1>3
    <2>2. CASE i = Len(q) + 1
        BY <1>1, <1>4, <2>1, <2>2
    <2>3. CASE i \in 1..Len(q)
        BY <1>1, <1>2, <2>1, <2>3 DEF InOrder
    <2> QED BY <1>1, <2>2, <2>3
<1> QED BY <1>4, <1>5, <1>6 DEF InOrder

\* The application takes the first message: an object it is told of is the next
\* one, which its io thread goes on to construct.
LEMMA MessageTaken ==
    ASSUME OrderTyped, OrderTyped', InOrder, queue["app"] # <<>>,
           queue'["app"] = Tail(queue["app"]),
           \A kind \in Kinds : Bound(kind) <= Bound(kind)',
           \A kind \in Kinds : Head(queue["app"]).tag = Creation(kind)
                                   => Bound(kind)' = Bound(kind) + 1
    PROVE  /\ InOrder'
           /\ \A kind \in Kinds : \A k \in Nat : Sent(kind, k) => Sent(kind, k)'
<1> DEFINE q == queue["app"]
<1>1. /\ Len(q) \in Nat /\ DOMAIN q = 1..Len(q) /\ Len(q) > 0
      /\ DOMAIN q' = 1..(Len(q) - 1) /\ Len(q') = Len(q) - 1
      /\ \A i \in 1..(Len(q) - 1) : q'[i] = q[i + 1]
      /\ Head(q) = q[1]
    BY HeadTailProperties DEF OrderTyped
<1>2. \A kind \in Kinds :
          Bound(kind) \in Nat /\ Bound(kind)' \in Nat /\ Bound(kind) <= Bound(kind)'
    BY DEF OrderTyped
<1>3. ASSUME NEW kind \in Kinds, NEW k \in Nat, Creates(kind, q[1], k) PROVE k < Bound(kind)'
    <2>1. Bound(kind)' = Bound(kind) + 1
        BY <1>1, <1>3 DEF Creates
    <2>2. CASE k = 0
        BY <1>2, <2>1, <2>2
    <2>3. CASE k > 0
        <3>1. k - 1 \in Nat /\ k - 1 \in Named(kind, q[1])
            BY <1>3, <2>3 DEF Named, Creates
        <3>2. Reaches(kind, 1, k - 1)
            BY <1>1, <3>1 DEF InOrder
        <3>3. k - 1 < Bound(kind)
            BY <1>1, <3>2 DEF Reaches
        <3> QED BY <1>2, <2>1, <3>3
    <2> QED BY <2>2, <2>3
<1>4. ASSUME NEW kind \in Kinds, NEW n \in Nat, NEW k \in Nat, Reaches(kind, n + 1, k)
      PROVE  Reaches(kind, n, k)'
    <2>1. CASE k < Bound(kind)
        BY <1>2, <2>1 DEF Reaches
    <2>2. CASE \E j \in DOMAIN q : j < n + 1 /\ Creates(kind, q[j], k)
        <3>1. PICK j \in 1..Len(q) : j < n + 1 /\ Creates(kind, q[j], k)
            BY <1>1, <2>2
        <3>2. CASE j = 1
            BY <1>3, <3>1, <3>2 DEF Reaches
        <3>3. CASE j > 1
            <4>1. /\ j - 1 \in DOMAIN q' /\ j - 1 < n /\ q'[j - 1] = q[j]
                BY <1>1, <3>1, <3>3
            <4> QED BY <3>1, <4>1 DEF Reaches, Creates
        <3> QED BY <3>2, <3>3
    <2> QED BY <1>4, <2>1, <2>2 DEF Reaches
<1>5. \A kind, e : Named(kind, e) \subseteq Nat
    BY DEF Named
<1>6. ASSUME NEW kind \in Kinds, NEW i \in DOMAIN q', NEW k \in Named(kind, q'[i])
      PROVE  Reaches(kind, i, k)'
    <2>1. i \in Nat /\ k \in Nat /\ i + 1 \in DOMAIN q /\ q'[i] = q[i + 1]
        BY <1>1, <1>5
    <2>2. Reaches(kind, i + 1, k)
        BY <2>1 DEF InOrder
    <2> QED BY <1>4, <2>1, <2>2
<1>7. ASSUME NEW kind \in Kinds, NEW k \in Nat, Sent(kind, k) PROVE Sent(kind, k)'
    <2>1. PICK n \in Nat : n = Len(q)
        BY <1>1
    <2>2. Reaches(kind, n, k)'
        BY <1>4, <1>7, <2>1 DEF Sent
    <2>3. n = Len(q') + 1
        BY <1>1, <2>1
    <2> QED BY <2>2, <2>3 DEF Sent, Reaches
<1> QED BY <1>6, <1>7 DEF InOrder
-------------------------------------------------------------------------------
(* What every step keeps *)

\* The calls and what they are called with.
LEMMA Call1 ==
    ASSUME NEW f \in CallNames, NEW a \in Int
    PROVE  /\ Call(f, <<a>>) \in Calls
           /\ Call(f, <<a>>).call = f /\ Call(f, <<a>>).args[1] = a
BY DEF Call, Calls

\* Likewise with two arguments.
LEMMA Call2 ==
    ASSUME NEW f \in CallNames, NEW a \in Int, NEW b \in Int
    PROVE  /\ Call(f, <<a, b>>) \in Calls /\ Call(f, <<a, b>>).call = f
           /\ Call(f, <<a, b>>).args[1] = a /\ Call(f, <<a, b>>).args[2] = b
BY DEF Call, Calls

\* The processes and their threads.
LEMMA SideFacts ==
    /\ Sides = {"app", "server"}
    /\ Threads = {Main, AppIo, ServerIo}
    /\ Main # AppIo /\ Main # ServerIo /\ AppIo # ServerIo
    /\ Main[1] = "app" /\ AppIo[1] = "app" /\ ServerIo[1] = "server"
    /\ Peer("app") = "server" /\ Peer("server") = "app"
    /\ \A t \in Threads : t[1] \in Sides
BY DEF Sides, Threads, Main, AppIo, ServerIo, Peer

\* A thread's next call is one it may make.
LEMMA NextCall ==
    ASSUME Typed, CallsOK, NEW t \in Threads, todo[t] # <<>>
    PROVE  Head(todo[t]) \in Calls /\ CallOK(t[1], Head(todo[t]))
<1>1. todo[t] \in Seq(Calls)
    BY DEF Typed
<1>2. Head(todo[t]) = todo[t][1] /\ 1 \in DOMAIN todo[t]
    BY <1>1
<1>3. Head(todo[t]) \in OKCalls(t[1])
    BY <1>2 DEF CallsOK
<1> QED BY <1>3 DEF OKCalls

\* A process that stops changes nothing.
LEMMA StopKeeps ==
    ASSUME MQInv, UNCHANGED <<all_data, part_list, queue, todo, mine>>, failed' \subseteq Sides
    PROVE  MQInv'
<1>1. Typed'
    BY DEF MQInv, Typed
<1>2. ObjectsOK' /\ MessagesOK'
    BY DEF MQInv, ObjectsOK, DataOK, NextOK, MineOK, DatumOK, MessagesOK, DataKeys, PartKeys
<1>3. CallsOK'
    BY DEF MQInv, CallsOK, OKCalls, CallOK, DataKeys, PartKeys, Length
<1>4. InOrder' /\ AllSent'
    BY DEF MQInv, InOrder, AllSent, Sent, Reaches, Bound, Coming, Length, Pending
<1> QED BY <1>1, <1>2, <1>3, <1>4 DEF MQInv

\* What the order asks of the application's threads.
LEMMA AppStepOrder ==
    ASSUME OrderTyped, OrderTyped', InOrder, AllSent,
           UNCHANGED <<queue["app"], all_data["server"], part_list["server"], todo[ServerIo]>>,
           \A kind \in Kinds : Bound(kind) <= Bound(kind)',
           \A kind \in Kinds : Length(kind, "server") \in Nat
    PROVE  InOrder' /\ AllSent'
<1>1. \A kind \in Kinds : \A k \in Nat : Pending(kind, k) => Pending(kind, k)'
    BY DEF Pending
<1>2. \A kind \in Kinds : Length(kind, "server")' = Length(kind, "server")
    BY DEF Length
<1>3. ASSUME NEW kind \in Kinds, NEW k \in 0..(Length(kind, "server") - 1)
      PROVE  Sent(kind, k)' \/ Pending(kind, k)'
    <2>1. k \in Nat
        BY <1>3
    <2> QED BY <1>1, <2>1, SameMessages DEF AllSent
<1>4. AllSent'
    BY <1>2, <1>3 DEF AllSent
<1> QED BY <1>4, SameMessages

\* The server's thread: what is pending in its new state is what it has made.
LEMMA ServerStepOrder ==
    ASSUME OrderTyped, OrderTyped', InOrder, AllSent,
           UNCHANGED <<queue["app"], all_data["app"], part_list["app"], todo[AppIo]>>,
           \A kind \in Kinds : \A k \in Nat : ~Pending(kind, k),
           \A kind \in Kinds : Length(kind, "server") \in Nat,
           \A kind \in Kinds :
               \/ Length(kind, "server")' = Length(kind, "server")
               \/ /\ Length(kind, "server")' = Length(kind, "server") + 1
                  /\ \A k \in Nat : k = Length(kind, "server") => Pending(kind, k)'
    PROVE  InOrder' /\ AllSent'
<1>1. \A kind \in Kinds : Bound(kind)' = Bound(kind)
    BY DEF Bound, Coming, Length
<1>2. \A kind \in Kinds : Bound(kind) <= Bound(kind)'
    BY <1>1 DEF OrderTyped
<1>3. ASSUME NEW kind \in Kinds, NEW k \in 0..(Length(kind, "server")' - 1)
      PROVE  Sent(kind, k)' \/ Pending(kind, k)'
    <2>1. k \in Nat /\ Length(kind, "server") \in Nat
        BY <1>3
    <2>2. CASE k < Length(kind, "server")
        <3>1. Sent(kind, k)
            BY <2>1, <2>2 DEF AllSent
        <3> QED BY <1>2, <2>1, <3>1, SameMessages
    <2>3. CASE k >= Length(kind, "server")
        BY <1>3, <2>1, <2>3
    <2> QED BY <2>1, <2>2, <2>3
<1>4. AllSent'
    BY <1>3 DEF AllSent
<1> QED BY <1>2, <1>4, SameMessages

\* The server puts a message: what it names, and what was pending, is on its way.
LEMMA ServerSendOrder ==
    ASSUME OrderTyped, OrderTyped', InOrder, AllSent,
           UNCHANGED <<all_data, part_list, todo[AppIo]>>,
           NEW STATE m, m \in [tag : Tags, body : Body],
           queue'["app"] = Append(queue["app"], m),
           \A kind \in Kinds : \A k \in Named(kind, m) : Sent(kind, k),
           \A kind \in Kinds : \A k \in Nat : Pending(kind, k) => Creates(kind, m, k)
    PROVE  InOrder' /\ AllSent'
<1>1. \A kind \in Kinds : Bound(kind)' = Bound(kind)
    BY DEF Bound, Coming, Length
<1>2. /\ InOrder'
      /\ \A kind \in Kinds : \A k \in Nat :
            Sent(kind, k) \/ Creates(kind, m, k) => Sent(kind, k)'
    BY <1>1, MessageSent
<1>3. \A kind \in Kinds : Length(kind, "server")' = Length(kind, "server")
    BY DEF Length
<1>4. ASSUME NEW kind \in Kinds, NEW k \in 0..(Length(kind, "server") - 1)
      PROVE  Sent(kind, k)'
    <2>1. k \in Nat
        BY <1>4
    <2> QED BY <1>2, <2>1 DEF AllSent
<1> QED BY <1>2, <1>3, <1>4 DEF AllSent

\* The lists have a length.
LEMMA Lengths ==
    ASSUME Typed
    PROVE  \A kind \in Kinds : \A s \in Sides : Length(kind, s) \in Nat
BY DEF Typed, Length

\* What is about to be constructed stays so until it is there.
LEMMA BoundGrows ==
    ASSUME NEW kind \in Kinds,
           Length(kind, "app") \in Nat, Length(kind, "app")' \in Nat,
           Length(kind, "app") <= Length(kind, "app")',
           Coming(kind) => Coming(kind)' \/ Length(kind, "app")' = Length(kind, "app") + 1
    PROVE  Bound(kind) <= Bound(kind)'
<1>1. CASE Coming(kind)
    <2>1. Bound(kind) = Length(kind, "app") + 1
        BY <1>1 DEF Bound
    <2>2. CASE Coming(kind)'
        <3>1. Bound(kind)' = Length(kind, "app")' + 1
            BY <2>2 DEF Bound
        <3> QED BY <2>1, <3>1
    <2>3. CASE ~Coming(kind)'
        <3>1. Bound(kind)' = Length(kind, "app")'
            BY <2>3 DEF Bound
        <3> QED BY <1>1, <2>1, <2>3, <3>1
    <2> QED BY <2>2, <2>3
<1>2. CASE ~Coming(kind)
    <2>1. Bound(kind) = Length(kind, "app")
        BY <1>2 DEF Bound
    <2>2. CASE Coming(kind)'
        <3>1. Bound(kind)' = Length(kind, "app")' + 1
            BY <2>2 DEF Bound
        <3> QED BY <2>1, <3>1
    <2>3. CASE ~Coming(kind)'
        <3>1. Bound(kind)' = Length(kind, "app")'
            BY <2>3 DEF Bound
        <3> QED BY <2>1, <3>1
    <2> QED BY <2>2, <2>3
<1> QED BY <1>1, <1>2

\* A callback puts one message and returns.
LEMMA PutKeeps ==
    ASSUME MQInv, NEW t \in Threads, todo[t] # <<>>,
           Head(todo[t]).call \notin {"data", "partitioner"},
           NEW STATE m, m \in [tag : Tags, body : Body], MessageOK(m), Publish(t[1], m),
           NEW STATE calls, calls \in Seq(Calls), Then(t, calls),
           \A i \in DOMAIN calls : calls[i] \in OKCalls(t[1]),
           UNCHANGED <<all_data, part_list, mine, failed>>,
           t = ServerIo =>
               /\ \A kind \in Kinds : \A k \in Named(kind, m) : Sent(kind, k)
               /\ \A kind \in Kinds : \A k \in Nat : Pending(kind, k) => Creates(kind, m, k)
    PROVE  MQInv'
<1> USE SideFacts
<1>1. Typed /\ CallsOK /\ MessagesOK /\ ObjectsOK /\ InOrder /\ AllSent
    BY DEF MQInv
<1>2. \A s \in Sides : OKCalls(s)' = OKCalls(s)
    BY DEF OKCalls, CallOK, DataKeys, PartKeys, Length
<1>3. t[1] \in Sides
    OBVIOUS
<1>4. /\ CallsOK' /\ todo' \in [Threads -> Seq(Calls)]
      /\ \A u \in Threads \ {t} : todo'[u] = todo[u]
    <2>1. \A s \in Sides : OKCalls(s) \subseteq OKCalls(s)'
        BY <1>2
    <2>2. \A i \in DOMAIN calls : calls[i] \in OKCalls(t[1])'
        BY <1>3, <2>1
    <2> QED BY <1>1, <2>1, <2>2, ThenKeeps
<1> DEFINE S == [tag : Tags, body : Body]
           p == Peer(t[1])
<1>5. p \in Sides /\ queue \in [Sides -> Seq(S)] /\ m \in S
    BY <1>1, <1>3 DEF Typed
<1>6. queue' = [queue EXCEPT ![p] = Append(queue[p], m)]
    BY <1>5 DEF Publish
<1> HIDE DEF S, p
<1>7. /\ Append(queue[p], m) \in Seq(S)
      /\ \A i \in DOMAIN Append(queue[p], m) :
            \/ Append(queue[p], m)[i] = m
            \/ i \in DOMAIN queue[p] /\ Append(queue[p], m)[i] = queue[p][i]
    <2> DEFINE q == queue[p]
    <2>1. q \in Seq(S) /\ m \in S
        BY <1>5
    <2> HIDE DEF q
    <2>2. /\ Append(q, m) \in Seq(S) /\ Len(Append(q, m)) = Len(q) + 1
          /\ \A i \in 1..Len(q) : Append(q, m)[i] = q[i]
          /\ Append(q, m)[Len(q) + 1] = m
        BY <2>1, AppendProperties
    <2>3. Len(q) \in Nat /\ DOMAIN q = 1..Len(q) /\ DOMAIN Append(q, m) = 1..(Len(q) + 1)
        BY <2>1, <2>2
    <2>4. \A i \in DOMAIN Append(q, m) : i = Len(q) + 1 \/ i \in DOMAIN q
        BY <2>3
    <2> QED BY <2>2, <2>3, <2>4 DEF q
<1>8. /\ queue' \in [Sides -> Seq(S)]
      /\ queue'[p] = Append(queue[p], m) /\ \A s \in Sides \ {p} : queue'[s] = queue[s]
    BY <1>5, <1>6, <1>7
<1>9. Typed'
    BY <1>1, <1>4, <1>8 DEF Typed, S
<1>10. MessagesOK'
    <2>1. ASSUME NEW s \in Sides, NEW i \in DOMAIN queue'[s] PROVE MessageOK(queue'[s][i])
        <3>1. CASE s = p
            BY <1>1, <1>7, <1>8, <2>1, <3>1 DEF MessagesOK
        <3>2. CASE s # p
            BY <1>1, <1>8, <2>1, <3>2 DEF MessagesOK
        <3> QED BY <3>1, <3>2
    <2> QED BY <2>1 DEF MessagesOK
<1>11. ObjectsOK'
    BY <1>1 DEF ObjectsOK, DataOK, NextOK, MineOK, DatumOK, DataKeys, PartKeys
<1>12. OrderTyped /\ OrderTyped' /\ \A kind \in Kinds : Length(kind, "server") \in Nat
    <2>1. OrderTyped'
        BY <1>9, <1>10, OrderTypes, PTL
    <2> QED BY <1>1, <2>1, OrderTypes, Lengths
<1>13. InOrder' /\ AllSent'
    <2>1. CASE t = ServerIo
        <3>1. todo'[AppIo] = todo[AppIo] /\ p = "app"
            BY <1>4, <2>1 DEF p
        <3>2. queue'["app"] = Append(queue["app"], m)
            BY <1>8, <3>1
        <3> QED BY <1>1, <1>5, <1>12, <2>1, <3>1, <3>2, ServerSendOrder DEF S
    <2>2. CASE t # ServerIo
        <3>1. todo'[ServerIo] = todo[ServerIo] /\ p = "server"
            BY <1>4, <2>2 DEF p
        <3>2. UNCHANGED queue["app"]
            BY <1>8, <3>1
        <3>3. ASSUME NEW kind \in Kinds PROVE Bound(kind) <= Bound(kind)'
            <4>1. /\ Length(kind, "app")' = Length(kind, "app")
                  /\ Length(kind, "app") \in Nat
                BY <1>1, Lengths DEF Length
            <4>2. Coming(kind) => Coming(kind)'
                <5>1. CASE t = AppIo
                    BY <5>1 DEF Coming, Constructor
                <5>2. CASE t # AppIo
                    BY <1>4, <5>2 DEF Coming
                <5> QED BY <5>1, <5>2
            <4> QED BY <4>1, <4>2, BoundGrows
        <3> QED BY <1>1, <1>12, <3>1, <3>2, <3>3, AppStepOrder
    <2> QED BY <2>1, <2>2
<1> QED BY <1>1, <1>4, <1>9, <1>10, <1>11, <1>13 DEF MQInv

\* A call that sends nothing: it changes the objects of its own process and
\* makes other calls; an object it makes is broadcast next.
LEMMA LocalKeeps ==
    ASSUME MQInv, Typed', ObjectsOK', Grows, NEW t \in Threads, todo[t] # <<>>,
           \A kind \in Kinds : Head(todo[t]).call # Callback(kind),
           UNCHANGED queue,
           \A s \in Sides \ {t[1]} : UNCHANGED <<all_data[s], part_list[s]>>,
           NEW STATE calls, calls \in Seq(Calls), Then(t, calls),
           \A i \in DOMAIN calls : calls[i] \in OKCalls(t[1])',
           \A kind \in Kinds : Head(todo[t]).call = Constructor(kind)
               => Length(kind, t[1])' = Length(kind, t[1]) + 1,
           \A kind \in Kinds :
               \/ Length(kind, t[1])' = Length(kind, t[1])
               \/ /\ Length(kind, t[1])' = Length(kind, t[1]) + 1
                  /\ calls # <<>> /\ calls[1].call = Callback(kind)
                  /\ calls[1].args[1] = Length(kind, t[1])
    PROVE  MQInv'
<1> USE SideFacts
<1>1. Typed /\ CallsOK /\ MessagesOK /\ ObjectsOK /\ InOrder /\ AllSent
    BY DEF MQInv
<1>2. \A s \in Sides : OKCalls(s) \subseteq OKCalls(s)'
    BY <1>1, CallsStayOK
<1>3. /\ CallsOK'
      /\ \A u \in Threads \ {t} : todo'[u] = todo[u]
      /\ calls # <<>> => todo'[t] # <<>> /\ Head(todo'[t]) = calls[1]
    BY <1>1, <1>2, ThenKeeps
<1>4. MessagesOK'
    BY <1>1 DEF MessagesOK
<1>5. OrderTyped /\ OrderTyped'
    <2>1. OrderTyped'
        BY <1>4, OrderTypes, PTL
    <2> QED BY <1>1, <2>1, OrderTypes
<1>6. \A kind \in Kinds : \A s \in Sides :
          Length(kind, s) \in Nat /\ Length(kind, s)' \in Nat
    <2> TAKE kind \in Kinds
    <2> TAKE s \in Sides
    <2>1. Length(kind, s) \in Nat
        BY <1>1, Lengths
    <2>2. Len(all_data'[s]) \in Nat /\ Len(part_list'[s]) \in Nat
        BY DEF Typed
    <2>3. CASE kind = "data"
        BY <2>1, <2>2, <2>3 DEF Length
    <2>4. CASE kind # "data"
        BY <2>1, <2>2, <2>4 DEF Length
    <2> QED BY <2>3, <2>4
<1>7. InOrder' /\ AllSent'
    <2>1. CASE t = ServerIo
        <3>1. UNCHANGED <<queue["app"], all_data["app"], part_list["app"], todo[AppIo]>>
            BY <1>3, <2>1
        <3>2. \A kind \in Kinds : \A k \in Nat : ~Pending(kind, k)
            BY <2>1 DEF Pending
        <3>3. ASSUME NEW kind \in Kinds
              PROVE  \/ Length(kind, "server")' = Length(kind, "server")
                     \/ /\ Length(kind, "server")' = Length(kind, "server") + 1
                        /\ \A k \in Nat : k = Length(kind, "server") => Pending(kind, k)'
            BY <1>3, <2>1 DEF Pending
        <3> QED BY <1>1, <1>5, <1>6, <3>1, <3>2, <3>3, ServerStepOrder
    <2>2. CASE t # ServerIo
        <3>1. UNCHANGED <<queue["app"], all_data["server"], part_list["server"],
                          todo[ServerIo]>>
            BY <1>3, <2>2
        <3>2. ASSUME NEW kind \in Kinds PROVE Bound(kind) <= Bound(kind)'
            <4>1. t[1] = "app"
                BY <2>2
            <4>2. /\ Length(kind, "app") \in Nat /\ Length(kind, "app")' \in Nat
                  /\ Length(kind, "app") <= Length(kind, "app")'
                BY <1>6, <4>1
            <4>3. Coming(kind) =>
                      Coming(kind)' \/ Length(kind, "app")' = Length(kind, "app") + 1
                <5>1. CASE t = AppIo
                    BY <4>1, <5>1 DEF Coming
                <5>2. CASE t # AppIo
                    BY <1>3, <5>2 DEF Coming
                <5> QED BY <5>1, <5>2
            <4> QED BY <4>2, <4>3, BoundGrows
        <3> QED BY <1>1, <1>5, <1>6, <3>1, <3>2, AppStepOrder
    <2> QED BY <2>1, <2>2
<1> QED BY <1>3, <1>4, <1>7 DEF MQInv
-------------------------------------------------------------------------------
(* The steps *)

\* A datum that is given a child keeps its parent and its partitioner.
LEMMA ChildPut ==
    ASSUME NEW list \in Seq(Datum), NEW i \in 1..Len(list), NEW j \in Int, NEW k \in Int
    PROVE  LET new == [list EXCEPT ![i].children = [@ EXCEPT ![j] = k]] IN
           /\ new \in Seq(Datum) /\ Len(new) = Len(list)
           /\ \A n \in 1..Len(list) :
                 new[n].parent = list[n].parent /\ new[n].partitioner = list[n].partitioner
<1> DEFINE kids == [list[i].children EXCEPT ![j] = k]
           d == [list[i] EXCEPT !.children = kids]
           new == [list EXCEPT ![i] = d]
<1>1. list[i] \in Datum
    OBVIOUS
<1>2. list[i].children \in Seq(Int)
    BY <1>1 DEF Datum
<1>3. kids \in Seq(Int)
    <2> DEFINE old == list[i].children
    <2>1. old \in Seq(Int)
        BY <1>2
    <2> HIDE DEF old
    <2>2. CASE j \in 1..Len(old)
        <3>1. [old EXCEPT ![j] = k] \in Seq(Int)
            BY <2>1, <2>2, ExceptSeq
        <3> QED BY <3>1 DEF old
    <2>3. CASE j \notin 1..Len(old)
        <3>1. [old EXCEPT ![j] = k] = old
            BY <2>1, <2>3
        <3> QED BY <2>1, <3>1 DEF old
    <2> QED BY <2>2, <2>3
<1> HIDE DEF kids
<1>4. d \in Datum /\ d.parent = list[i].parent /\ d.partitioner = list[i].partitioner
    BY <1>1, <1>3 DEF Datum
<1> HIDE DEF d
<1>5. /\ new \in Seq(Datum) /\ Len(new) = Len(list)
      /\ \A n \in 1..Len(list) : new[n] = IF n = i THEN d ELSE list[n]
    BY <1>4, ExceptSeq
<1>6. \A n \in 1..Len(list) :
          new[n].parent = list[n].parent /\ new[n].partitioner = list[n].partitioner
    BY <1>4, <1>5
<1>7. [list EXCEPT ![i].children = [@ EXCEPT ![j] = k]] = new
    BY DEF d, kids
<1> HIDE DEF new
<1> QED BY <1>5, <1>6, <1>7

\* GData joins all_data as its last; the others keep their parents and partitioners.
LEMMA NewDatum ==
    ASSUME Typed, NEW t \in Threads, NEW s \in Sides, NEW parent \in Int, NEW idx \in Int,
           NEW isChild \in BOOLEAN, isChild => parent \in DataKeys(s),
           NewData(t, s, parent, idx, isChild)
    PROVE  /\ all_data' \in [Sides -> Seq(Datum)]
           /\ \A u \in Sides \ {s} : all_data'[u] = all_data[u]
           /\ Len(all_data'[s]) = Len(all_data[s]) + 1
           /\ \A k \in 0..(Len(all_data[s]) - 1) :
                 /\ At(all_data'[s], k).parent = At(all_data[s], k).parent
                 /\ At(all_data'[s], k).partitioner = At(all_data[s], k).partitioner
           /\ At(all_data'[s], Len(all_data[s])).parent = parent
           /\ At(all_data'[s], Len(all_data[s])).partitioner = None
<1> DEFINE old == all_data[s]
           k0 == Len(old)
           d == [parent |-> parent, child_idx |-> idx, partitioner |-> None, children |-> <<>>]
           list == Append(old, d)
           new == IF isChild
                  THEN [list EXCEPT ![parent + 1].children = [@ EXCEPT ![idx + 1] = k0]]
                  ELSE list
<1>1. all_data' = [all_data EXCEPT ![s] = new] /\ all_data \in [Sides -> Seq(Datum)]
    BY DEF NewData, NewKey, Typed
<1>2. old \in Seq(Datum) /\ d \in Datum /\ d.parent = parent /\ d.partitioner = None
    BY <1>1 DEF Datum, None
<1>3. isChild => parent + 1 \in 1..Len(old)
    BY <1>2 DEF DataKeys, PartKeys, Length
<1> HIDE DEF old, d
<1>4. /\ list \in Seq(Datum) /\ Len(list) = k0 + 1 /\ k0 \in Nat
      /\ \A n \in 1..k0 : list[n] = old[n]
      /\ list[k0 + 1] = d
    BY <1>2, AppendProperties
<1> HIDE DEF list, k0
<1>5. /\ new \in Seq(Datum) /\ Len(new) = k0 + 1
      /\ \A n \in 1..(k0 + 1) :
            new[n].parent = list[n].parent /\ new[n].partitioner = list[n].partitioner
    <2>1. CASE isChild
        <3>1. parent + 1 \in 1..Len(list) /\ idx + 1 \in Int /\ k0 \in Int
            BY <1>3, <1>4, <2>1 DEF k0
        <3> DEFINE i == parent + 1
                   j == idx + 1
                   e == [list EXCEPT ![i].children = [@ EXCEPT ![j] = k0]]
        <3>a. i \in 1..Len(list) /\ j \in Int /\ k0 \in Int /\ list \in Seq(Datum)
            BY <1>4, <3>1
        <3>b. new = e
            BY <2>1
        <3> HIDE DEF i, j, new
        <3>2. /\ e \in Seq(Datum) /\ Len(e) = Len(list)
              /\ \A n \in 1..Len(list) :
                    e[n].parent = list[n].parent /\ e[n].partitioner = list[n].partitioner
            BY ONLY <3>a, ChildPut
        <3> HIDE DEF e
        <3> QED BY <1>4, <3>2, <3>b
    <2>2. CASE ~isChild
        <3>1. new = list
            BY <2>2
        <3> HIDE DEF new
        <3> QED BY <1>4, <3>1
    <2> QED BY <2>1, <2>2
<1> HIDE DEF new
<1>6. /\ all_data' \in [Sides -> Seq(Datum)]
      /\ all_data'[s] = new
      /\ \A u \in Sides \ {s} : all_data'[u] = all_data[u]
    BY <1>1, <1>5
<1>7. \A k \in 0..(k0 - 1) : k + 1 \in 1..k0 /\ k + 1 \in 1..(k0 + 1)
    BY <1>4
<1>8. /\ \A k \in 0..(k0 - 1) :
            /\ At(new, k).parent = At(old, k).parent
            /\ At(new, k).partitioner = At(old, k).partitioner
      /\ At(new, k0).parent = parent /\ At(new, k0).partitioner = None
    BY <1>2, <1>4, <1>5, <1>7 DEF At
<1> QED BY <1>5, <1>6, <1>8 DEF k0, old

\* The program's pointers after it has made an object.
LEMMA KeepFacts ==
    ASSUME mine \in [data : Seq(Int), part : Seq(Int)], NEW t \in Threads,
           NEW kind \in Kinds, NEW STATE k, k \in Int, Keep(t, kind, k)
    PROVE  /\ mine' \in [data : Seq(Int), part : Seq(Int)]
           /\ \A i \in DOMAIN mine'.data :
                 \/ i \in DOMAIN mine.data /\ mine'.data[i] = mine.data[i]
                 \/ t = Main /\ kind = "data" /\ mine'.data[i] = k
           /\ \A i \in DOMAIN mine'.part :
                 \/ i \in DOMAIN mine.part /\ mine'.part[i] = mine.part[i]
                 \/ t = Main /\ kind = "part" /\ mine'.part[i] = k
<1>1. CASE t # Main
    <2>1. mine' = mine
        BY <1>1 DEF Keep
    <2> QED BY <2>1
<1>2. ASSUME NEW q \in Seq(Int), NEW e \in Int
      PROVE  /\ Append(q, e) \in Seq(Int)
             /\ \A i \in DOMAIN Append(q, e) :
                   (i \in DOMAIN q /\ Append(q, e)[i] = q[i]) \/ Append(q, e)[i] = e
    <2>1. /\ Append(q, e) \in Seq(Int) /\ Len(Append(q, e)) = Len(q) + 1
          /\ \A i \in 1..Len(q) : Append(q, e)[i] = q[i]
          /\ Append(q, e)[Len(q) + 1] = e
        BY AppendProperties
    <2>2. DOMAIN q = 1..Len(q) /\ DOMAIN Append(q, e) = 1..(Len(q) + 1) /\ Len(q) \in Nat
        BY <2>1
    <2>3. \A i \in DOMAIN Append(q, e) : i = Len(q) + 1 \/ i \in DOMAIN q
        BY <2>2
    <2> QED BY <2>1, <2>2, <2>3
<1>3. CASE t = Main /\ kind = "data"
    <2>1. mine' = [mine EXCEPT !.data = Append(mine.data, k)]
        BY <1>3 DEF Keep
    <2>2. mine.data \in Seq(Int)
        OBVIOUS
    <2> DEFINE d == Append(mine.data, k)
    <2>3. /\ d \in Seq(Int)
          /\ \A i \in DOMAIN d : (i \in DOMAIN mine.data /\ d[i] = mine.data[i]) \/ d[i] = k
        BY <1>2, <2>2
    <2> HIDE DEF d
    <2>4. /\ mine'.data = d /\ mine'.part = mine.part
          /\ mine' \in [data : Seq(Int), part : Seq(Int)]
        BY <2>1, <2>3 DEF d
    <2> QED BY <1>3, <2>3, <2>4
<1>4. CASE t = Main /\ kind = "part"
    <2>1. mine' = [mine EXCEPT !.part = Append(mine.part, k)]
        BY <1>4 DEF Keep
    <2>2. mine.part \in Seq(Int)
        OBVIOUS
    <2> DEFINE d == Append(mine.part, k)
    <2>3. /\ d \in Seq(Int)
          /\ \A i \in DOMAIN d : (i \in DOMAIN mine.part /\ d[i] = mine.part[i]) \/ d[i] = k
        BY <1>2, <2>2
    <2> HIDE DEF d
    <2>4. /\ mine'.part = d /\ mine'.data = mine.data
          /\ mine' \in [data : Seq(Int), part : Seq(Int)]
        BY <2>1, <2>3 DEF d
    <2> QED BY <1>4, <2>3, <2>4
<1> QED BY <1>1, <1>3, <1>4 DEF Kinds

\* GData, called by the program, for a message or by set_partition.
LEMMA NewDataKeeps ==
    ASSUME MQInv, NEW t \in Threads, todo[t] # <<>>, NEW s \in Sides, s = t[1],
           NEW parent \in Int, NEW idx \in Int, NEW isChild \in BOOLEAN,
           Head(todo[t]).call = IF isChild THEN "child" ELSE "data",
           parent \in DataKeys(s) \/ (~isChild /\ parent = None),
           NewData(t, s, parent, idx, isChild)
    PROVE  MQInv'
<1>1. Typed /\ ObjectsOK
    BY DEF MQInv
<1>2. PICK k0 \in Nat : k0 = Len(all_data[s])
    BY <1>1 DEF Typed
<1>3. /\ all_data' \in [Sides -> Seq(Datum)]
      /\ \A u \in Sides \ {s} : all_data'[u] = all_data[u]
      /\ Len(all_data'[s]) = k0 + 1
      /\ \A k \in 0..(k0 - 1) :
            /\ At(all_data'[s], k).parent = At(all_data[s], k).parent
            /\ At(all_data'[s], k).partitioner = At(all_data[s], k).partitioner
      /\ At(all_data'[s], k0).parent = parent
      /\ At(all_data'[s], k0).partitioner = None
    BY <1>1, <1>2, NewDatum
<1> DEFINE c == Call("data_created", <<k0>>)
           calls == <<c>>
<1>4. /\ Then(t, calls) /\ UNCHANGED <<part_list, queue, failed>>
      /\ IF isChild THEN UNCHANGED mine ELSE Keep(t, "data", k0)
    BY <1>2 DEF NewData, NewKey, Broadcast
<1>5. c \in Calls /\ c.call = "data_created" /\ c.args[1] = k0
    BY Call1 DEF CallNames
<1> HIDE DEF c
<1>6. calls \in Seq(Calls) /\ calls # <<>> /\ DOMAIN calls = {1} /\ calls[1] = c
    BY <1>5
<1> HIDE DEF calls
<1>7. /\ mine' \in [data : Seq(Int), part : Seq(Int)]
      /\ \A i \in DOMAIN mine'.data :
            \/ i \in DOMAIN mine.data /\ mine'.data[i] = mine.data[i]
            \/ t = Main /\ mine'.data[i] = k0
      /\ \A i \in DOMAIN mine'.part :
            i \in DOMAIN mine.part /\ mine'.part[i] = mine.part[i]
    <2>1. mine \in [data : Seq(Int), part : Seq(Int)]
        BY <1>1 DEF Typed
    <2>2. CASE isChild
        BY <1>4, <2>1, <2>2
    <2>3. CASE ~isChild
        <3>1. Keep(t, "data", k0) /\ "data" \in Kinds /\ k0 \in Int /\ "data" # "part"
            BY <1>4, <2>3 DEF Kinds
        <3> QED BY <2>1, <3>1, KeepFacts
    <2> QED BY <2>2, <2>3
<1>8. Typed'
    <2>1. todo' \in [Threads -> Seq(Calls)]
        BY <1>1, <1>4, <1>6 DEF Typed, Then
    <2> QED BY <1>1, <1>3, <1>4, <1>7, <2>1 DEF Typed
<1>9. \A u \in Sides \ {s} :
          UNCHANGED <<all_data[u], part_list[u]>> /\ DataKeys(u)' = DataKeys(u)
    BY <1>3, <1>4 DEF DataKeys
<1>10. /\ DataKeys(s) = 0..(k0 - 1) /\ DataKeys(s)' = 0..k0
       /\ DataKeys(s)' = DataKeys(s) \cup {k0}
    <2>1. DataKeys(s) = 0..(k0 - 1) /\ DataKeys(s)' = 0..k0
        BY <1>2, <1>3 DEF DataKeys
    <2> QED BY <2>1
<1>11. \A u \in Sides : PartKeys(u)' = PartKeys(u)
    BY <1>4 DEF PartKeys
<1>12. Grows
    <2>1. ASSUME NEW u \in Sides
          PROVE  /\ Len(all_data[u]) <= Len(all_data'[u])
                 /\ \A k \in DataKeys(u) :
                       At(all_data'[u], k).partitioner = At(all_data[u], k).partitioner
        <3>1. CASE u = s
            <4>1. Len(all_data[s]) <= Len(all_data'[s])
                BY <1>2, <1>3
            <4>2. \A k \in DataKeys(s) :
                      At(all_data'[s], k).partitioner = At(all_data[s], k).partitioner
                BY <1>3, <1>10
            <4> QED BY <3>1, <4>1, <4>2
        <3>2. CASE u # s
            <4>1. all_data'[u] = all_data[u] /\ Len(all_data[u]) \in Nat
                BY <1>1, <1>9, <3>2 DEF Typed
            <4> QED BY <4>1
        <3> QED BY <3>1, <3>2
    <2>2. \A u \in Sides : Len(part_list[u]) \in Nat /\ part_list'[u] = part_list[u]
        BY <1>1, <1>4 DEF Typed
    <2> QED BY <1>11, <2>1, <2>2 DEF Grows, At
<1>13. ObjectsOK'
    <2>1. DataOK'
        <3>1. ASSUME NEW u \in Sides, NEW k \in DataKeys(u)' PROVE DatumOK(u, k)'
            <4>1. CASE u # s
                <5>1. all_data'[u] = all_data[u] /\ k \in DataKeys(u)
                    BY <1>9, <3>1, <4>1
                <5>2. DatumOK(u, k)
                    BY <1>1, <5>1 DEF ObjectsOK, DataOK
                <5> QED BY <1>11, <5>1, <5>2 DEF DatumOK, At
            <4>2. CASE u = s /\ k \in DataKeys(s)
                <5>1. DatumOK(s, k)
                    BY <1>1, <4>2 DEF ObjectsOK, DataOK
                <5>2. /\ At(all_data'[s], k).parent = At(all_data[s], k).parent
                      /\ At(all_data'[s], k).partitioner = At(all_data[s], k).partitioner
                    BY <1>3, <1>10, <4>2
                <5> QED BY <1>11, <4>2, <5>1, <5>2 DEF DatumOK, At
            <4>3. CASE u = s /\ k = k0
                <5>1. parent \in -1..(k0 - 1)
                    BY <1>10 DEF None
                <5>2. At(all_data'[s], k).parent = parent
                      /\ At(all_data'[s], k).partitioner = None
                    BY <1>3, <4>3
                <5> QED BY <4>3, <5>1, <5>2 DEF DatumOK, At
            <4> QED BY <1>10, <3>1, <4>1, <4>2, <4>3
        <3> QED BY <3>1 DEF DataOK
    <2>2. NextOK'
        BY <1>1, <1>4 DEF ObjectsOK, NextOK, PartKeys
    <2>3. MineOK'
        <3>1. ASSUME NEW i \in DOMAIN mine'.data PROVE mine'.data[i] \in DataKeys("app")'
            <4>1. CASE i \in DOMAIN mine.data /\ mine'.data[i] = mine.data[i]
                <5>1. mine'.data[i] \in DataKeys("app")
                    BY <1>1, <4>1 DEF ObjectsOK, MineOK
                <5> QED BY <1>9, <1>10, <5>1, SideFacts
            <4>2. CASE t = Main /\ mine'.data[i] = k0
                BY <1>10, <4>2, SideFacts
            <4> QED BY <1>7, <3>1, <4>1, <4>2
        <3>2. ASSUME NEW i \in DOMAIN mine'.part PROVE mine'.part[i] \in PartKeys("app")'
            <4>1. mine'.part[i] \in PartKeys("app")
                BY <1>1, <1>7, <3>2 DEF ObjectsOK, MineOK
            <4> QED BY <1>11, <4>1, SideFacts
        <3> QED BY <3>1, <3>2 DEF MineOK
    <2> QED BY <2>1, <2>2, <2>3 DEF ObjectsOK
<1>14. \A i \in DOMAIN calls : calls[i] \in OKCalls(s)'
    <2>1. k0 \in DataKeys(s)'
        BY <1>10
    <2>2. CallOK(s, c)'
        BY <1>5, <2>1 DEF CallOK
    <2>3. c \in OKCalls(s)'
        BY <1>5, <2>2 DEF OKCalls
    <2> QED BY <1>6, <2>3
<1>15. \A kind \in Kinds :
          /\ Head(todo[t]).call # Callback(kind)
          /\ Head(todo[t]).call = Constructor(kind)
                => Length(kind, s)' = Length(kind, s) + 1
          /\ \/ Length(kind, s)' = Length(kind, s)
             \/ /\ Length(kind, s)' = Length(kind, s) + 1
                /\ calls # <<>> /\ calls[1].call = Callback(kind)
                /\ calls[1].args[1] = Length(kind, s)
    <2>1. ASSUME NEW kind \in Kinds, kind = "data" PROVE
              /\ Length(kind, s)' = k0 + 1 /\ Length(kind, s) = k0
              /\ Callback(kind) = "data_created" /\ Constructor(kind) = "data"
        BY <1>2, <1>3, <2>1 DEF Length, Callback, Constructor
    <2>2. ASSUME NEW kind \in Kinds, kind # "data" PROVE
              /\ Length(kind, s)' = Length(kind, s)
              /\ Callback(kind) = "partition_defined" /\ Constructor(kind) = "partitioner"
        BY <1>4, <2>2 DEF Length, Callback, Constructor
    <2> QED BY <1>5, <1>6, <2>1, <2>2
<1> QED BY <1>4, <1>6, <1>8, <1>9, <1>12, <1>13, <1>14, <1>15, LocalKeeps

\* GPartitioner, called by the program or for a message.
LEMMA NewPartitionerKeeps ==
    ASSUME MQInv, NEW t \in Threads, todo[t] # <<>>, NEW s \in Sides, s = t[1],
           NEW y \in Positive, NEW x \in Positive, NEW expected \in Int,
           Head(todo[t]).call = "partitioner",
           NewPartitioner(t, s, y, x, expected)
    PROVE  MQInv'
<1>1. Typed /\ ObjectsOK
    BY DEF MQInv
<1>2. PICK k0 \in Nat : k0 = Len(part_list[s])
    BY <1>1 DEF Typed
<1> DEFINE p0 == [y |-> y, x |-> x, next |-> None]
           new == Append(part_list[s], p0)
<1>3. part_list \in [Sides -> Seq(Partitioner)] /\ part_list[s] \in Seq(Partitioner)
    BY <1>1 DEF Typed
<1>4. p0 \in Partitioner /\ p0.next = None
    BY DEF Partitioner, None
<1>5. part_list' = [part_list EXCEPT ![s] = new]
    BY DEF NewPartitioner
<1> HIDE DEF p0
<1>6. /\ new \in Seq(Partitioner) /\ Len(new) = k0 + 1
      /\ \A i \in 1..k0 : new[i] = part_list[s][i]
      /\ new[k0 + 1] = p0
    BY <1>2, <1>3, <1>4, AppendProperties
<1> HIDE DEF new
<1>7. /\ part_list' \in [Sides -> Seq(Partitioner)] /\ part_list'[s] = new
      /\ \A u \in Sides \ {s} : part_list'[u] = part_list[u]
    BY <1>3, <1>5, <1>6
<1> DEFINE c == Call("partition_defined", <<k0>>)
           d == Call("assert_key", <<expected, k0>>)
           calls == <<c, d>>
<1>8. /\ Then(t, calls) /\ Keep(t, "part", k0)
      /\ UNCHANGED <<all_data, queue, failed>>
    BY <1>2 DEF NewPartitioner, NewKey, Broadcast
<1>9. /\ c \in Calls /\ c.call = "partition_defined" /\ c.args[1] = k0
      /\ d \in Calls /\ d.call = "assert_key"
      /\ d.args[1] = expected /\ d.args[2] = k0
    BY Call1, Call2 DEF CallNames
<1> HIDE DEF c, d
<1>10. /\ calls \in Seq(Calls) /\ calls # <<>> /\ DOMAIN calls = {1, 2}
       /\ calls[1] = c /\ calls[2] = d
    BY <1>9
<1> HIDE DEF calls
<1>11. /\ mine' \in [data : Seq(Int), part : Seq(Int)]
       /\ \A i \in DOMAIN mine'.data :
             i \in DOMAIN mine.data /\ mine'.data[i] = mine.data[i]
       /\ \A i \in DOMAIN mine'.part :
             \/ i \in DOMAIN mine.part /\ mine'.part[i] = mine.part[i]
             \/ t = Main /\ mine'.part[i] = k0
    <2>1. mine \in [data : Seq(Int), part : Seq(Int)]
        BY <1>1 DEF Typed
    <2>2. Keep(t, "part", k0) /\ "part" \in Kinds /\ k0 \in Int /\ "data" # "part"
        BY <1>8 DEF Kinds
    <2> QED BY <2>1, <2>2, KeepFacts
<1>12. Typed'
    <2>1. todo' \in [Threads -> Seq(Calls)]
        BY <1>1, <1>8, <1>10 DEF Typed, Then
    <2> QED BY <1>1, <1>7, <1>8, <1>11, <2>1 DEF Typed
<1>13. \A u \in Sides \ {s} :
           UNCHANGED <<all_data[u], part_list[u]>> /\ PartKeys(u)' = PartKeys(u)
    BY <1>7, <1>8 DEF PartKeys
<1>14. /\ PartKeys(s) = 0..(k0 - 1) /\ PartKeys(s)' = 0..k0
       /\ PartKeys(s)' = PartKeys(s) \cup {k0}
    <2>1. PartKeys(s) = 0..(k0 - 1) /\ PartKeys(s)' = 0..k0
        BY <1>2, <1>6, <1>7 DEF PartKeys
    <2> QED BY <2>1
<1>15. \A u \in Sides : DataKeys(u)' = DataKeys(u)
    BY <1>8 DEF DataKeys
<1>16. \A u \in Sides : PartKeys(u) \subseteq PartKeys(u)'
    BY <1>13, <1>14
<1>17. Grows
    <2>1. \A u \in Sides : Len(part_list[u]) <= Len(part_list'[u])
        <3>1. Len(part_list[s]) <= Len(part_list'[s])
            BY <1>2, <1>6, <1>7
        <3>2. \A u \in Sides \ {s} :
                  part_list'[u] = part_list[u] /\ Len(part_list[u]) \in Nat
            BY <1>3, <1>7
        <3> QED BY <3>1, <3>2
    <2>2. \A u \in Sides : Len(all_data[u]) \in Nat /\ all_data'[u] = all_data[u]
        BY <1>1, <1>8 DEF Typed
    <2> QED BY <1>16, <2>1, <2>2 DEF Grows, At
<1>18. ObjectsOK'
    <2>1. DataOK'
        <3>1. ASSUME NEW u \in Sides, NEW k \in DataKeys(u)' PROVE DatumOK(u, k)'
            <4>1. DatumOK(u, k)
                BY <1>1, <1>15, <3>1 DEF ObjectsOK, DataOK
            <4> QED BY <1>8, <1>16, <4>1 DEF DatumOK, At
        <3> QED BY <3>1 DEF DataOK
    <2>2. NextOK'
        <3>1. ASSUME NEW u \in Sides, NEW p \in PartKeys(u)'
              PROVE  \/ At(part_list'[u], p).next = None
                     \/ At(part_list'[u], p).next \in PartKeys(u)'
            <4>1. CASE u # s
                <5>1. part_list'[u] = part_list[u] /\ p \in PartKeys(u)
                    BY <1>13, <3>1, <4>1
                <5> QED BY <1>1, <1>16, <5>1 DEF ObjectsOK, NextOK
            <4>2. CASE u = s /\ p \in PartKeys(s)
                <5>1. At(part_list'[s], p) = At(part_list[s], p)
                    <6>1. p + 1 \in 1..k0
                        BY <1>14, <4>2
                    <6> QED BY <1>6, <1>7, <6>1 DEF At
                <5>2. \/ At(part_list[s], p).next = None
                      \/ At(part_list[s], p).next \in PartKeys(s)
                    BY <1>1, <4>2 DEF ObjectsOK, NextOK
                <5> QED BY <1>16, <4>2, <5>1, <5>2
            <4>3. CASE u = s /\ p = k0
                BY <1>4, <1>6, <1>7, <4>3 DEF At
            <4> QED BY <1>14, <3>1, <4>1, <4>2, <4>3
        <3> QED BY <3>1 DEF NextOK
    <2>3. MineOK'
        <3>1. ASSUME NEW i \in DOMAIN mine'.data PROVE mine'.data[i] \in DataKeys("app")'
            <4>1. mine'.data[i] \in DataKeys("app")
                BY <1>1, <1>11, <3>1 DEF ObjectsOK, MineOK
            <4> QED BY <1>15, <4>1, SideFacts
        <3>2. ASSUME NEW i \in DOMAIN mine'.part PROVE mine'.part[i] \in PartKeys("app")'
            <4>1. CASE i \in DOMAIN mine.part /\ mine'.part[i] = mine.part[i]
                <5>1. mine'.part[i] \in PartKeys("app")
                    BY <1>1, <4>1 DEF ObjectsOK, MineOK
                <5> QED BY <1>16, <5>1, SideFacts
            <4>2. CASE t = Main /\ mine'.part[i] = k0
                BY <1>14, <4>2, SideFacts
            <4> QED BY <1>11, <3>2, <4>1, <4>2
        <3> QED BY <3>1, <3>2 DEF MineOK
    <2> QED BY <2>1, <2>2, <2>3 DEF ObjectsOK
<1>19. \A i \in DOMAIN calls : calls[i] \in OKCalls(s)'
    <2>1. k0 \in PartKeys(s)'
        BY <1>14
    <2>2. CallOK(s, c)'
        BY <1>9, <2>1 DEF CallOK
    <2>3. CallOK(s, d)'
        BY <1>9 DEF CallOK
    <2>4. c \in OKCalls(s)' /\ d \in OKCalls(s)'
        BY <1>9, <2>2, <2>3 DEF OKCalls
    <2> QED BY <1>10, <2>4
<1>20. \A kind \in Kinds :
           /\ Head(todo[t]).call # Callback(kind)
           /\ Head(todo[t]).call = Constructor(kind)
                 => Length(kind, s)' = Length(kind, s) + 1
           /\ \/ Length(kind, s)' = Length(kind, s)
              \/ /\ Length(kind, s)' = Length(kind, s) + 1
                 /\ calls # <<>> /\ calls[1].call = Callback(kind)
                 /\ calls[1].args[1] = Length(kind, s)
    <2>1. ASSUME NEW kind \in Kinds, kind = "data" PROVE
              /\ Length(kind, s)' = Length(kind, s)
              /\ Callback(kind) = "data_created" /\ Constructor(kind) = "data"
        BY <1>8, <2>1 DEF Length, Callback, Constructor
    <2>2. ASSUME NEW kind \in Kinds, kind # "data" PROVE
              /\ Length(kind, s)' = k0 + 1 /\ Length(kind, s) = k0
              /\ Callback(kind) = "partition_defined" /\ Constructor(kind) = "partitioner"
        BY <1>2, <1>6, <1>7, <2>2 DEF Length, Callback, Constructor
    <2> QED BY <1>9, <1>10, <2>1, <2>2
<1> QED BY <1>8, <1>10, <1>12, <1>13, <1>17, <1>18, <1>19, <1>20, LocalKeeps

\* The assertion of CreatePartition returns or stops the process.
LEMMA AssertKeyKeeps ==
    ASSUME MQInv, NEW t \in Threads, todo[t] # <<>>, NEW s \in Sides, s = t[1],
           NEW expected \in Int, NEW k \in Int,
           Head(todo[t]).call = "assert_key",
           AssertKey(t, s, expected, k)
    PROVE  MQInv'
<1>1. Typed /\ ObjectsOK
    BY DEF MQInv
<1>2. UNCHANGED <<all_data, part_list, queue, mine>>
    BY DEF AssertKey
<1>3. CASE expected \in {None, k}
    <2> DEFINE calls == <<>>
    <2>1. Then(t, calls) /\ UNCHANGED failed
        BY <1>3 DEF AssertKey
    <2>2. calls \in Seq(Calls) /\ DOMAIN calls = {}
        OBVIOUS
    <2> HIDE DEF calls
    <2>3. todo' \in [Threads -> Seq(Calls)]
        BY <1>1, <2>1, <2>2 DEF Typed, Then
    <2>4. Typed'
        BY <1>1, <1>2, <2>1, <2>3 DEF Typed
    <2>5. ObjectsOK'
        BY <1>1, <1>2 DEF ObjectsOK, DataOK, NextOK, MineOK, DatumOK, DataKeys, PartKeys
    <2>6. Grows
        <3>1. \A u \in Sides : Len(all_data[u]) \in Nat /\ Len(part_list[u]) \in Nat
            BY <1>1 DEF Typed
        <3> QED BY <1>2, <3>1 DEF Grows, PartKeys
    <2>7. \A kind \in Kinds :
              /\ Head(todo[t]).call # Callback(kind)
              /\ Head(todo[t]).call # Constructor(kind)
              /\ Length(kind, s)' = Length(kind, s)
        BY <1>2 DEF Callback, Constructor, Length
    <2>8. \A u \in Sides \ {s} : UNCHANGED <<all_data[u], part_list[u]>>
        BY <1>2
    <2>9. \A i \in DOMAIN calls : calls[i] \in OKCalls(s)'
        BY <2>2
    <2> QED BY <1>2, <2>1, <2>2, <2>4, <2>5, <2>6, <2>7, <2>8, <2>9, LocalKeeps
<1>4. CASE expected \notin {None, k}
    <2>1. UNCHANGED todo /\ failed' = failed \cup {s}
        BY <1>4 DEF AssertKey
    <2>2. failed' \subseteq Sides
        BY <1>1, <2>1 DEF Typed
    <2> QED BY <1>2, <2>1, <2>2, StopKeeps
<1> QED BY <1>3, <1>4

\* set_next: the partitioner points at one that is there.
LEMMA SetNextKeeps ==
    ASSUME MQInv, NEW t \in Threads, todo[t] # <<>>, NEW s \in Sides, s = t[1],
           NEW p \in PartKeys(s), NEW q \in PartKeys(s) \cup {None},
           Head(todo[t]).call \in {"set_next", "P.set_next"},
           SetNext(t, s, p, q)
    PROVE  MQInv'
<1>1. Typed /\ ObjectsOK
    BY DEF MQInv
<1>2. part_list \in [Sides -> Seq(Partitioner)] /\ part_list[s] \in Seq(Partitioner)
    BY <1>1 DEF Typed
<1>3. p \in Int /\ q \in Int /\ p + 1 \in 1..Len(part_list[s])
    BY <1>2 DEF PartKeys, None
<1> DEFINE e == [part_list[s][p + 1] EXCEPT !.next = q]
           new == [part_list[s] EXCEPT ![p + 1] = e]
<1>4. part_list' = [part_list EXCEPT ![s] = new] /\ UNCHANGED <<all_data, queue, mine, failed>>
    BY DEF SetNext
<1>5. e \in Partitioner /\ e.next = q
    <2>1. part_list[s][p + 1] \in Partitioner
        BY <1>2, <1>3
    <2> QED BY <1>3, <2>1 DEF Partitioner
<1> HIDE DEF e
<1>6. /\ new \in Seq(Partitioner) /\ Len(new) = Len(part_list[s])
      /\ \A i \in 1..Len(part_list[s]) : new[i] = IF i = p + 1 THEN e ELSE part_list[s][i]
    BY <1>2, <1>3, <1>5, ExceptSeq
<1> HIDE DEF new
<1>7. /\ part_list' \in [Sides -> Seq(Partitioner)] /\ part_list'[s] = new
      /\ \A u \in Sides \ {s} : part_list'[u] = part_list[u]
    BY <1>2, <1>4, <1>6
<1>8. \A u \in Sides : Len(part_list'[u]) = Len(part_list[u])
    BY <1>6, <1>7
<1>9. \A u \in Sides : PartKeys(u)' = PartKeys(u) /\ DataKeys(u)' = DataKeys(u)
    BY <1>4, <1>8 DEF PartKeys, DataKeys
<1> DEFINE c == Call("partition_cascaded", <<p, q>>)
           calls == <<c>>
<1>10. Then(t, calls)
    BY DEF SetNext, Broadcast
<1>11. c \in Calls /\ c.call = "partition_cascaded" /\ c.args[1] = p
    BY <1>3, Call2 DEF CallNames
<1> HIDE DEF c
<1>12. calls \in Seq(Calls) /\ calls # <<>> /\ DOMAIN calls = {1} /\ calls[1] = c
    BY <1>11
<1> HIDE DEF calls
<1>13. Typed'
    <2>1. todo' \in [Threads -> Seq(Calls)]
        BY <1>1, <1>10, <1>12 DEF Typed, Then
    <2> QED BY <1>1, <1>4, <1>7, <2>1 DEF Typed
<1>14. Grows
    <2>1. \A u \in Sides : Len(all_data[u]) \in Nat /\ Len(part_list[u]) \in Nat
        BY <1>1 DEF Typed
    <2>2. \A u \in Sides : Len(part_list[u]) <= Len(part_list'[u])
        BY <1>8, <2>1
    <2>3. \A u \in Sides : Len(all_data[u]) <= Len(all_data'[u])
        BY <1>4, <2>1
    <2> QED BY <1>4, <1>9, <2>2, <2>3 DEF Grows, At
<1>15. ObjectsOK'
    <2>1. DataOK' /\ MineOK'
        BY <1>1, <1>4, <1>9, SideFacts DEF ObjectsOK, DataOK, DatumOK, MineOK
    <2>2. NextOK'
        <3>1. ASSUME NEW u \in Sides, NEW j \in PartKeys(u)
              PROVE  \/ At(part_list'[u], j).next = None
                     \/ At(part_list'[u], j).next \in PartKeys(u)
            <4>1. \/ At(part_list[u], j).next = None
                  \/ At(part_list[u], j).next \in PartKeys(u)
                BY <1>1 DEF ObjectsOK, NextOK
            <4>2. CASE u # s
                BY <1>7, <4>1, <4>2
            <4>3. CASE u = s /\ j # p
                <5>1. j + 1 \in 1..Len(part_list[s]) /\ j + 1 # p + 1
                    <6>0. Len(part_list[s]) \in Nat
                        BY <1>2
                    <6>1. PICK n \in Nat : n = Len(part_list[s])
                        BY <6>0
                    <6>2. j \in 0..(n - 1) /\ j # p
                        BY <4>3, <6>1 DEF PartKeys
                    <6>3. j + 1 \in 1..n
                        BY <6>2
                    <6>4. j + 1 # p + 1
                        <7>1. p \in Int /\ j \in Int
                            BY <1>3, <6>2
                        <7> QED BY <6>2, <7>1
                    <6> QED BY <6>1, <6>3, <6>4
                <5>2. At(part_list'[s], j) = At(part_list[s], j)
                    BY <1>6, <1>7, <5>1 DEF At
                <5> QED BY <4>1, <4>3, <5>2
            <4>4. CASE u = s /\ j = p
                <5>1. At(part_list'[s], j) = e
                    BY <1>3, <1>6, <1>7, <4>4 DEF At
                <5> QED BY <1>5, <4>4, <5>1
            <4> QED BY <4>2, <4>3, <4>4
        <3> QED BY <1>9, <3>1 DEF NextOK, At
    <2> QED BY <2>1, <2>2 DEF ObjectsOK
<1>16. \A i \in DOMAIN calls : calls[i] \in OKCalls(s)'
    <2>1. p \in PartKeys(s)'
        BY <1>9
    <2>2. CallOK(s, c)'
        BY <1>11, <2>1 DEF CallOK
    <2>3. c \in OKCalls(s)'
        BY <1>11, <2>2 DEF OKCalls
    <2> QED BY <1>12, <2>3
<1>17. \A kind \in Kinds :
           /\ Head(todo[t]).call # Callback(kind)
           /\ Head(todo[t]).call # Constructor(kind)
           /\ Length(kind, s)' = Length(kind, s)
    BY <1>4, <1>8 DEF Callback, Constructor, Length
<1>18. \A u \in Sides \ {s} : UNCHANGED <<all_data[u], part_list[u]>>
    BY <1>4, <1>7
<1> QED BY <1>4, <1>10, <1>12, <1>13, <1>14, <1>15, <1>16, <1>17, <1>18, LocalKeeps

\* A datum that is cut, as two assignments and as one.
CutInTwo(a, s, i, p, kids) == [a EXCEPT ![s][i].partitioner = p, ![s][i].children = kids]
CutAtOnce(a, s, i, p, kids) ==
    [a EXCEPT ![s] = [a[s] EXCEPT
        ![i] = [a[s][i] EXCEPT !.partitioner = p, !.children = kids]]]

\* The two assignments of set_partition, as one.
LEMMA CutDatum ==
    ASSUME NEW a \in [Sides -> Seq(Datum)], NEW s \in Sides, NEW i \in 1..Len(a[s]),
           NEW p \in Int, NEW kids \in Seq(Int)
    PROVE  CutInTwo(a, s, i, p, kids) = CutAtOnce(a, s, i, p, kids)
<1> DEFINE l == a[s]
           e1 == [l[i] EXCEPT !.partitioner = p]
           l1 == [l EXCEPT ![i] = e1]
           a1 == [a EXCEPT ![s] = l1]
           e2 == [e1 EXCEPT !.children = kids]
           l2 == [l EXCEPT ![i] = e2]
<1>1. a1[s] = l1
    OBVIOUS
<1>2. l1[i] = e1
    <2>1. l \in Seq(Datum) /\ i \in DOMAIN l
        OBVIOUS
    <2> HIDE DEF l, e1
    <2> QED BY <2>1
<1>3. [l1 EXCEPT ![i] = e2] = l2
    <2> HIDE DEF e1, e2
    <2> QED OBVIOUS
<1>4. [a1 EXCEPT ![s] = l2] = [a EXCEPT ![s] = l2]
    <2> HIDE DEF l1, l2
    <2> QED OBVIOUS
<1>5. [a EXCEPT ![s][i].partitioner = p, ![s][i].children = kids]
          = [a1 EXCEPT ![s] = [a1[s] EXCEPT ![i] = [a1[s][i] EXCEPT !.children = kids]]]
    OBVIOUS
<1>6. [a1 EXCEPT ![s] = [a1[s] EXCEPT ![i] = [a1[s][i] EXCEPT !.children = kids]]]
          = [a1 EXCEPT ![s] = l2]
    BY <1>1, <1>2, <1>3
<1>7. CutAtOnce(a, s, i, p, kids) = [a EXCEPT ![s] = l2]
    BY DEF CutAtOnce
<1> QED BY <1>4, <1>5, <1>6, <1>7 DEF CutInTwo

\* A partitioner cuts into one piece at least.
LEMMA PiecesThere ==
    ASSUME Typed, NEW s \in Sides, NEW p \in PartKeys(s)
    PROVE  At(part_list[s], p).y * At(part_list[s], p).x \in Positive
<1>1. part_list[s] \in Seq(Partitioner) /\ p + 1 \in 1..Len(part_list[s])
    BY DEF Typed, PartKeys
<1>2. At(part_list[s], p) \in Partitioner
    BY <1>1 DEF At
<1>3. At(part_list[s], p).y \in Positive /\ At(part_list[s], p).x \in Positive
    BY <1>2 DEF Partitioner
<1>4. \A y, x \in Positive : y * x \in Positive
    BY SMT DEF Positive
<1> QED BY <1>3, <1>4

\* set_partition on a datum that is there cuts it; otherwise the process stops.
LEMMA SetPartitionKeeps ==
    ASSUME MQInv, NEW t \in Threads, todo[t] # <<>>, NEW s \in Sides, s = t[1],
           NEW d \in Int, NEW p \in PartKeys(s),
           Head(todo[t]).call \in {"set_partition", "A.set_partition"},
           SetPartition(t, s, d, p)
    PROVE  MQInv'
<1>1. Typed /\ ObjectsOK
    BY DEF MQInv
<1>2. all_data \in [Sides -> Seq(Datum)] /\ all_data[s] \in Seq(Datum)
    BY <1>1 DEF Typed
<1>3. CASE ~Known(all_data[s], d)
    <2>1. failed' = failed \cup {s} /\ UNCHANGED <<all_data, part_list, queue, todo, mine>>
        BY <1>3 DEF SetPartition
    <2>2. failed' \subseteq Sides
        BY <1>1, <2>1 DEF Typed
    <2> QED BY <2>1, <2>2, StopKeeps
<1>4. CASE Known(all_data[s], d)
    <2>1. d + 1 \in 1..Len(all_data[s]) /\ d \in DataKeys(s)
        BY <1>2, <1>4 DEF Known, DataKeys
    <2> DEFINE n == At(part_list[s], p).y * At(part_list[s], p).x
    <2>2. n \in Nat
        <3>1. n \in Positive
            BY <1>1, PiecesThere
        <3> QED BY <3>1 DEF Positive
    <2> DEFINE kids == [i \in 1..n |-> None]
               e == [all_data[s][d + 1] EXCEPT !.partitioner = p, !.children = kids]
               new == [all_data[s] EXCEPT ![d + 1] = e]
               births == [i \in 1..n |-> Call("child", <<d, i - 1>>)]
               c == Call("data_partitioned", <<d>>)
               calls == births \o <<c>>
    <2>3. /\ all_data' = [all_data EXCEPT ![s] = new]
          /\ Then(t, calls) /\ UNCHANGED <<part_list, queue, mine, failed>>
        <3>1. all_data' = CutInTwo(all_data, s, d + 1, p, kids)
            BY <1>4 DEF SetPartition, CutInTwo
        <3>2. all_data' = [all_data EXCEPT ![s] = new]
            <4>1. kids \in Seq(Int) /\ p \in Int
                BY <2>2 DEF None, PartKeys
            <4>2. [all_data EXCEPT ![s] = new] = CutAtOnce(all_data, s, d + 1, p, kids)
                BY DEF CutAtOnce
            <4> HIDE DEF kids, new
            <4> QED BY <1>2, <2>1, <3>1, <4>1, <4>2, CutDatum
        <3> QED BY <1>4, <3>2 DEF SetPartition, Broadcast
    <2> HIDE DEF n
    <2>4. e \in Datum /\ e.partitioner = p /\ e.parent = At(all_data[s], d).parent
        <3>1. kids \in Seq(Int)
            BY <2>2 DEF None
        <3> HIDE DEF kids
        <3>2. all_data[s][d + 1] \in Datum /\ p \in Int
            BY <1>2, <2>1 DEF PartKeys
        <3> QED BY <3>1, <3>2 DEF Datum, At
    <2> HIDE DEF e
    <2>5. /\ new \in Seq(Datum) /\ Len(new) = Len(all_data[s])
          /\ \A i \in 1..Len(all_data[s]) : new[i] = IF i = d + 1 THEN e ELSE all_data[s][i]
        BY <1>2, <2>1, <2>4, ExceptSeq
    <2> HIDE DEF new
    <2>6. /\ all_data' \in [Sides -> Seq(Datum)] /\ all_data'[s] = new
          /\ \A u \in Sides \ {s} : all_data'[u] = all_data[u]
        BY <1>2, <2>3, <2>5
    <2>7. \A u \in Sides : Len(all_data'[u]) = Len(all_data[u])
        BY <2>5, <2>6
    <2>8. \A u \in Sides : PartKeys(u)' = PartKeys(u) /\ DataKeys(u)' = DataKeys(u)
        BY <2>3, <2>7 DEF PartKeys, DataKeys
    <2>9. At(all_data'[s], d) = e
        BY <2>1, <2>5, <2>6 DEF At
    <2>10. /\ births \in Seq(Calls) /\ Len(births) = n
           /\ \A i \in 1..n : births[i] = Call("child", <<d, i - 1>>)
        <3>1. \A i \in 1..n : Call("child", <<d, i - 1>>) \in Calls
            BY <2>2, Call2 DEF CallNames
        <3> QED BY <2>2, <3>1
    <2>11. c \in Calls /\ c.call = "data_partitioned" /\ c.args[1] = d
        BY Call1 DEF CallNames
    <2> HIDE DEF births, c
    <2>12. /\ calls \in Seq(Calls)
           /\ \A i \in DOMAIN calls :
                 calls[i] = c \/ \E j \in 1..n : calls[i] = births[j]
        <3>1. <<c>> \in Seq(Calls) /\ Len(<<c>>) = 1 /\ <<c>>[1] = c
            BY <2>11
        <3> DEFINE r == <<c>>
        <3>2. r \in Seq(Calls) /\ Len(r) = 1 /\ r[1] = c
            BY <3>1
        <3> HIDE DEF r
        <3>3. /\ births \o r \in Seq(Calls) /\ Len(births \o r) = n + 1
              /\ \A i \in 1..n : (births \o r)[i] = births[i]
              /\ (births \o r)[n + 1] = r[1]
            BY <2>2, <2>10, <3>2, ConcatProperties, SMTT(30)
        <3>4. \A i \in DOMAIN (births \o r) : i \in 1..n \/ i = n + 1
            BY <2>2, <3>3
        <3> QED BY <3>2, <3>3, <3>4 DEF r
    <2> HIDE DEF calls
    <2>13. Typed'
        <3>1. todo' \in [Threads -> Seq(Calls)]
            <4>1. calls \o Tail(todo[t]) \in Seq(Calls)
                BY <1>1, <2>12, CallsBefore DEF Typed
            <4> QED BY <1>1, <2>3, <4>1 DEF Typed, Then
        <3> QED BY <1>1, <2>3, <2>6, <3>1 DEF Typed
    <2>14. \A u \in Sides : \A k \in DataKeys(u) :
               \/ u = s /\ k = d /\ At(all_data'[u], k) = e
               \/ At(all_data'[u], k) = At(all_data[u], k)
        <3> SUFFICES ASSUME NEW u \in Sides, NEW k \in DataKeys(u)
                     PROVE  \/ u = s /\ k = d /\ At(all_data'[u], k) = e
                            \/ At(all_data'[u], k) = At(all_data[u], k)
            OBVIOUS
        <3>1. CASE u # s
            BY <2>6, <3>1
        <3>2. CASE u = s /\ k # d
            <4>1. k + 1 \in 1..Len(all_data[s]) /\ k + 1 # d + 1
                BY <1>2, <3>2 DEF DataKeys
            <4> QED BY <2>5, <2>6, <3>2, <4>1 DEF At
        <3>3. CASE u = s /\ k = d
            BY <2>9, <3>3
        <3> QED BY <3>1, <3>2, <3>3
    <2>15. Grows
        <3>1. \A u \in Sides : Len(all_data[u]) \in Nat /\ Len(part_list[u]) \in Nat
            BY <1>1 DEF Typed
        <3>2. \A u \in Sides : Len(part_list[u]) <= Len(part_list'[u])
            BY <2>3, <3>1
        <3>3. \A u \in Sides : Len(all_data[u]) <= Len(all_data'[u])
            BY <2>7, <3>1
        <3>4. ASSUME NEW u \in Sides, NEW k \in DataKeys(u),
                     At(all_data[u], k).partitioner \in PartKeys(u)
              PROVE  At(all_data'[u], k).partitioner \in PartKeys(u)'
            BY <2>4, <2>8, <2>14, <3>4
        <3> QED BY <3>2, <3>3, <3>4 DEF Grows, At
    <2>16. ObjectsOK'
        <3>1. ASSUME NEW u \in Sides, NEW k \in DataKeys(u) PROVE DatumOK(u, k)'
            <4>1. DatumOK(u, k)
                BY <1>1 DEF ObjectsOK, DataOK
            <4>2. CASE At(all_data'[u], k) = At(all_data[u], k)
                BY <2>8, <4>1, <4>2 DEF DatumOK, At
            <4>3. CASE u = s /\ k = d /\ At(all_data'[u], k) = e
                <5>1. At(all_data'[u], k).parent \in -1..(k - 1)
                    BY <2>4, <4>1, <4>3 DEF DatumOK
                <5>2. At(all_data'[u], k).partitioner \in PartKeys(u)'
                    BY <2>4, <2>8, <4>3
                <5> QED BY <5>1, <5>2 DEF DatumOK, At
            <4> QED BY <2>14, <4>2, <4>3
        <3>2. DataOK'
            BY <2>8, <3>1 DEF DataOK
        <3>3. NextOK' /\ MineOK'
            BY <1>1, <2>3, <2>8, SideFacts DEF ObjectsOK, NextOK, MineOK
        <3> QED BY <3>2, <3>3 DEF ObjectsOK
    <2>17. \A i \in DOMAIN calls : calls[i] \in OKCalls(s)'
        <3>1. d \in DataKeys(s)'
            BY <2>1, <2>8
        <3>2. At(all_data'[s], d).partitioner \in PartKeys(s)'
            BY <2>4, <2>8, <2>9
        <3>3. CallOK(s, c)'
            BY <2>11, <3>1, <3>2 DEF CallOK, At
        <3>4. c \in OKCalls(s)'
            BY <2>11, <3>3 DEF OKCalls
        <3>5. ASSUME NEW j \in 1..n PROVE births[j] \in OKCalls(s)'
            <4> DEFINE b == Call("child", <<d, j - 1>>)
            <4>1. /\ b \in Calls /\ b.call = "child"
                  /\ b.args[1] = d /\ b.args[2] = j - 1 /\ j - 1 \in Int
                BY Call2 DEF CallNames
            <4> HIDE DEF b
            <4>2. CallOK(s, b)'
                BY <3>1, <4>1 DEF CallOK
            <4>3. b \in OKCalls(s)'
                BY <4>1, <4>2 DEF OKCalls
            <4> QED BY <2>10, <4>3 DEF b
        <3> QED BY <2>12, <3>4, <3>5
    <2>18. \A kind \in Kinds :
               /\ Head(todo[t]).call # Callback(kind)
               /\ Head(todo[t]).call # Constructor(kind)
               /\ Length(kind, s)' = Length(kind, s)
        BY <2>3, <2>7 DEF Callback, Constructor, Length
    <2>19. \A u \in Sides \ {s} : UNCHANGED <<all_data[u], part_list[u]>>
        BY <2>3, <2>6
    <2> QED BY <2>3, <2>12, <2>13, <2>15, <2>16, <2>17, <2>18, <2>19, LocalKeeps
<1> QED BY <1>3, <1>4
DatumMsg(tag, s, k) ==
    [tag |-> tag, body |-> SerializeData(At(all_data[s], k), part_list[s], k)]
PartitionerMsg(tag, s, k) ==
    [tag |-> tag, body |-> SerializePartitioner(part_list[s], k, "key")]

\* What is on the wire of a datum that is there.
LEMMA DatumMessage ==
    ASSUME Typed, ObjectsOK, NEW s \in Sides, NEW k \in DataKeys(s),
           NEW tag \in {"DATA_CREATED", "DATA_PARTITIONED"},
           tag = "DATA_PARTITIONED" => At(all_data[s], k).partitioner \in PartKeys(s)
    PROVE  LET m == DatumMsg(tag, s, k) IN
           /\ m \in [tag : Tags, body : Body] /\ MessageOK(m)
           /\ m.tag = tag /\ m.body[1].val = k
           /\ m.body[7].val = At(all_data[s], k).parent
           /\ m.body[8].val = At(all_data[s], k).partitioner
<1> DEFINE datum == At(all_data[s], k)
           list == part_list[s]
           b == SerializeData(datum, list, k)
           m == [tag |-> tag, body |-> b]
<1>1. /\ all_data[s] \in Seq(Datum) /\ list \in Seq(Partitioner)
      /\ k \in Nat /\ k + 1 \in 1..Len(all_data[s])
    BY DEF Typed, DataKeys
<1>2. datum \in Datum
    BY <1>1 DEF At
<1>3. DatumOK(s, k)
    BY DEF ObjectsOK, DataOK
<1>4. /\ datum.parent \in -1..(k - 1)
      /\ datum.partitioner = None \/ datum.partitioner \in 0..(Len(list) - 1)
      /\ tag = "DATA_PARTITIONED" => datum.partitioner \in 0..(Len(list) - 1)
    BY <1>3 DEF DatumOK, PartKeys
<1> HIDE DEF datum, list
<1>5. /\ b \in Body /\ Len(b) >= 9
      /\ b[1].what = "key" /\ b[1].val = k
      /\ b[4].what = "child_idx"
      /\ b[7].what = "parent" /\ b[7].val = datum.parent
      /\ b[8].what = "partitioner" /\ b[8].val = datum.partitioner
    BY <1>1, <1>2, <1>4, DataLayout
<1> HIDE DEF b
<1>6. tag = "DATA_PARTITIONED" => b[8].val \in Nat
    <2>1. Len(list) \in Nat
        BY <1>1
    <2> QED BY <1>4, <1>5, <2>1
<1>7. m.tag = tag /\ m.body = b /\ m \in [tag : Tags, body : Body]
    BY <1>5 DEF Tags
<1>8. MessageOK(m)
    <2> HIDE DEF m
    <2> QED BY <1>1, <1>4, <1>5, <1>6, <1>7 DEF MessageOK
<1> QED BY <1>5, <1>7, <1>8 DEF DatumMsg, b, datum, list

\* What is on the wire of a partitioner that is there.
LEMMA PartitionerMessage ==
    ASSUME Typed, ObjectsOK, NEW s \in Sides, NEW k \in PartKeys(s),
           NEW tag \in {"PARTITION_CREATED", "PARTITION_CASCADED"}
    PROVE  LET m == PartitionerMsg(tag, s, k) IN
           /\ m \in [tag : Tags, body : Body] /\ MessageOK(m)
           /\ m.tag = tag /\ m.body[1].val = k
           /\ m.body[4].val \in PartKeys(s) \cup {None}
           /\ m.body[4].val = At(part_list[s], k).next
<1> DEFINE list == part_list[s]
           b == SerializePartitioner(list, k, "key")
           m == [tag |-> tag, body |-> b]
           n == At(list, k).next
<1>1. list \in Seq(Partitioner) /\ k \in 0..(Len(list) - 1) /\ "key" \in Whats
    BY DEF Typed, PartKeys, Whats
<1>2. At(list, k) \in Partitioner
    BY <1>1 DEF At
<1>3. n \in PartKeys(s) \cup {None}
    BY DEF ObjectsOK, NextOK
<1>4. n \in Nat \cup {None} /\ k \in Nat
    BY <1>1, <1>3 DEF PartKeys
<1> HIDE DEF list
<1>5. /\ b \in Body /\ Len(b) = 4
      /\ b[1].what = "key" /\ b[1].val = k
      /\ b[2].val = At(list, k).x /\ b[3].val = At(list, k).y
      /\ b[4].what = "next" /\ b[4].val = n
    BY <1>1, PartitionerLayout
<1>6. b[2].val \in Positive /\ b[3].val \in Positive
    BY <1>2, <1>5 DEF Partitioner
<1> HIDE DEF b, n
<1>7. m.tag = tag /\ m.body = b /\ m \in [tag : Tags, body : Body]
    BY <1>5 DEF Tags
<1>8. MessageOK(m)
    <2> HIDE DEF m
    <2> QED BY <1>4, <1>5, <1>6, <1>7 DEF MessageOK
<1> QED BY <1>3, <1>5, <1>7, <1>8 DEF PartitionerMsg, b, list, n

\* data_created: the objects made before this one have been broadcast.
LEMMA DataCreatedKeeps ==
    ASSUME MQInv, NEW t \in Threads, todo[t] # <<>>, NEW s \in Sides, s = t[1],
           NEW k \in DataKeys(s),
           Head(todo[t]).call = "data_created", Head(todo[t]).args[1] = k,
           DataCreated(t, s, k)
    PROVE  MQInv'
<1>1. Typed /\ ObjectsOK /\ AllSent
    BY DEF MQInv
<1> DEFINE m == DatumMsg("DATA_CREATED", s, k)
           calls == <<>>
<1>2. /\ m \in [tag : Tags, body : Body] /\ MessageOK(m)
      /\ m.tag = "DATA_CREATED" /\ m.body[1].val = k
    BY <1>1, DatumMessage
<1>3. Publish(s, m) /\ Then(t, calls) /\ UNCHANGED <<all_data, part_list, mine, failed>>
    BY DEF DataCreated, Put, DatumMsg
<1>4. calls \in Seq(Calls) /\ \A i \in DOMAIN calls : calls[i] \in OKCalls(s)
    OBVIOUS
<1> HIDE DEF m, calls
<1>5. ASSUME t = ServerIo
      PROVE  /\ \A kind \in Kinds : \A j \in Named(kind, m) : Sent(kind, j)
             /\ \A kind \in Kinds : \A j \in Nat : Pending(kind, j) => Creates(kind, m, j)
    <2>1. \A kind \in Kinds : \A j : Pending(kind, j) <=> kind = "data" /\ j = k
        BY <1>5 DEF Pending, Callback, Kinds
    <2>2. ASSUME NEW kind \in Kinds, NEW j \in Named(kind, m) PROVE Sent(kind, j)
        <3>1. kind = "data" /\ j \in Nat /\ j < k
            BY <1>2 DEF Named, Creation, Kinds
        <3>2. s = "server" /\ k < Length(kind, "server") /\ Length(kind, "server") \in Nat
            <4>1. s = "server"
                BY <1>5, SideFacts
            <4>2. all_data["server"] \in Seq(Datum)
                BY <1>1, SideFacts DEF Typed
            <4> QED BY <3>1, <4>1, <4>2 DEF DataKeys, Length
        <3>4. k \in Int
            BY DEF DataKeys
        <3>3. j \in 0..(Length(kind, "server") - 1) /\ j # k
            BY <3>1, <3>2, <3>4
        <3> QED BY <1>1, <2>1, <3>3 DEF AllSent
    <2>3. \A kind \in Kinds : \A j \in Nat : Pending(kind, j) => Creates(kind, m, j)
        BY <1>2, <2>1 DEF Creates, Creation
    <2> QED BY <2>2, <2>3
<1> QED BY <1>2, <1>3, <1>4, <1>5, PutKeeps

\* partition_defined: likewise for the partitioners.
LEMMA PartitionDefinedKeeps ==
    ASSUME MQInv, NEW t \in Threads, todo[t] # <<>>, NEW s \in Sides, s = t[1],
           NEW k \in PartKeys(s),
           Head(todo[t]).call = "partition_defined", Head(todo[t]).args[1] = k,
           PartitionDefined(t, s, k)
    PROVE  MQInv'
<1>1. Typed /\ ObjectsOK /\ AllSent
    BY DEF MQInv
<1> DEFINE m == PartitionerMsg("PARTITION_CREATED", s, k)
           calls == <<>>
<1>2. /\ m \in [tag : Tags, body : Body] /\ MessageOK(m)
      /\ m.tag = "PARTITION_CREATED" /\ m.body[1].val = k
    BY <1>1, PartitionerMessage
<1>3. Publish(s, m) /\ Then(t, calls) /\ UNCHANGED <<all_data, part_list, mine, failed>>
    BY DEF PartitionDefined, Put, PartitionerMsg
<1>4. calls \in Seq(Calls) /\ \A i \in DOMAIN calls : calls[i] \in OKCalls(s)
    OBVIOUS
<1> HIDE DEF m, calls
<1>5. ASSUME t = ServerIo
      PROVE  /\ \A kind \in Kinds : \A j \in Named(kind, m) : Sent(kind, j)
             /\ \A kind \in Kinds : \A j \in Nat : Pending(kind, j) => Creates(kind, m, j)
    <2>1. \A kind \in Kinds : \A j : Pending(kind, j) <=> kind = "part" /\ j = k
        BY <1>5 DEF Pending, Callback, Kinds
    <2>2. ASSUME NEW kind \in Kinds, NEW j \in Named(kind, m) PROVE Sent(kind, j)
        <3>1. kind = "part" /\ j \in Nat /\ j < k
            BY <1>2 DEF Named, Creation, Kinds
        <3>2. s = "server" /\ k < Length(kind, "server") /\ Length(kind, "server") \in Nat
            <4>1. s = "server"
                BY <1>5, SideFacts
            <4>2. part_list["server"] \in Seq(Partitioner)
                BY <1>1, SideFacts DEF Typed
            <4> QED BY <3>1, <4>1, <4>2 DEF PartKeys, Length
        <3>4. k \in Int
            BY DEF PartKeys
        <3>3. j \in 0..(Length(kind, "server") - 1) /\ j # k
            BY <3>1, <3>2, <3>4
        <3> QED BY <1>1, <2>1, <3>3 DEF AllSent
    <2>3. \A kind \in Kinds : \A j \in Nat : Pending(kind, j) => Creates(kind, m, j)
        BY <1>2, <2>1 DEF Creates, Creation
    <2> QED BY <2>2, <2>3
<1> QED BY <1>2, <1>3, <1>4, <1>5, PutKeeps

\* All the server has made is on its way when it broadcasts something older.
LEMMA OlderAreSent ==
    ASSUME Typed, AllSent, todo[ServerIo] # <<>>,
           \A kind \in Kinds : Head(todo[ServerIo]).call # Callback(kind)
    PROVE  /\ \A k \in DataKeys("server") : Sent("data", k)
           /\ \A k \in PartKeys("server") : Sent("part", k)
           /\ \A kind \in Kinds : \A k \in Nat : ~Pending(kind, k)
<1>1. \A kind \in Kinds : \A k : ~Pending(kind, k)
    BY DEF Pending
<1>2. "data" \in Kinds /\ "part" \in Kinds
    BY DEF Kinds
<1>3. Length("data", "server") = Len(all_data["server"])
      /\ Length("part", "server") = Len(part_list["server"])
    BY DEF Length
<1> QED BY <1>1, <1>2, <1>3 DEF AllSent, DataKeys, PartKeys

\* partition_cascaded.
LEMMA PartitionCascadedKeeps ==
    ASSUME MQInv, NEW t \in Threads, todo[t] # <<>>, NEW s \in Sides, s = t[1],
           NEW p \in PartKeys(s),
           Head(todo[t]).call = "partition_cascaded",
           PartitionCascaded(t, s, p)
    PROVE  MQInv'
<1>1. Typed /\ ObjectsOK /\ AllSent
    BY DEF MQInv
<1> DEFINE m == PartitionerMsg("PARTITION_CASCADED", s, p)
           calls == <<>>
<1>2. /\ m \in [tag : Tags, body : Body] /\ MessageOK(m)
      /\ m.tag = "PARTITION_CASCADED" /\ m.body[1].val = p
      /\ m.body[4].val \in PartKeys(s) \cup {None}
    BY <1>1, PartitionerMessage
<1>3. Publish(s, m) /\ Then(t, calls) /\ UNCHANGED <<all_data, part_list, mine, failed>>
    BY DEF PartitionCascaded, Put, PartitionerMsg
<1>4. calls \in Seq(Calls) /\ \A i \in DOMAIN calls : calls[i] \in OKCalls(s)
    OBVIOUS
<1> HIDE DEF m, calls
<1>5. \A kind \in Kinds : Head(todo[t]).call # Callback(kind)
    BY DEF Callback
<1>6. ASSUME t = ServerIo
      PROVE  /\ \A kind \in Kinds : \A j \in Named(kind, m) : Sent(kind, j)
             /\ \A kind \in Kinds : \A j \in Nat : Pending(kind, j) => Creates(kind, m, j)
    <2>1. s = "server"
        BY <1>6, SideFacts
    <2>2. /\ \A k \in PartKeys("server") : Sent("part", k)
          /\ \A kind \in Kinds : \A k \in Nat : ~Pending(kind, k)
        BY <1>1, <1>5, <1>6, OlderAreSent
    <2>3. ASSUME NEW kind \in Kinds, NEW j \in Named(kind, m) PROVE Sent(kind, j)
        <3>1. kind = "part" /\ j \in Nat /\ j \in {p, m.body[4].val}
            BY <1>2 DEF Named, Creation, Kinds
        <3>2. j \in PartKeys("server")
            BY <1>2, <2>1, <3>1 DEF None
        <3> QED BY <2>2, <3>1, <3>2
    <2> QED BY <2>2, <2>3
<1>7. Head(todo[t]).call \notin {"data", "partitioner"}
    OBVIOUS
<1> QED BY <1>2, <1>3, <1>4, <1>6, <1>7, PutKeeps

\* data_partitioned, and the next partitioner for every child.
LEMMA DataPartitionedKeeps ==
    ASSUME MQInv, NEW t \in Threads, todo[t] # <<>>, NEW s \in Sides, s = t[1],
           NEW d \in DataKeys(s), At(all_data[s], d).partitioner \in PartKeys(s),
           Head(todo[t]).call = "data_partitioned",
           DataPartitioned(t, s, d)
    PROVE  MQInv'
<1>1. Typed /\ ObjectsOK /\ AllSent
    BY DEF MQInv
<1> DEFINE datum == At(all_data[s], d)
           p == datum.partitioner
           q == At(part_list[s], p).next
           m == DatumMsg("DATA_PARTITIONED", s, d)
           calls == IF q = None THEN <<>>
                    ELSE [i \in DOMAIN datum.children |->
                            Call("set_partition", <<datum.children[i], q>>)]
<1>2. /\ m \in [tag : Tags, body : Body] /\ MessageOK(m)
      /\ m.tag = "DATA_PARTITIONED" /\ m.body[1].val = d /\ m.body[8].val = p
    BY <1>1, DatumMessage
<1>3. Publish(s, m) /\ Then(t, calls) /\ UNCHANGED <<all_data, part_list, mine, failed>>
    BY DEF DataPartitioned, Put, DatumMsg
<1>4. calls \in Seq(Calls) /\ \A i \in DOMAIN calls : calls[i] \in OKCalls(s)
    <2>1. CASE q = None
        <3>1. calls = <<>>
            BY <2>1
        <3> HIDE DEF calls
        <3> QED BY <3>1
    <2>2. CASE q # None
        <3>1. q \in PartKeys(s) /\ q \in Int
            BY <1>1, <2>2 DEF ObjectsOK, NextOK, PartKeys
        <3>2. datum.children \in Seq(Int)
            <4>1. all_data[s] \in Seq(Datum) /\ d + 1 \in 1..Len(all_data[s])
                BY <1>1 DEF Typed, DataKeys
            <4>2. datum \in Datum
                BY <4>1 DEF At
            <4> HIDE DEF datum
            <4> QED BY <4>2 DEF Datum
        <3> DEFINE kids == datum.children
        <3>3. calls = [i \in DOMAIN kids |-> Call("set_partition", <<kids[i], q>>)]
            BY <2>2
        <3> HIDE DEF calls, kids, q
        <3>4. kids \in Seq(Int)
            BY <3>2 DEF kids
        <3>5. ASSUME NEW i \in DOMAIN kids
              PROVE  /\ Call("set_partition", <<kids[i], q>>) \in Calls
                     /\ Call("set_partition", <<kids[i], q>>) \in OKCalls(s)
            <4> DEFINE c == Call("set_partition", <<kids[i], q>>)
            <4>1. kids[i] \in Int
                BY <3>4
            <4>2. /\ c \in Calls /\ c.call = "set_partition"
                  /\ c.args[1] = kids[i] /\ c.args[2] = q
                BY <3>1, <4>1, Call2 DEF CallNames
            <4> HIDE DEF c
            <4>3. CallOK(s, c)
                BY <3>1, <4>1, <4>2 DEF CallOK
            <4>4. c \in Calls /\ c \in OKCalls(s)
                BY <4>2, <4>3 DEF OKCalls
            <4> QED BY <4>4 DEF c
        <3>6. calls \in Seq(Calls)
            <4>1. DOMAIN kids = 1..Len(kids) /\ Len(kids) \in Nat
                BY <3>4
            <4> QED BY <3>3, <3>5, <4>1
        <3> QED BY <3>3, <3>5, <3>6
    <2> QED BY <2>1, <2>2
<1> HIDE DEF m, calls, p
<1>5. \A kind \in Kinds : Head(todo[t]).call # Callback(kind)
    BY DEF Callback
<1>6. ASSUME t = ServerIo
      PROVE  /\ \A kind \in Kinds : \A j \in Named(kind, m) : Sent(kind, j)
             /\ \A kind \in Kinds : \A j \in Nat : Pending(kind, j) => Creates(kind, m, j)
    <2>1. s = "server"
        BY <1>6, SideFacts
    <2>2. /\ \A k \in DataKeys("server") : Sent("data", k)
          /\ \A k \in PartKeys("server") : Sent("part", k)
          /\ \A kind \in Kinds : \A k \in Nat : ~Pending(kind, k)
        BY <1>1, <1>5, <1>6, OlderAreSent
    <2>3. ASSUME NEW kind \in Kinds, NEW j \in Named(kind, m) PROVE Sent(kind, j)
        <3>1. \/ kind = "data" /\ j = d
              \/ kind = "part" /\ j = p
            BY <1>2 DEF Named, Creation, Kinds
        <3> QED BY <2>1, <2>2, <3>1 DEF p
    <2> QED BY <2>2, <2>3
<1>7. Head(todo[t]).call \notin {"data", "partitioner"}
    OBVIOUS
<1> QED BY <1>2, <1>3, <1>4, <1>6, <1>7, PutKeeps

\* The next call of a thread.
LEMMA StepKeeps ==
    ASSUME MQInv, NEW t \in Threads, Step(t)
    PROVE  MQInv'
<1> DEFINE s == t[1]
           c == Head(todo[t])
           a == c.args
<1>1. s \in Sides /\ s = t[1]
    BY SideFacts
<1>2. Typed /\ ObjectsOK /\ CallsOK /\ todo[t] # <<>>
    BY DEF MQInv, Step
<1>3. c \in Calls /\ CallOK(s, c)
    BY <1>1, <1>2, NextCall
<1>4. /\ \/ c.call = "data" /\ NewData(t, s, a[1], a[2], FALSE)
         \/ c.call = "child" /\ NewData(t, s, a[1], a[2], TRUE)
         \/ c.call = "data_created" /\ DataCreated(t, s, a[1])
         \/ c.call = "partitioner" /\ NewPartitioner(t, s, a[1], a[2], a[3])
         \/ c.call = "partition_defined" /\ PartitionDefined(t, s, a[1])
         \/ c.call = "assert_key" /\ AssertKey(t, s, a[1], a[2])
         \/ c.call = "set_next" /\ SetNext(t, s, a[1], a[2])
         \/ /\ c.call = "P.set_next"
            /\ a[1] \in DOMAIN mine.part /\ a[2] \in DOMAIN mine.part
            /\ SetNext(t, s, mine.part[a[1]], mine.part[a[2]])
         \/ c.call = "partition_cascaded" /\ PartitionCascaded(t, s, a[1])
         \/ c.call = "set_partition" /\ SetPartition(t, s, a[1], a[2])
         \/ /\ c.call = "A.set_partition"
            /\ a[1] \in DOMAIN mine.data /\ a[2] \in DOMAIN mine.part
            /\ SetPartition(t, s, mine.data[a[1]], mine.part[a[2]])
         \/ c.call = "data_partitioned" /\ DataPartitioned(t, s, a[1])
    BY Zenon DEF Step
<1> HIDE DEF s, c
<1>a. c = Head(todo[t])
    BY DEF c
<1>5. CASE c.call = "data" /\ NewData(t, s, a[1], a[2], FALSE)
    <2>1. a[1] \in Int /\ a[2] \in Int /\ (a[1] = None \/ a[1] \in DataKeys(s))
        BY <1>3, <1>5 DEF CallOK
    <2> QED BY <1>1, <1>2, <1>5, <1>a, <2>1, NewDataKeeps
<1>6. CASE c.call = "child" /\ NewData(t, s, a[1], a[2], TRUE)
    <2>1. a[1] \in Int /\ a[2] \in Int /\ a[1] \in DataKeys(s)
        BY <1>3, <1>6 DEF CallOK
    <2> QED BY <1>1, <1>2, <1>6, <1>a, <2>1, NewDataKeeps
<1>7. CASE c.call = "data_created" /\ DataCreated(t, s, a[1])
    <2>1. a[1] \in DataKeys(s)
        BY <1>3, <1>7 DEF CallOK
    <2> QED BY <1>1, <1>2, <1>7, <1>a, <2>1, DataCreatedKeeps
<1>8. CASE c.call = "partitioner" /\ NewPartitioner(t, s, a[1], a[2], a[3])
    <2>1. a[1] \in Positive /\ a[2] \in Positive /\ a[3] \in Int
        BY <1>3, <1>8 DEF CallOK
    <2> QED BY <1>1, <1>2, <1>8, <1>a, <2>1, NewPartitionerKeeps
<1>9. CASE c.call = "partition_defined" /\ PartitionDefined(t, s, a[1])
    <2>1. a[1] \in PartKeys(s)
        BY <1>3, <1>9 DEF CallOK
    <2> QED BY <1>1, <1>2, <1>9, <1>a, <2>1, PartitionDefinedKeeps
<1>10. CASE c.call = "assert_key" /\ AssertKey(t, s, a[1], a[2])
    <2>1. a[1] \in Int /\ a[2] \in Int
        BY <1>3, <1>10 DEF CallOK
    <2> QED BY <1>1, <1>2, <1>10, <1>a, <2>1, AssertKeyKeeps
<1>11. CASE c.call = "set_next" /\ SetNext(t, s, a[1], a[2])
    <2>1. a[1] \in PartKeys(s) /\ a[2] \in PartKeys(s) \cup {None}
        BY <1>3, <1>11 DEF CallOK
    <2> QED BY <1>1, <1>2, <1>11, <1>a, <2>1, SetNextKeeps
<1>12. CASE /\ c.call = "P.set_next"
            /\ a[1] \in DOMAIN mine.part /\ a[2] \in DOMAIN mine.part
            /\ SetNext(t, s, mine.part[a[1]], mine.part[a[2]])
    <2>1. s = "app"
        BY <1>3, <1>12 DEF CallOK
    <2>2. mine.part[a[1]] \in PartKeys(s) /\ mine.part[a[2]] \in PartKeys(s) \cup {None}
        BY <1>2, <1>12, <2>1 DEF ObjectsOK, MineOK
    <2> QED BY <1>1, <1>2, <1>12, <1>a, <2>2, SetNextKeeps
<1>13. CASE c.call = "partition_cascaded" /\ PartitionCascaded(t, s, a[1])
    <2>1. a[1] \in PartKeys(s)
        BY <1>3, <1>13 DEF CallOK
    <2> QED BY <1>1, <1>2, <1>13, <1>a, <2>1, PartitionCascadedKeeps
<1>14. CASE c.call = "set_partition" /\ SetPartition(t, s, a[1], a[2])
    <2>1. a[1] \in Int /\ a[2] \in PartKeys(s)
        BY <1>3, <1>14 DEF CallOK
    <2> QED BY <1>1, <1>2, <1>14, <1>a, <2>1, SetPartitionKeeps
<1>15. CASE /\ c.call = "A.set_partition"
            /\ a[1] \in DOMAIN mine.data /\ a[2] \in DOMAIN mine.part
            /\ SetPartition(t, s, mine.data[a[1]], mine.part[a[2]])
    <2>1. s = "app"
        BY <1>3, <1>15 DEF CallOK
    <2>2. mine.data[a[1]] \in Int /\ mine.part[a[2]] \in PartKeys(s)
        BY <1>2, <1>15, <2>1 DEF ObjectsOK, MineOK, DataKeys
    <2> QED BY <1>1, <1>2, <1>15, <1>a, <2>2, SetPartitionKeeps
<1>16. CASE c.call = "data_partitioned" /\ DataPartitioned(t, s, a[1])
    <2>1. a[1] \in DataKeys(s) /\ At(all_data[s], a[1]).partitioner \in PartKeys(s)
        BY <1>3, <1>16 DEF CallOK
    <2> QED BY <1>1, <1>2, <1>16, <1>a, <2>1, DataPartitionedKeeps
<1> QED BY <1>4, <1>5, <1>6, <1>7, <1>8, <1>9, <1>10, <1>11, <1>12, <1>13, <1>14, <1>15, <1>16

\* The keys of a list are those that are found in it.
LEMMA KnownKeys ==
    ASSUME NEW s \in Sides, NEW k \in Int
    PROVE  /\ Known(all_data[s], k) <=> k \in DataKeys(s)
           /\ Known(part_list[s], k) <=> k \in PartKeys(s)
BY DEF Known, DataKeys, PartKeys

\* What run_rpc calls for a message, unless it stops.
LEMMA CallsOfOK ==
    ASSUME Typed, NEW s \in Sides, NEW m \in [tag : Tags, body : Body],
           MessageOK(m), ~Stops(s, m)
    PROVE  /\ CallsOf(s, m) \in Seq(Calls)
           /\ \A i \in DOMAIN CallsOf(s, m) : CallsOf(s, m)[i] \in OKCalls(s)
           /\ \A kind \in Kinds : m.tag = Creation(kind)
                 => CallsOf(s, m) # <<>> /\ Head(CallsOf(s, m)).call = Constructor(kind)
<1> DEFINE b == m.body
           key == Paste(b, 0)
<1>1. key = b[1].val /\ \A i \in 0..9 : Paste(b, i) = b[i + 1].val
    BY DEF Paste
<1>2. m.tag \in Tags /\ b \in Seq(OneField)
    BY DEF Body
<1> HIDE DEF b, key
<1>3. \A i \in 1..Len(b) : b[i].val \in Int
    <2>1. \A i \in 1..Len(b) : b[i] \in OneField
        BY <1>2
    <2>2. \A f \in OneField : f.val \in Int
        BY DEF OneField
    <2> QED BY <2>1, <2>2
<1>4. ASSUME NEW c \in Calls, CallOK(s, c), CallsOf(s, m) = <<c>>
      PROVE  /\ CallsOf(s, m) \in Seq(Calls)
             /\ \A i \in DOMAIN CallsOf(s, m) : CallsOf(s, m)[i] \in OKCalls(s)
             /\ CallsOf(s, m) # <<>> /\ Head(CallsOf(s, m)) = c
    <2> DEFINE r == <<c>>
    <2>1. c \in OKCalls(s)
        BY <1>4 DEF OKCalls
    <2>2. r \in Seq(Calls) /\ r # <<>> /\ Head(r) = c /\ \A i \in DOMAIN r : r[i] = c
        OBVIOUS
    <2> HIDE DEF r
    <2> QED BY <1>4, <2>1, <2>2 DEF r
<1>5. CASE m.tag = "DATA_CREATED"
    <2>1. b[7].val \in Int /\ b[4].val \in Int
        BY <1>2, <1>3, <1>5 DEF MessageOK, b
    <2> DEFINE c == Call("data", <<b[7].val, b[4].val>>)
    <2>2. CallsOf(s, m) = <<c>>
        BY <1>1, <1>5 DEF CallsOf, ParentAt, b
    <2>3. /\ c \in Calls /\ c.call = "data"
          /\ c.args[1] = b[7].val /\ c.args[2] = b[4].val
        BY <2>1, Call2 DEF CallNames
    <2>4. b[7].val = None \/ Known(all_data[s], b[7].val)
        BY <1>1, <1>5 DEF Stops, Resolves, ParentAt, b
    <2> HIDE DEF c
    <2>5. CallOK(s, c)
        BY <2>1, <2>3, <2>4, KnownKeys DEF CallOK
    <2> QED BY <1>4, <1>5, <2>2, <2>3, <2>5 DEF Kinds, Creation, Constructor
<1>6. CASE m.tag = "PARTITION_CREATED"
    <2>1. b[2].val \in Positive /\ b[3].val \in Positive /\ b[1].val \in Int
        BY <1>6 DEF MessageOK, b
    <2> DEFINE c == Call("partitioner", <<b[2].val, b[3].val, b[1].val>>)
    <2>2. CallsOf(s, m) = <<c>>
        BY <1>1, <1>6 DEF CallsOf, b, key
    <2>3. /\ c \in Calls /\ c.call = "partitioner"
          /\ c.args[1] = b[2].val /\ c.args[2] = b[3].val /\ c.args[3] = b[1].val
        <3>1. b[1].val \in Int /\ b[2].val \in Int /\ b[3].val \in Int
            BY <2>1 DEF Positive
        <3>2. "partitioner" \in CallNames
            BY DEF CallNames
        <3> QED BY <3>1, <3>2 DEF Call, Calls
    <2> HIDE DEF c
    <2>4. CallOK(s, c)
        BY <2>1, <2>3 DEF CallOK
    <2> QED BY <1>4, <1>6, <2>2, <2>3, <2>4 DEF Kinds, Creation, Constructor
<1>7. CASE m.tag = "PARTITION_CASCADED"
    <2>1. b[1].val \in Int /\ b[4].val \in Int
        BY <1>2, <1>3, <1>7 DEF MessageOK, b
    <2> DEFINE q == Found(part_list[s], b[4].val)
               c == Call("set_next", <<b[1].val, q>>)
    <2>2. CallsOf(s, m) = <<c>>
        BY <1>1, <1>7 DEF CallsOf, NextAt, b, key
    <2>3. q \in PartKeys(s) \cup {None} /\ q \in Int
        BY <2>1, KnownKeys DEF Found, None
    <2> HIDE DEF q
    <2>4. /\ c \in Calls /\ c.call = "set_next"
          /\ c.args[1] = b[1].val /\ c.args[2] = q
        BY <2>1, <2>3, Call2 DEF CallNames
    <2>5. b[1].val \in PartKeys(s)
        BY <1>1, <1>7, <2>1, KnownKeys DEF Stops, b, key
    <2> HIDE DEF c
    <2>6. CallOK(s, c)
        BY <2>3, <2>4, <2>5 DEF CallOK
    <2> QED BY <1>4, <1>7, <2>2, <2>4, <2>6 DEF Kinds, Creation
<1>8. CASE m.tag = "DATA_PARTITIONED"
    <2>1. b[1].val \in Int /\ b[8].val \in Int
        BY <1>2, <1>3, <1>8 DEF MessageOK, b
    <2> DEFINE p == Found(part_list[s], b[8].val)
               c == Call("set_partition", <<b[1].val, p>>)
    <2>2. CallsOf(s, m) = IF At(all_data[s], b[1].val).partitioner = p THEN <<>> ELSE <<c>>
        BY <1>1, <1>8 DEF CallsOf, PartitionerAt, b, key
    <2>3. p \in Int /\ (Known(part_list[s], b[8].val) => p \in PartKeys(s))
          /\ (~Known(part_list[s], b[8].val) => p = None)
        BY <2>1, KnownKeys DEF Found, None
    <2>4. \/ Known(part_list[s], b[8].val)
          \/ At(all_data[s], b[1].val).partitioner = None
        BY <1>1, <1>8 DEF Stops, PartitionerAt, b, key
    <2> HIDE DEF p
    <2>5. /\ c \in Calls /\ c.call = "set_partition"
          /\ c.args[1] = b[1].val /\ c.args[2] = p
        BY <2>1, <2>3, Call2 DEF CallNames
    <2> HIDE DEF c
    <2>6. CASE At(all_data[s], b[1].val).partitioner = p
        <3>1. CallsOf(s, m) = <<>>
            BY <2>2, <2>6
        <3> QED BY <1>8, <3>1 DEF Kinds, Creation
    <2>7. CASE At(all_data[s], b[1].val).partitioner # p
        <3>1. CallsOf(s, m) = <<c>> /\ p \in PartKeys(s)
            BY <2>2, <2>3, <2>4, <2>7
        <3>2. CallOK(s, c)
            BY <2>1, <2>3, <2>5, <3>1 DEF CallOK
        <3> QED BY <1>4, <1>8, <2>5, <3>1, <3>2 DEF Kinds, Creation
    <2> QED BY <2>6, <2>7
<1> QED BY <1>2, <1>5, <1>6, <1>7, <1>8 DEF Tags

\* What the order of its messages means for the application: it has what the
\* one it comes to names.
LEMMA FirstResolves ==
    ASSUME Typed, MessagesOK, InOrder, todo[AppIo] = <<>>, queue["app"] # <<>>
    PROVE  /\ Head(queue["app"]) \in [tag : Tags, body : Body]
           /\ MessageOK(Head(queue["app"]))
           /\ \A k \in Named("data", Head(queue["app"])) : k \in DataKeys("app")
           /\ \A k \in Named("part", Head(queue["app"])) : k \in PartKeys("app")
<1> DEFINE m == Head(queue["app"])
<1>1. /\ queue["app"] \in Seq([tag : Tags, body : Body])
      /\ 1 \in DOMAIN queue["app"] /\ m = queue["app"][1]
      /\ \A i \in DOMAIN queue["app"] : i \in Nat /\ i >= 1
    BY SideFacts DEF Typed
<1> HIDE DEF m
<1>2. m \in [tag : Tags, body : Body] /\ MessageOK(m)
    <2>1. "app" \in Sides
        BY SideFacts
    <2> DEFINE S == [tag : Tags, body : Body]
    <2>3. queue["app"] \in Seq(S)
        BY <1>1
    <2> HIDE DEF S
    <2>4. m \in S
        BY <1>1, <2>3
    <2>5. m \in [tag : Tags, body : Body]
        BY <2>4 DEF S
    <2> QED BY <1>1, <2>1, <2>5 DEF MessagesOK
<1>3. \A kind \in Kinds : \A k \in Named(kind, m) : k \in Nat /\ k < Bound(kind)
    <2> SUFFICES ASSUME NEW kind \in Kinds, NEW k \in Named(kind, m)
                 PROVE  k \in Nat /\ k < Bound(kind)
        OBVIOUS
    <2>1. Reaches(kind, 1, k)
        BY <1>1 DEF InOrder
    <2> QED BY <1>1, <2>1 DEF Reaches, Named
<1>4. \A kind \in Kinds : Bound(kind) = Length(kind, "app") + 0
    BY DEF Bound, Coming
<1>5. /\ Length("data", "app") = Len(all_data["app"]) /\ Len(all_data["app"]) \in Nat
      /\ Length("part", "app") = Len(part_list["app"]) /\ Len(part_list["app"]) \in Nat
      /\ "data" \in Kinds /\ "part" \in Kinds
    BY SideFacts DEF Typed, Length, Kinds
<1>6. \A k \in Named("data", m) : k \in DataKeys("app")
    BY <1>3, <1>4, <1>5 DEF DataKeys
<1>7. \A k \in Named("part", m) : k \in PartKeys("app")
    BY <1>3, <1>4, <1>5 DEF PartKeys
<1> QED BY <1>2, <1>6, <1>7 DEF m

\* The application has every object the message it comes to names.
LEMMA AppResolves == ASSUME Typed, MessagesOK, InOrder PROVE KeysResolveAt("app")
<1> SUFFICES ASSUME queue["app"] # <<>>, todo[AppIo] = <<>>
             PROVE  Resolves("app", Head(queue["app"]))
    BY DEF KeysResolveAt, AppIo
<1> DEFINE m == Head(queue["app"])
           b == m.body
           key == Paste(b, 0)
<1>1. /\ m \in [tag : Tags, body : Body] /\ MessageOK(m)
      /\ \A k \in Named("data", m) : k \in DataKeys("app")
      /\ \A k \in Named("part", m) : k \in PartKeys("app")
    BY FirstResolves
<1> HIDE DEF m
<1>2. m.tag \in Tags
    BY <1>1
<1>3. key = b[1].val /\ \A i \in 0..9 : Paste(b, i) = b[i + 1].val
    BY DEF Paste
<1> HIDE DEF b, key
<1>4. ASSUME m.tag = "DATA_CREATED" PROVE Resolves("app", m)
    <2>1. b[1].val \in Nat /\ b[7].val \in -1..(b[1].val - 1)
        BY <1>1, <1>4 DEF MessageOK, b
    <2>2. b[7].val = None \/ b[7].val \in Named("data", m)
        <3>1. CASE b[7].val = -1
            BY <3>1 DEF None
        <3>2. CASE b[7].val # -1
            <4>1. b[7].val \in Nat /\ b[7].val < b[1].val
                BY <2>1, <3>2
            <4> QED BY <1>4, <4>1 DEF Named, Creation, b
        <3> QED BY <3>1, <3>2
    <2>3. b[7].val = None \/ Known(all_data["app"], b[7].val)
        BY <1>1, <2>1, <2>2, KnownKeys, SideFacts
    <2> QED BY <1>3, <1>4, <2>3 DEF Resolves, ParentAt, b
<1>5. ASSUME m.tag = "PARTITION_CREATED" PROVE Resolves("app", m)
    BY <1>5 DEF Resolves
<1>6. ASSUME m.tag = "PARTITION_CASCADED" PROVE Resolves("app", m)
    <2>1. b[1].val \in Nat /\ b[4].val \in Nat \cup {None}
        BY <1>1, <1>6 DEF MessageOK, b
    <2>2. /\ b[1].val \in Named("part", m)
          /\ b[4].val = None \/ b[4].val \in Named("part", m)
        BY <1>6, <2>1 DEF Named, b
    <2>3. b[1].val \in PartKeys("app") /\ (b[4].val = None \/ b[4].val \in PartKeys("app"))
        BY <1>1, <2>2
    <2>4. /\ Known(part_list["app"], b[1].val)
          /\ b[4].val = None \/ Known(part_list["app"], b[4].val)
        BY <2>1, <2>3, KnownKeys, SideFacts
    <2> QED BY <1>3, <1>6, <2>4 DEF Resolves, NextAt, b, key
<1>7. ASSUME m.tag = "DATA_PARTITIONED" PROVE Resolves("app", m)
    <2>1. b[1].val \in Nat /\ b[8].val \in Nat
        BY <1>1, <1>7 DEF MessageOK, b
    <2>2. b[1].val \in Named("data", m) /\ b[8].val \in Named("part", m)
        BY <1>7, <2>1 DEF Named, b
    <2>3. b[1].val \in DataKeys("app") /\ b[8].val \in PartKeys("app")
        BY <1>1, <2>2
    <2>4. Known(all_data["app"], b[1].val) /\ Known(part_list["app"], b[8].val)
        BY <2>1, <2>3, KnownKeys, SideFacts
    <2> QED BY <1>3, <1>7, <2>4 DEF Resolves, PartitionerAt, b, key
<1> QED BY <1>2, <1>4, <1>5, <1>6, <1>7 DEF Tags, m

\* A message is taken from its queue.
LEMMA ReceiveKeeps ==
    ASSUME MQInv, NEW s \in Sides, Receive(s)
    PROVE  MQInv'
<1>1. Typed /\ ObjectsOK /\ CallsOK /\ MessagesOK /\ InOrder /\ AllSent
    BY DEF MQInv
<1>2. PICK t \in Threads : t = <<s, "io">>
    BY DEF Threads, Sides
<1> DEFINE S == [tag : Tags, body : Body]
           m == Head(queue[s])
           calls == CallsOf(s, m)
<1>3. /\ s \notin failed /\ todo[t] = <<>> /\ queue[s] # <<>>
      /\ queue' = [queue EXCEPT ![s] = Tail(queue[s])]
      /\ UNCHANGED <<all_data, part_list, mine>>
      /\ \/ Stops(s, m) /\ failed' = failed \cup {s} /\ todo' = todo
         \/ ~Stops(s, m) /\ todo' = [todo EXCEPT ![t] = calls] /\ failed' = failed
    BY <1>2 DEF Receive
<1>4. queue \in [Sides -> Seq(S)] /\ queue[s] \in Seq(S)
    BY <1>1 DEF Typed
<1> HIDE DEF S
<1>5. /\ Tail(queue[s]) \in Seq(S)
      /\ m \in S /\ m = queue[s][1] /\ 1 \in DOMAIN queue[s]
      /\ \A i \in DOMAIN Tail(queue[s]) :
            i + 1 \in DOMAIN queue[s] /\ Tail(queue[s])[i] = queue[s][i + 1]
    BY <1>3, <1>4, HeadTailProperties
<1>6. MessageOK(m)
    BY <1>1, <1>5 DEF MessagesOK
<1> HIDE DEF m
<1>7. ~Stops(s, m) =>
          /\ calls \in Seq(Calls) /\ \A i \in DOMAIN calls : calls[i] \in OKCalls(s)
          /\ \A kind \in Kinds : m.tag = Creation(kind)
                => calls # <<>> /\ Head(calls).call = Constructor(kind)
    BY <1>1, <1>5, <1>6, CallsOfOK DEF S
<1> HIDE DEF calls
<1>8. /\ todo \in [Threads -> Seq(Calls)] /\ t[1] = s
      /\ \A u \in Threads : u[1] \in Sides
    BY <1>1, <1>2, SideFacts DEF Typed
<1>9. /\ todo' \in [Threads -> Seq(Calls)]
      /\ \A u \in Threads \ {t} : todo'[u] = todo[u]
      /\ todo'[t] = todo[t] \/ (~Stops(s, m) /\ todo'[t] = calls)
      /\ ~Stops(s, m) => todo'[t] = calls
    BY <1>3, <1>7, <1>8
<1>10. /\ queue' \in [Sides -> Seq(S)] /\ queue'[s] = Tail(queue[s])
       /\ \A u \in Sides \ {s} : queue'[u] = queue[u]
    BY <1>3, <1>4, <1>5
<1>11. Typed'
    BY <1>1, <1>3, <1>9, <1>10 DEF Typed, S
<1>12. ObjectsOK'
    BY <1>1, <1>3 DEF ObjectsOK, DataOK, NextOK, MineOK, DatumOK, DataKeys, PartKeys
<1>13. \A u \in Sides : OKCalls(u)' = OKCalls(u)
    BY <1>3 DEF OKCalls, CallOK, DataKeys, PartKeys
<1>14. CallsOK'
    <2>1. ASSUME NEW u \in Threads, NEW i \in DOMAIN todo'[u]
          PROVE  todo'[u][i] \in OKCalls(u[1])
        <3>1. CASE todo'[u] = todo[u]
            BY <1>1, <2>1, <3>1 DEF CallsOK
        <3>2. CASE u = t /\ ~Stops(s, m) /\ todo'[t] = calls
            BY <1>7, <1>8, <2>1, <3>2
        <3> QED BY <1>9, <3>1, <3>2
    <2> QED BY <1>8, <1>13, <2>1 DEF CallsOK
<1>15. MessagesOK'
    <2>1. ASSUME NEW u \in Sides, NEW i \in DOMAIN queue'[u] PROVE MessageOK(queue'[u][i])
        <3>1. CASE u = s
            <4>1. i + 1 \in DOMAIN queue[s] /\ queue'[u][i] = queue[s][i + 1]
                BY <1>5, <1>10, <2>1, <3>1
            <4> QED BY <1>1, <4>1 DEF MessagesOK
        <3>2. CASE u # s
            BY <1>1, <1>10, <2>1, <3>2 DEF MessagesOK
        <3> QED BY <3>1, <3>2
    <2> QED BY <2>1 DEF MessagesOK
<1>16. /\ OrderTyped /\ OrderTyped'
       /\ \A kind \in Kinds : Length(kind, "server") \in Nat /\ Length(kind, "app") \in Nat
       /\ \A kind \in Kinds : /\ Length(kind, "server")' = Length(kind, "server")
                              /\ Length(kind, "app")' = Length(kind, "app")
    <2>1. OrderTyped'
        BY <1>11, <1>15, OrderTypes, PTL
    <2>2. \A kind \in Kinds : /\ Length(kind, "server")' = Length(kind, "server")
                              /\ Length(kind, "app")' = Length(kind, "app")
        BY <1>3 DEF Length
    <2> QED BY <1>1, <2>1, <2>2, OrderTypes, Lengths, SideFacts
<1>17. CASE s = "server"
    <2>1. t = ServerIo
        BY <1>2, <1>17 DEF ServerIo
    <2>2. UNCHANGED <<queue["app"], all_data["app"], part_list["app"], todo[AppIo]>>
        BY <1>3, <1>9, <1>10, <1>17, <2>1, SideFacts
    <2>3. \A kind \in Kinds : \A k \in Nat : ~Pending(kind, k)
        BY <1>3, <2>1 DEF Pending
    <2>4. InOrder' /\ AllSent'
        BY <1>1, <1>16, <2>2, <2>3, ServerStepOrder
    <2> QED BY <1>11, <1>12, <1>14, <1>15, <2>4 DEF MQInv
<1>18. CASE s = "app"
    <2>1. t = AppIo
        BY <1>2, <1>18 DEF AppIo
    <2>2. queue["app"] # <<>> /\ queue'["app"] = Tail(queue["app"]) /\ m = Head(queue["app"])
        BY <1>3, <1>10, <1>18 DEF m
    <2>3. \A kind \in Kinds : Bound(kind) = Length(kind, "app")
        BY <1>3, <1>16, <2>1 DEF Bound, Coming
    <2>4. ASSUME NEW kind \in Kinds PROVE Bound(kind) <= Bound(kind)'
        <3>1. ~Coming(kind)
            BY <1>3, <2>1 DEF Coming
        <3> QED BY <1>16, <3>1, BoundGrows
    <2>5. ASSUME NEW kind \in Kinds, Head(queue["app"]).tag = Creation(kind)
          PROVE  Bound(kind)' = Bound(kind) + 1
        <3>1. Resolves("app", m)
            BY <1>1, <1>3, <2>1, <2>2, AppResolves DEF KeysResolveAt, AppIo
        <3>2. ~Stops(s, m)
            <4>1. m.tag = "DATA_CREATED" \/ m.tag = "PARTITION_CREATED"
                BY <2>2, <2>5 DEF Creation
            <4> QED BY <1>18, <3>1, <4>1 DEF Stops
        <3>3. todo'[AppIo] # <<>> /\ Head(todo'[AppIo]).call = Constructor(kind)
            BY <1>7, <1>9, <2>1, <2>2, <2>5, <3>2
        <3>4. Coming(kind)'
            BY <3>3 DEF Coming
        <3>5. Bound(kind)' = Length(kind, "app")' + 1
            BY <3>4 DEF Bound
        <3> QED BY <1>16, <2>3, <3>5
    <2>6. /\ InOrder'
          /\ \A kind \in Kinds : \A k \in Nat : Sent(kind, k) => Sent(kind, k)'
        BY <1>1, <1>16, <2>2, <2>4, <2>5, MessageTaken
    <2>7. todo'[ServerIo] = todo[ServerIo]
        BY <1>9, <2>1, SideFacts
    <2>8. AllSent'
        <3>1. ASSUME NEW kind \in Kinds, NEW k \in 0..(Length(kind, "server") - 1)
              PROVE  Sent(kind, k)' \/ Pending(kind, k)'
            <4>1. k \in Nat
                BY <3>1
            <4>2. CASE Sent(kind, k)
                BY <2>6, <4>1, <4>2
            <4>3. CASE Pending(kind, k)
                BY <2>7, <4>3 DEF Pending
            <4> QED BY <1>1, <4>2, <4>3 DEF AllSent
        <3> QED BY <1>16, <3>1 DEF AllSent
    <2> QED BY <1>11, <1>12, <1>14, <1>15, <2>6, <2>8 DEF MQInv
<1> QED BY <1>17, <1>18, SideFacts
-------------------------------------------------------------------------------
(* The theorems *)

\* The program starts with its own calls and nothing else.
LEMMA InitOK == Init => MQInv
<1> SUFFICES ASSUME Init PROVE MQInv
    OBVIOUS
<1>1. \A s \in Sides : all_data[s] = <<>> /\ part_list[s] = <<>> /\ queue[s] = <<>>
    BY DEF Init
<1>2. mine.data = <<>> /\ mine.part = <<>> /\ mine \in [data : Seq(Int), part : Seq(Int)]
    BY DEF Init
<1>3. \A c \in ProgramCalls : c \in Calls /\ CallOK("app", c)
    <2>1. ASSUME NEW a \in {None} \X {0}
          PROVE  /\ [call |-> "data", args |-> a] \in Calls
                 /\ CallOK("app", [call |-> "data", args |-> a])
        <3>1. a = <<None, 0>>
            OBVIOUS
        <3> DEFINE c == Call("data", <<None, 0>>)
        <3>2. /\ c \in Calls /\ c.call = "data"
              /\ c.args[1] = None /\ c.args[2] = 0 /\ None \in Int
            BY Call2 DEF CallNames, None
        <3>3. [call |-> "data", args |-> a] = c
            BY <3>1 DEF Call
        <3> HIDE DEF c
        <3>4. CallOK("app", c)
            BY <3>2 DEF CallOK
        <3> QED BY <3>2, <3>3, <3>4
    <2>2. ASSUME NEW a \in Positive \X Positive \X {None}
          PROVE  /\ [call |-> "partitioner", args |-> a] \in Calls
                 /\ CallOK("app", [call |-> "partitioner", args |-> a])
        <3>1. a \in Seq(Int) /\ a[1] \in Positive /\ a[2] \in Positive /\ a[3] \in Int
            <4>1. PICK y \in Positive, x \in Positive : a = <<y, x, None>>
                OBVIOUS
            <4> QED BY <4>1 DEF Positive, None
        <3> QED BY <3>1 DEF Calls, CallNames, CallOK
    <2>3. ASSUME NEW f \in {"P.set_next", "A.set_partition"}, NEW a \in Positive \X Positive
          PROVE  /\ [call |-> f, args |-> a] \in Calls
                 /\ CallOK("app", [call |-> f, args |-> a])
        <3>1. a \in Seq(Int)
            <4>1. PICK y \in Positive, x \in Positive : a = <<y, x>>
                OBVIOUS
            <4> QED BY <4>1 DEF Positive
        <3> QED BY <3>1 DEF Calls, CallNames, CallOK
    <2> QED BY <2>1, <2>2, <2>3 DEF ProgramCalls
<1>4. Program \in Seq(Calls) /\ \A i \in DOMAIN Program : Program[i] \in OKCalls("app")
    <2>1. Program \in Seq(ProgramCalls)
        BY ProgramAssumption
    <2>2. \A i \in DOMAIN Program : Program[i] \in ProgramCalls
        BY <2>1
    <2>3. \A i \in DOMAIN Program : Program[i] \in Calls /\ CallOK("app", Program[i])
        BY <1>3, <2>2, Zenon
    <2>4. Program \in Seq(Calls)
        BY <2>1, <2>3
    <2> QED BY <2>3, <2>4 DEF OKCalls
<1>5. \A t \in Threads : todo[t] = IF t = Main THEN Program ELSE <<>>
    BY DEF Init
<1>6. Typed
    <2>1. todo \in [Threads -> Seq(Calls)]
        BY <1>4 DEF Init
    <2>2. failed \subseteq Sides
        BY DEF Init
    <2>3. /\ all_data \in [Sides -> Seq(Datum)] /\ part_list \in [Sides -> Seq(Partitioner)]
          /\ queue \in [Sides -> Seq([tag : Tags, body : Body])]
        BY DEF Init
    <2> QED BY <1>2, <2>1, <2>2, <2>3 DEF Typed
<1>7. ObjectsOK
    BY <1>1, <1>2 DEF ObjectsOK, DataOK, NextOK, MineOK, DataKeys, PartKeys
<1>8. CallsOK
    <2>1. ASSUME NEW t \in Threads, NEW i \in DOMAIN todo[t]
          PROVE  todo[t][i] \in OKCalls(t[1])
        <3>1. t = Main /\ todo[t] = Program
            <4>1. t # Main => todo[t] = <<>>
                BY <1>5
            <4> QED BY <1>5, <2>1, <4>1
        <3> QED BY <1>4, <2>1, <3>1, SideFacts
    <2> QED BY <2>1 DEF CallsOK
<1>9. MessagesOK
    BY <1>1 DEF MessagesOK
<1>10. InOrder
    BY <1>1, SideFacts DEF InOrder
<1>11. AllSent
    BY <1>1, SideFacts DEF AllSent, Length
<1> QED BY <1>6, <1>7, <1>8, <1>9, <1>10, <1>11 DEF MQInv

\* The invariant holds in every state.
THEOREM MQInductive == Spec => []MQInv
<1>1. MQInv /\ [Next]_vars => MQInv'
    <2> SUFFICES ASSUME MQInv, [Next]_vars PROVE MQInv'
        OBVIOUS
    <2>1. CASE \E t \in Threads : Step(t)
        BY <2>1, StepKeeps
    <2>2. CASE \E s \in Sides : Receive(s)
        BY <2>2, ReceiveKeeps
    <2>3. CASE UNCHANGED vars
        <3>1. failed' \subseteq Sides
            BY <2>3 DEF vars, MQInv, Typed
        <3> QED BY <2>3, <3>1, StopKeeps DEF vars
    <2> QED BY <2>1, <2>2, <2>3 DEF Next
<1> QED BY <1>1, InitOK, PTL DEF Spec

\* Whatever the program, run_rpc never takes for a key what was written as
\* something else: CreateData and the handlers read each field at its place
\* although a datum that is cut is written with three fields more.
THEOREM FieldsCorrect == Spec => []ReadsItsFields
<1>1. MQInv => ReadsItsFields
    <2> SUFFICES ASSUME MQInv, NEW s \in Sides, NEW i \in DOMAIN queue[s],
                        NEW f \in Reads(queue[s][i].tag)
                 PROVE  queue[s][i].body[f[1] + 1].what = f[2]
        BY DEF ReadsItsFields
    <2> DEFINE m == queue[s][i]
    <2>1. MessageOK(m)
        BY DEF MQInv, MessagesOK
    <2>2. m.tag \in Tags
        <3> DEFINE S == [tag : Tags, body : Body]
        <3>1. queue[s] \in Seq(S)
            BY DEF MQInv, Typed
        <3> HIDE DEF S
        <3>2. m \in S
            BY <3>1
        <3> HIDE DEF m
        <3> QED BY <3>2 DEF S
    <2>3. f \in Reads(m.tag)
        OBVIOUS
    <2> HIDE DEF m
    <2>4. ASSUME m.tag = "DATA_CREATED" PROVE m.body[f[1] + 1].what = f[2]
        <3>1. f = <<0, "key">> \/ f = <<3, "child_idx">> \/ f = <<ParentAt, "parent">>
            BY <2>3, <2>4 DEF Reads
        <3>2. CASE f = <<0, "key">>
            <4>1. f[1] + 1 = 1 /\ f[2] = "key"
                BY <3>2
            <4>2. m.body[1].what = "key"
                BY <2>1, <2>4 DEF MessageOK
            <4> QED BY <4>1, <4>2
        <3>3. CASE f = <<3, "child_idx">>
            <4>1. f[1] + 1 = 4 /\ f[2] = "child_idx"
                BY <3>3
            <4>2. m.body[4].what = "child_idx"
                BY <2>1, <2>4 DEF MessageOK
            <4> QED BY <4>1, <4>2
        <3>4. CASE f = <<ParentAt, "parent">>
            <4>1. f[1] + 1 = 7 /\ f[2] = "parent"
                BY <3>4 DEF ParentAt
            <4>2. m.body[7].what = "parent"
                BY <2>1, <2>4 DEF MessageOK
            <4> QED BY <4>1, <4>2
        <3> QED BY <3>1, <3>2, <3>3, <3>4
    <2>5. ASSUME m.tag = "PARTITION_CREATED" PROVE m.body[f[1] + 1].what = f[2]
        <3>1. f = <<0, "key">>
            BY <2>3, <2>5 DEF Reads
        <3>2. CASE f = <<0, "key">>
            <4>1. f[1] + 1 = 1 /\ f[2] = "key"
                BY <3>2
            <4>2. m.body[1].what = "key"
                BY <2>1, <2>5 DEF MessageOK
            <4> QED BY <4>1, <4>2
        <3> QED BY <3>1, <3>2
    <2>6. ASSUME m.tag = "PARTITION_CASCADED" PROVE m.body[f[1] + 1].what = f[2]
        <3>1. f = <<0, "key">> \/ f = <<NextAt, "next">>
            BY <2>3, <2>6 DEF Reads
        <3>2. CASE f = <<0, "key">>
            <4>1. f[1] + 1 = 1 /\ f[2] = "key"
                BY <3>2
            <4>2. m.body[1].what = "key"
                BY <2>1, <2>6 DEF MessageOK
            <4> QED BY <4>1, <4>2
        <3>3. CASE f = <<NextAt, "next">>
            <4>1. f[1] + 1 = 4 /\ f[2] = "next"
                BY <3>3 DEF NextAt
            <4>2. m.body[4].what = "next"
                BY <2>1, <2>6 DEF MessageOK
            <4> QED BY <4>1, <4>2
        <3> QED BY <3>1, <3>2, <3>3
    <2>7. ASSUME m.tag = "DATA_PARTITIONED" PROVE m.body[f[1] + 1].what = f[2]
        <3>1. f = <<0, "key">> \/ f = <<PartitionerAt, "partitioner">>
            BY <2>3, <2>7 DEF Reads
        <3>2. CASE f = <<0, "key">>
            <4>1. f[1] + 1 = 1 /\ f[2] = "key"
                BY <3>2
            <4>2. m.body[1].what = "key"
                BY <2>1, <2>7 DEF MessageOK
            <4> QED BY <4>1, <4>2
        <3>3. CASE f = <<PartitionerAt, "partitioner">>
            <4>1. f[1] + 1 = 8 /\ f[2] = "partitioner"
                BY <3>3 DEF PartitionerAt
            <4>2. m.body[8].what = "partitioner"
                BY <2>1, <2>7 DEF MessageOK
            <4> QED BY <4>1, <4>2
        <3> QED BY <3>1, <3>2, <3>3
    <2>8. m.body[f[1] + 1].what = f[2]
        BY <2>2, <2>4, <2>5, <2>6, <2>7 DEF Tags
    <2> QED BY <2>8 DEF m
<1> QED BY <1>1, MQInductive, PTL

\* Whatever the program, the application has every object a message of the
\* server names, although it applies the message long after it was put: the
\* single thread of the server broadcasts an object before it makes the next.
THEOREM AppKeysCorrect == Spec => []KeysResolveAt("app")
<1>1. MQInv => KeysResolveAt("app")
    BY AppResolves DEF MQInv
<1> QED BY <1>1, MQInductive, PTL
-------------------------------------------------------------------------------
(* What the server has when it comes to a message *)

OneIf(b) == IF b THEN 1 ELSE 0
HeadIs(t, names) == todo[t] # <<>> /\ Head(todo[t]).call \in names
HasCall(t, name) == \E i \in DOMAIN todo[t] : todo[t][i].call = name

ToServer == queue["server"]
OnWay == Len(ToServer)

\* The server has cut a datum, is about to, or will when it is told to by one of
\* the first n messages.
Cut == \E d \in DataKeys("server") : At(all_data["server"], d).partitioner # None
CutsBy(n) ==
    \/ HasCall(ServerIo, "set_partition")
    \/ \E j \in DOMAIN ToServer : j <= n /\ ToServer[j].tag = "DATA_PARTITIONED"
EverCut == Cut \/ CutsBy(OnWay)

CreatedIn(q, n) == Cardinality({j \in 1..n : q[j].tag = "DATA_CREATED"})

\* The server has at least so many data when it has taken n messages: it makes one
\* for each that is created, and one more at least when it first cuts one.
ServerHas(n) ==
    Len(all_data["server"]) + OneIf(HeadIs(ServerIo, {"data", "child"}))
    + OneIf(~Cut /\ CutsBy(n)) + CreatedIn(ToServer, n)

\* The data the application has made and not broadcast, one for each thread.
Unsent == OneIf(HeadIs(Main, {"data_created"})) + OneIf(HeadIs(AppIo, {"data_created"}))

Counted == Len(all_data["app"]) - Unsent + OneIf(EverCut) <= ServerHas(OnWay)

\* The datum a message names.
DatumOf(m) ==
    IF m.tag = "DATA_CREATED" THEN m.body[7].val
    ELSE IF m.tag = "DATA_PARTITIONED" THEN m.body[1].val ELSE None

DataKnown == \A i \in DOMAIN ToServer : DatumOf(ToServer[i]) < ServerHas(i - 1)

\* The server will stop at the assertion of CreatePartition.
Doomed ==
    \E i \in DOMAIN todo[ServerIo] :
        /\ todo[ServerIo][i].call = "assert_key"
        /\ todo[ServerIo][i].args[1] \notin {None, todo[ServerIo][i].args[2]}

\* The server has partitioner r when it has taken n messages, if it comes to that.
ServerHasPart(n, r) ==
    \/ r = None
    \/ r < Len(part_list["server"])
    \/ Doomed
    \/ HeadIs(ServerIo, {"partitioner"}) /\ Head(todo[ServerIo]).args[3] = r
    \/ \E j \in DOMAIN ToServer : /\ j <= n /\ ToServer[j].tag = "PARTITION_CREATED"
                                  /\ ToServer[j].body[1].val = r
PartSent(r) == ServerHasPart(OnWay, r)

\* The partitioners a message names.
PartsOf(m) ==
    IF m.tag = "PARTITION_CASCADED" THEN {m.body[1].val, m.body[4].val}
    ELSE IF m.tag = "DATA_PARTITIONED" THEN {m.body[8].val} ELSE {}

PartsKnown ==
    \A i \in DOMAIN ToServer : \A r \in PartsOf(ToServer[i]) : ServerHasPart(i - 1, r)

\* What the application's objects and the program point at has been broadcast.
PartPending(r) == HeadIs(Main, {"partition_defined"}) /\ Head(todo[Main]).args[1] = r
LinksSent ==
    /\ \A p \in PartKeys("app") : PartSent(At(part_list["app"], p).next)
    /\ \A d \in DataKeys("app") : PartSent(At(all_data["app"], d).partitioner)
    /\ \A i \in DOMAIN mine.part : PartSent(mine.part[i]) \/ PartPending(mine.part[i])

\* Before the first cut: the first datum of all, or one the program has made before
\* another one that is older than g.
Older(d, g) == d = 0 \/ \E j \in DOMAIN mine.data : d < mine.data[j] /\ mine.data[j] < g

ParentOf(g) == At(all_data["app"], g).parent

\* What a pending call of the program names is there in time.
GoodOfMain(c) ==
    /\ c.call = "data" => c.args[1] = None
    /\ c.call = "set_partition" => EverCut
    /\ c.call \in {"child", "data_partitioned"} =>
          EverCut \/ Older(c.args[1], Len(all_data["app"]))
    /\ c.call = "data_created" =>
          \/ EverCut
          \/ ParentOf(c.args[1]) = None
          \/ Older(ParentOf(c.args[1]), c.args[1])

\* The io thread only answers what the server has done.
GoodOfIo(c) ==
    /\ c.call \notin {"P.set_next", "A.set_partition"}
    /\ c.call \in {"set_partition", "child", "data_partitioned"} => Cut
    /\ c.call \in {"data", "data_created"} => Len(all_data["server"]) > 0
    /\ c.call = "data" => c.args[1] < Len(all_data["server"])
    /\ c.call = "data_created" => Cut \/ ParentOf(c.args[1]) < Len(all_data["server"])

GoodLinks(c) ==
    /\ c.call = "set_next" => PartSent(c.args[1]) /\ PartSent(c.args[2])
    /\ c.call = "partition_cascaded" => PartSent(c.args[1])
    /\ c.call = "set_partition" => PartSent(c.args[2])

Good(t, c) ==
    GoodLinks(c) /\ (t = Main => GoodOfMain(c)) /\ (t = AppIo => GoodOfIo(c))

GoodCalls == \A t \in {Main, AppIo} : \A i \in DOMAIN todo[t] : Good(t, todo[t][i])

\* The messages of the server name what it has.
AnswerOK(m) ==
    /\ m.tag = "DATA_CREATED" => Len(all_data["server"]) > 0
    /\ m.tag = "DATA_PARTITIONED" => Cut
    /\ DatumOf(m) < Len(all_data["server"])
    /\ \A r \in PartsOf(m) : r < Len(part_list["server"])
Answers == \A i \in DOMAIN queue["app"] : AnswerOK(queue["app"][i])

\* The first datum of all is the program's first.
NoData == Len(all_data["app"]) = 0
FirstIsMine ==
    /\ mine.data = <<>> => NoData
    /\ NoData => /\ Len(all_data["server"]) = 0
                 /\ ~HasCall(ServerIo, "data") /\ ~HasCall(ServerIo, "child")
                 /\ \A j \in DOMAIN ToServer : ToServer[j].tag # "DATA_CREATED"
    /\ mine.data # <<>> => mine.data[1] = 0

Increasing == \A i, j \in DOMAIN mine.data : i < j => mine.data[i] < mine.data[j]

\* The program has made the first n of its calls; the last of them may still be
\* making calls of its own.
ProgramNames == {"data", "partitioner", "P.set_next", "A.set_partition"}
Begun(n) == Len(todo[Main]) - (Len(Program) - n)
HasMade(n) ==
    /\ n \in 0..Len(Program) /\ Begun(n) >= 0
    /\ \A i \in DOMAIN todo[Main] :
          IF i <= Begun(n) THEN todo[Main][i].call \notin ProgramNames
          ELSE todo[Main][i] = Program[n + i - Begun(n)]
    /\ Len(mine.data) = MadeBy(n)
    /\ (\E h \in 1..n : IsCut(h)) => EverCut \/ HasCall(Main, "data_partitioned")
OfProgram == \E n \in Nat : HasMade(n)

ServerInv ==
    /\ Counted /\ DataKnown /\ PartsKnown /\ LinksSent /\ GoodCalls /\ Answers
    /\ FirstIsMine /\ Increasing /\ OfProgram
-------------------------------------------------------------------------------
(* Counting *)

\* One more message.
LEMMA CreatedNext ==
    ASSUME NEW q, NEW n \in Nat
    PROVE  /\ CreatedIn(q, n) \in Nat
           /\ CreatedIn(q, 0) = 0
           /\ CreatedIn(q, n + 1) = CreatedIn(q, n) + OneIf(q[n + 1].tag = "DATA_CREATED")
<1> DEFINE D(k) == {j \in 1..k : q[j].tag = "DATA_CREATED"}
<1>1. \A k \in Nat : IsFiniteSet(D(k))
    <2> TAKE k \in Nat
    <2>1. IsFiniteSet(1..k)
        BY FS_Interval
    <2> QED BY <2>1, FS_Subset
<1>2. \A k \in Nat : Cardinality(D(k)) \in Nat
    BY <1>1, FS_CardinalityType
<1>3. D(0) = {} /\ \A k : CreatedIn(q, k) = Cardinality(D(k))
    BY DEF CreatedIn
<1>4. CASE q[n + 1].tag = "DATA_CREATED"
    <2>1. D(n + 1) = D(n) \cup {n + 1} /\ n + 1 \notin D(n)
        BY <1>4
    <2> HIDE DEF D
    <2>2. Cardinality(D(n + 1)) = Cardinality(D(n)) + 1
        BY <1>1, <2>1, FS_AddElement
    <2> QED BY <1>2, <1>3, <1>4, <2>2, FS_EmptySet DEF OneIf
<1>5. CASE ~(q[n + 1].tag = "DATA_CREATED")
    <2>1. D(n + 1) = D(n)
        BY <1>5
    <2> HIDE DEF D
    <2>2. Cardinality(D(n)) \in Nat /\ Cardinality(D(0)) = 0
        BY <1>2, <1>3, FS_EmptySet
    <2> QED BY <1>3, <1>5, <2>1, <2>2 DEF OneIf
<1> QED BY <1>4, <1>5

\* The count looks at the first messages only.
LEMMA CreatedSame ==
    ASSUME NEW q, NEW r, NEW n \in Nat, \A j \in 1..n : r[j] = q[j]
    PROVE  CreatedIn(r, n) = CreatedIn(q, n)
<1>1. {j \in 1..n : r[j].tag = "DATA_CREATED"} = {j \in 1..n : q[j].tag = "DATA_CREATED"}
    OBVIOUS
<1> QED BY <1>1 DEF CreatedIn

\* The count without the first message.
LEMMA CreatedRest ==
    ASSUME NEW q, NEW r, NEW n \in Nat, \A j \in 1..n : r[j] = q[j + 1]
    PROVE  CreatedIn(q, n + 1) = CreatedIn(r, n) + OneIf(q[1].tag = "DATA_CREATED")
<1> DEFINE D == {j \in 1..n : r[j].tag = "DATA_CREATED"}
           E == {j \in 2..(n + 1) : q[j].tag = "DATA_CREATED"}
           F == {j \in 1..(n + 1) : q[j].tag = "DATA_CREATED"}
           f == [j \in D |-> j + 1]
<1>1. f \in Bijection(D, E)
    <2>1. \A j \in D : f[j] \in E
        OBVIOUS
    <2>2. \A i, j \in D : f[i] = f[j] => i = j
        OBVIOUS
    <2>3. \A e \in E : \E j \in D : f[j] = e
        <3> TAKE e \in E
        <3>1. e - 1 \in 1..n /\ r[e - 1] = q[e]
            OBVIOUS
        <3>2. e - 1 \in D /\ f[e - 1] = e
            BY <3>1
        <3> QED BY <3>2
    <2>4. f \in [D -> E]
        BY <2>1
    <2> HIDE DEF D, E, f
    <2> QED BY <2>2, <2>3, <2>4 DEF Bijection, Injection, Surjection, IsInjective
<1>2. IsFiniteSet(D) /\ IsFiniteSet(E)
    <2>1. IsFiniteSet(1..n) /\ IsFiniteSet(2..(n + 1))
        BY FS_Interval
    <2> QED BY <2>1, FS_Subset
<1>3. Cardinality(D) = Cardinality(E) /\ Cardinality(E) \in Nat
    <2> HIDE DEF D, E, f
    <2>1. ExistsBijection(D, E)
        BY <1>1 DEF ExistsBijection
    <2> QED BY <1>2, <2>1, FS_Bijection, FS_CardinalityType
<1>4. CASE q[1].tag = "DATA_CREATED"
    <2>1. F = E \cup {1} /\ 1 \notin E
        BY <1>4
    <2>2. Cardinality(F) = Cardinality(E) + 1
        BY <1>2, <2>1, FS_AddElement
    <2> QED BY <1>3, <1>4, <2>2 DEF CreatedIn, OneIf
<1>5. CASE q[1].tag # "DATA_CREATED"
    <2>1. F = E
        BY <1>5
    <2> QED BY <1>3, <1>5, <2>1 DEF CreatedIn, OneIf
<1> QED BY <1>4, <1>5

\* What the program has made by its first calls.
LEMMA MadeNext ==
    ASSUME NEW n \in Nat
    PROVE  /\ MadeBy(0) = 0 /\ MadeBy(n) \in Nat
           /\ MadeBy(n + 1) = MadeBy(n) + OneIf(Program[n + 1].call = "data")
<1> DEFINE D(k) == {j \in 1..k : Program[j].call = "data"}
<1>1. \A k \in Nat : IsFiniteSet(D(k))
    <2> TAKE k \in Nat
    <2>1. IsFiniteSet(1..k)
        BY FS_Interval
    <2> QED BY <2>1, FS_Subset
<1>2. \A k \in Nat : Cardinality(D(k)) \in Nat
    BY <1>1, FS_CardinalityType
<1>3. D(0) = {} /\ \A k : MadeBy(k) = Cardinality(D(k))
    BY DEF MadeBy
<1>4. CASE Program[n + 1].call = "data"
    <2>1. D(n + 1) = D(n) \cup {n + 1} /\ n + 1 \notin D(n)
        BY <1>4
    <2> HIDE DEF D
    <2>2. Cardinality(D(n + 1)) = Cardinality(D(n)) + 1
        BY <1>1, <2>1, FS_AddElement
    <2> QED BY <1>2, <1>3, <1>4, <2>2, FS_EmptySet DEF OneIf
<1>5. CASE ~(Program[n + 1].call = "data")
    <2>1. D(n + 1) = D(n)
        BY <1>5
    <2> HIDE DEF D
    <2>2. Cardinality(D(n)) \in Nat /\ Cardinality(D(0)) = 0
        BY <1>2, <1>3, FS_EmptySet
    <2> QED BY <1>3, <1>5, <2>1, <2>2 DEF OneIf
<1> QED BY <1>4, <1>5
-------------------------------------------------------------------------------
(* What the other threads do to what the server will have *)

\* The parts of ServerHas are counts.
LEMMA ServerHasFacts ==
    ASSUME Typed, NEW n \in Nat
    PROVE  /\ ServerHas(n) \in Nat /\ Len(all_data["server"]) \in Nat
           /\ Len(all_data["server"]) <= ServerHas(n)
           /\ OnWay \in Nat /\ DOMAIN ToServer = 1..OnWay
           /\ Len(all_data["app"]) \in Nat /\ Unsent \in 0..2
<1>1. all_data["server"] \in Seq(Datum) /\ all_data["app"] \in Seq(Datum)
    BY SideFacts DEF Typed
<1>2. ToServer \in Seq([tag : Tags, body : Body])
    BY SideFacts DEF Typed, ToServer
<1>3. \A b : OneIf(b) \in 0..1
    BY DEF OneIf
<1>4. CreatedIn(ToServer, n) \in Nat
    BY CreatedNext
<1>5. \A a, e \in Nat : \A c, d \in 0..1 : a + c + d + e \in Nat /\ a <= a + c + d + e
    OBVIOUS
<1>6. ServerHas(n) \in Nat /\ Len(all_data["server"]) <= ServerHas(n)
    BY <1>1, <1>3, <1>4, <1>5 DEF ServerHas
<1>7. Unsent \in 0..2
    BY <1>3 DEF Unsent
<1>8. OnWay \in Nat /\ DOMAIN ToServer = 1..OnWay
    BY <1>2 DEF OnWay
<1> QED BY <1>1, <1>6, <1>7, <1>8

\* A step that the server does not see.
LEMMA UnseenByServer ==
    ASSUME UNCHANGED <<queue["server"], all_data["server"], part_list["server"],
                       todo[ServerIo]>>
    PROVE  /\ ToServer' = ToServer /\ OnWay' = OnWay
           /\ Cut' = Cut /\ EverCut' = EverCut
           /\ \A n : ServerHas(n)' = ServerHas(n)
           /\ \A n, r : ServerHasPart(n, r)' = ServerHasPart(n, r)
           /\ \A r : PartSent(r)' = PartSent(r)
<1>1. ToServer' = ToServer /\ OnWay' = OnWay
    BY DEF ToServer, OnWay
<1>2. Cut' = Cut
    BY DEF Cut, DataKeys
<1>3. \A n : CutsBy(n)' = CutsBy(n)
    BY <1>1 DEF CutsBy, HasCall
<1>4. \A n : ServerHas(n)' = ServerHas(n)
    BY <1>1, <1>2, <1>3 DEF ServerHas, HeadIs
<1>5. \A n, r : ServerHasPart(n, r)' = ServerHasPart(n, r)
    BY <1>1 DEF ServerHasPart, Doomed, HeadIs
<1>6. EverCut' = EverCut
    BY <1>1, <1>2, <1>3 DEF EverCut
<1>7. \A r : PartSent(r)' = PartSent(r)
    BY <1>1, <1>5 DEF PartSent
<1> QED BY <1>1, <1>2, <1>4, <1>5, <1>6, <1>7

\* The server is told of something more.
LEMMA MessageForServer ==
    ASSUME Typed, NEW STATE m, m \in [tag : Tags, body : Body],
           queue'["server"] = Append(queue["server"], m),
           UNCHANGED <<all_data["server"], part_list["server"], todo[ServerIo]>>
    PROVE  /\ OnWay' = OnWay + 1
           /\ \A i \in 1..OnWay : ToServer'[i] = ToServer[i]
           /\ \A i \in Nat : i = OnWay + 1 => ToServer'[i] = m
           /\ Cut' = Cut /\ (EverCut' <=> EverCut \/ m.tag = "DATA_PARTITIONED")
           /\ \A n \in 0..OnWay : ServerHas(n)' = ServerHas(n)
           /\ ServerHas(OnWay)' = ServerHas(OnWay) + OneIf(m.tag = "DATA_CREATED")
                                  + (OneIf(EverCut') - OneIf(EverCut))
           /\ \A n \in 0..OnWay : \A r : ServerHasPart(n, r) => ServerHasPart(n, r)'
           /\ \A r : PartSent(r) => PartSent(r)'
           /\ \A r : m.tag = "PARTITION_CREATED" /\ m.body[1].val = r => PartSent(r)'
<1>1. PICK k \in Nat : k = OnWay
    BY ServerHasFacts
<1>2. ToServer \in Seq([tag : Tags, body : Body])
    BY SideFacts DEF Typed, ToServer
<1>3. /\ OnWay' = k + 1 /\ DOMAIN ToServer = 1..k /\ DOMAIN ToServer' = 1..(k + 1)
      /\ \A i \in 1..k : ToServer'[i] = ToServer[i]
      /\ ToServer'[k + 1] = m
    <2> DEFINE S == [tag : Tags, body : Body]
               q == queue["server"]
    <2>1. q \in Seq(S) /\ m \in S /\ k = Len(q)
        BY <1>1, <1>2 DEF ToServer, OnWay
    <2> HIDE DEF S, q
    <2>2. /\ Append(q, m) \in Seq(S) /\ Len(Append(q, m)) = k + 1
          /\ \A i \in 1..k : Append(q, m)[i] = q[i]
          /\ Append(q, m)[k + 1] = m
        BY <2>1, AppendProperties
    <2>3. DOMAIN q = 1..k /\ DOMAIN Append(q, m) = 1..(k + 1)
        BY <2>1, <2>2
    <2> QED BY <2>2, <2>3 DEF q, ToServer, OnWay
<1>4. Cut' = Cut
    BY DEF Cut, DataKeys
<1>5. HasCall(ServerIo, "set_partition")' = HasCall(ServerIo, "set_partition")
    BY DEF HasCall
<1>6. ASSUME NEW n \in 0..k PROVE CutsBy(n)' <=> CutsBy(n)
    <2>1. /\ \A j \in 1..(k + 1) : j <= n => j \in 1..k
          /\ \A j \in 1..k : j \in 1..(k + 1)
        OBVIOUS
    <2> QED BY <1>3, <1>5, <2>1 DEF CutsBy
<1>7. CutsBy(k + 1)' <=> CutsBy(k) \/ m.tag = "DATA_PARTITIONED"
    <2>1. /\ \A j \in 1..k : j \in 1..(k + 1) /\ j <= k /\ j <= k + 1
          /\ k + 1 \in 1..(k + 1)
          /\ \A j \in 1..(k + 1) : j \in 1..k \/ j = k + 1
        OBVIOUS
    <2> QED BY <1>3, <1>5, <2>1 DEF CutsBy
<1>8. EverCut' <=> EverCut \/ m.tag = "DATA_PARTITIONED"
    BY <1>1, <1>3, <1>4, <1>7 DEF EverCut
<1>9. HeadIs(ServerIo, {"data", "child"})' = HeadIs(ServerIo, {"data", "child"})
    BY DEF HeadIs
<1>10. \A n \in 0..k : CreatedIn(ToServer', n) = CreatedIn(ToServer, n)
    BY <1>3, CreatedSame
<1>11. \A n \in 0..k : ServerHas(n)' = ServerHas(n)
    BY <1>4, <1>6, <1>9, <1>10 DEF ServerHas, OneIf
<1>12. ServerHas(OnWay)' = ServerHas(OnWay) + OneIf(m.tag = "DATA_CREATED")
                           + (OneIf(EverCut') - OneIf(EverCut))
    <2> DEFINE a == Len(all_data["server"]) + OneIf(HeadIs(ServerIo, {"data", "child"}))
               c == CreatedIn(ToServer, k)
               d == OneIf(m.tag = "DATA_CREATED")
    <2>1. CreatedIn(ToServer', k + 1) = c + d
        <3>1. CreatedIn(ToServer', k + 1)
                  = CreatedIn(ToServer', k) + OneIf(ToServer'[k + 1].tag = "DATA_CREATED")
            BY CreatedNext
        <3>2. CreatedIn(ToServer', k) = c
            BY <1>10
        <3>3. OneIf(ToServer'[k + 1].tag = "DATA_CREATED") = d
            BY <1>3
        <3> QED BY <3>1, <3>2, <3>3
    <2>2. ServerHas(OnWay)' = a + OneIf(~Cut /\ CutsBy(k + 1)') + (c + d)
        BY <1>3, <1>4, <1>9, <2>1 DEF ServerHas
    <2>3. ServerHas(OnWay) = a + OneIf(~Cut /\ CutsBy(k)) + c
        BY <1>1 DEF ServerHas
    <2>4. a \in Int /\ c \in Int /\ d \in Int
        BY ServerHasFacts, CreatedNext DEF OneIf
    <2>5. OneIf(~Cut /\ CutsBy(k + 1)')
              = OneIf(~Cut /\ CutsBy(k)) + (OneIf(EverCut') - OneIf(EverCut))
        BY <1>1, <1>7, <1>8 DEF EverCut, OneIf
    <2>6. \A b : OneIf(b) \in Int
        BY DEF OneIf
    <2>7. \A v, w, x, y, z \in Int : x = w + (y - z) => v + x + (c + d) = v + w + c + d + (y - z)
        BY <2>4
    <2> HIDE DEF a, c
    <2> QED BY <2>2, <2>3, <2>4, <2>5, <2>6, <2>7
<1>13. /\ Doomed' = Doomed /\ part_list'["server"] = part_list["server"]
       /\ HeadIs(ServerIo, {"partitioner"})' = HeadIs(ServerIo, {"partitioner"})
       /\ todo'[ServerIo] = todo[ServerIo]
    BY DEF Doomed, HeadIs
<1>14. \A n \in 0..(k + 1) : \A r :
           (\E l \in 0..k : l <= n /\ ServerHasPart(l, r)) => ServerHasPart(n, r)'
    <2> SUFFICES ASSUME NEW n \in 0..(k + 1), NEW r, NEW l \in 0..k, l <= n,
                        ServerHasPart(l, r)
                 PROVE  ServerHasPart(n, r)'
        OBVIOUS
    <2>1. \A j \in 1..k : j \in 1..(k + 1) /\ (j <= l => j <= n)
        OBVIOUS
    <2> QED BY <1>3, <1>13, <2>1 DEF ServerHasPart
<1>15. \A n \in 0..k : \A r : ServerHasPart(n, r) => ServerHasPart(n, r)'
    <2>1. \A n \in 0..k : n \in 0..(k + 1) /\ n <= n
        OBVIOUS
    <2> QED BY <1>14, <2>1
<1>16. \A r : PartSent(r) => PartSent(r)'
    <2>1. k \in 0..k /\ k + 1 \in 0..(k + 1) /\ k <= k + 1
        OBVIOUS
    <2> QED BY <1>1, <1>3, <1>14, <2>1 DEF PartSent
<1>17. ASSUME NEW r, m.tag = "PARTITION_CREATED" /\ m.body[1].val = r PROVE PartSent(r)'
    <2>1. k + 1 \in 1..(k + 1) /\ k + 1 <= k + 1
        OBVIOUS
    <2>2. ServerHasPart(k + 1, r)'
        BY <1>3, <1>17, <2>1 DEF ServerHasPart
    <2> QED BY <1>3, <2>2 DEF PartSent
<1> QED BY <1>1, <1>3, <1>4, <1>8, <1>11, <1>12, <1>15, <1>16, <1>17
-------------------------------------------------------------------------------
(* Messages that are taken *)

\* A receiver that has what a message names resolves it.
LEMMA NamesResolve ==
    ASSUME NEW s \in Sides, NEW m \in [tag : Tags, body : Body], MessageOK(m),
           Len(all_data[s]) \in Nat, Len(part_list[s]) \in Nat,
           DatumOf(m) < Len(all_data[s]), \A r \in PartsOf(m) : r < Len(part_list[s])
    PROVE  Resolves(s, m)
<1> DEFINE b == m.body
           key == Paste(b, 0)
<1>1. m.tag \in Tags
    OBVIOUS
<1>2. key = b[1].val /\ \A i \in 0..9 : Paste(b, i) = b[i + 1].val
    BY DEF Paste
<1>3. /\ \A k \in Nat : k < Len(all_data[s]) => Known(all_data[s], k)
      /\ \A k \in Nat : k < Len(part_list[s]) => Known(part_list[s], k)
    BY DEF Known
<1> HIDE DEF b, key
<1>4. ASSUME m.tag = "DATA_CREATED" PROVE Resolves(s, m)
    <2>1. b[1].val \in Nat /\ b[7].val \in -1..(b[1].val - 1)
        BY <1>4 DEF MessageOK, b
    <2>2. b[7].val = None \/ (b[7].val \in Nat /\ b[7].val < Len(all_data[s]))
        BY <1>4, <2>1 DEF DatumOf, b, None
    <2> QED BY <1>2, <1>3, <1>4, <2>2 DEF Resolves, ParentAt, b
<1>5. ASSUME m.tag = "PARTITION_CREATED" PROVE Resolves(s, m)
    BY <1>5 DEF Resolves
<1>6. ASSUME m.tag = "PARTITION_CASCADED" PROVE Resolves(s, m)
    <2>1. b[1].val \in Nat /\ b[4].val \in Nat \cup {None}
        BY <1>6 DEF MessageOK, b
    <2>2. b[1].val < Len(part_list[s]) /\ b[4].val < Len(part_list[s])
        BY <1>6 DEF PartsOf, b
    <2> QED BY <1>2, <1>3, <1>6, <2>1, <2>2 DEF Resolves, NextAt, b, key
<1>7. ASSUME m.tag = "DATA_PARTITIONED" PROVE Resolves(s, m)
    <2>1. b[1].val \in Nat /\ b[8].val \in Nat
        BY <1>7 DEF MessageOK, b
    <2>2. b[1].val < Len(all_data[s]) /\ b[8].val < Len(part_list[s])
        BY <1>7 DEF DatumOf, PartsOf, b
    <2> QED BY <1>2, <1>3, <1>7, <2>1, <2>2 DEF Resolves, PartitionerAt, b, key
<1> QED BY <1>1, <1>4, <1>5, <1>6, <1>7 DEF Tags

\* The call a message is answered with.
Answering(m, c) ==
    /\ m.tag = "DATA_CREATED" => c.call = "data" /\ c.args[1] = m.body[7].val
    /\ m.tag = "PARTITION_CREATED" => c.call = "partitioner" /\ c.args[3] = m.body[1].val
    /\ m.tag = "PARTITION_CASCADED" =>
          c.call = "set_next" /\ c.args[1] = m.body[1].val /\ c.args[2] = m.body[4].val
    /\ m.tag = "DATA_PARTITIONED" =>
          c.call = "set_partition" /\ c.args[1] = m.body[1].val /\ c.args[2] = m.body[8].val

\* A message that resolves makes the receiver make one call, unless the datum has
\* that partitioner already.
LEMMA OneAnswer ==
    ASSUME NEW s \in Sides, NEW m \in [tag : Tags, body : Body], MessageOK(m), Resolves(s, m)
    PROVE  /\ ~Stops(s, m)
           /\ \/ /\ CallsOf(s, m) = <<>> /\ m.tag = "DATA_PARTITIONED"
                 /\ Known(all_data[s], m.body[1].val)
                 /\ At(all_data[s], m.body[1].val).partitioner = m.body[8].val
              \/ \E c \in Calls : CallsOf(s, m) = <<c>> /\ Answering(m, c)
<1> DEFINE b == m.body
           key == Paste(b, 0)
<1>1. key = b[1].val /\ \A i \in 0..9 : Paste(b, i) = b[i + 1].val
    BY DEF Paste
<1>2. m.tag \in Tags /\ b \in Seq(OneField)
    BY DEF Body
<1> HIDE DEF b, key
<1>3. \A i \in 1..Len(b) : b[i].val \in Int
    <2>1. \A i \in 1..Len(b) : b[i] \in OneField
        BY <1>2
    <2>2. \A f \in OneField : f.val \in Int
        BY DEF OneField
    <2> QED BY <2>1, <2>2
<1>4. \A list : \A k \in Nat \cup {None} : k = None \/ Known(list, k) => Found(list, k) = k
    BY DEF Found, Known, None
<1>5. CASE m.tag = "DATA_CREATED"
    <2>1. b[7].val \in Int /\ b[4].val \in Int
        BY <1>2, <1>3, <1>5 DEF MessageOK, b
    <2> DEFINE c == Call("data", <<b[7].val, b[4].val>>)
    <2>2. CallsOf(s, m) = <<c>> /\ ~Stops(s, m)
        BY <1>1, <1>5 DEF CallsOf, ParentAt, b, Stops
    <2>3. c \in Calls /\ c.call = "data" /\ c.args[1] = b[7].val
        BY <2>1, Call2 DEF CallNames
    <2> HIDE DEF c
    <2>4. Answering(m, c)
        BY <1>5, <2>3 DEF Answering, b
    <2> QED BY <2>2, <2>3, <2>4
<1>6. CASE m.tag = "PARTITION_CREATED"
    <2>1. b[2].val \in Int /\ b[3].val \in Int /\ b[1].val \in Int
        BY <1>6 DEF MessageOK, b, Positive
    <2> DEFINE c == Call("partitioner", <<b[2].val, b[3].val, b[1].val>>)
    <2>2. CallsOf(s, m) = <<c>> /\ ~Stops(s, m)
        BY <1>1, <1>6 DEF CallsOf, b, key, Stops
    <2>3. c \in Calls /\ c.call = "partitioner" /\ c.args[3] = b[1].val
        BY <2>1 DEF Call, Calls, CallNames
    <2> HIDE DEF c
    <2>4. Answering(m, c)
        BY <1>6, <2>3 DEF Answering, b
    <2> QED BY <2>2, <2>3, <2>4
<1>7. CASE m.tag = "PARTITION_CASCADED"
    <2>1. b[1].val \in Nat /\ b[4].val \in Nat \cup {None} /\ b[4].val \in Int
        BY <1>7 DEF MessageOK, b, None
    <2>2. Found(part_list[s], b[4].val) = b[4].val /\ Known(part_list[s], b[1].val)
        BY <1>1, <1>4, <1>7, <2>1 DEF Resolves, NextAt, b, key
    <2> DEFINE c == Call("set_next", <<b[1].val, b[4].val>>)
    <2>3. CallsOf(s, m) = <<c>> /\ ~Stops(s, m)
        BY <1>1, <1>7, <2>2 DEF CallsOf, NextAt, b, key, Stops
    <2>4. /\ c \in Calls /\ c.call = "set_next"
          /\ c.args[1] = b[1].val /\ c.args[2] = b[4].val
        BY <2>1, Call2 DEF CallNames
    <2> HIDE DEF c
    <2>5. Answering(m, c)
        BY <1>7, <2>4 DEF Answering, b
    <2> QED BY <2>3, <2>4, <2>5
<1>8. CASE m.tag = "DATA_PARTITIONED"
    <2>1. b[1].val \in Nat /\ b[8].val \in Nat /\ b[1].val \in Int /\ b[8].val \in Int
        BY <1>8 DEF MessageOK, b
    <2>2. /\ Known(all_data[s], b[1].val) /\ Known(part_list[s], b[8].val)
          /\ Found(part_list[s], b[8].val) = b[8].val
        BY <1>1, <1>4, <1>8, <2>1 DEF Resolves, PartitionerAt, b, key
    <2>3. ~Stops(s, m)
        BY <1>1, <1>8, <2>2 DEF Stops, PartitionerAt, b, key
    <2>4. CASE At(all_data[s], b[1].val).partitioner = b[8].val
        <3>1. CallsOf(s, m) = <<>>
            BY <1>1, <1>8, <2>2, <2>4 DEF CallsOf, PartitionerAt, b, key
        <3> QED BY <1>8, <2>2, <2>3, <2>4, <3>1 DEF b
    <2>5. CASE At(all_data[s], b[1].val).partitioner # b[8].val
        <3> DEFINE c == Call("set_partition", <<b[1].val, b[8].val>>)
        <3>1. CallsOf(s, m) = <<c>>
            BY <1>1, <1>8, <2>2, <2>5 DEF CallsOf, PartitionerAt, b, key
        <3>2. /\ c \in Calls /\ c.call = "set_partition"
              /\ c.args[1] = b[1].val /\ c.args[2] = b[8].val
            BY <2>1, Call2 DEF CallNames
        <3> HIDE DEF c
        <3>3. Answering(m, c)
            BY <1>8, <3>2 DEF Answering, b
        <3> QED BY <2>3, <3>1, <3>2, <3>3
    <2> QED BY <2>4, <2>5
<1> QED BY <1>2, <1>5, <1>6, <1>7, <1>8 DEF Tags

\* The server has what the message it comes to names.
LEMMA ServerResolves ==
    ASSUME Typed, MessagesOK, DataKnown, PartsKnown
    PROVE  KeysResolveAt("server")
<1> SUFFICES ASSUME queue["server"] # <<>>, todo[ServerIo] = <<>>
             PROVE  Resolves("server", Head(queue["server"]))
    BY DEF KeysResolveAt, ServerIo
<1> DEFINE m == Head(queue["server"])
           S == [tag : Tags, body : Body]
<1>1. queue["server"] \in Seq(S) /\ "server" \in Sides
    BY SideFacts DEF Typed
<1> HIDE DEF S
<1>2. 1 \in DOMAIN ToServer /\ ToServer[1] = m /\ m \in S
    BY <1>1 DEF ToServer
<1>3. MessageOK(m)
    BY <1>1, <1>2 DEF MessagesOK, ToServer
<1>4. Len(all_data["server"]) \in Nat /\ Len(part_list["server"]) \in Nat
    BY SideFacts DEF Typed
<1>5. DatumOf(m) < ServerHas(0) /\ \A r \in PartsOf(m) : ServerHasPart(0, r)
    BY <1>2 DEF DataKnown, PartsKnown
<1>6. ~HasCall(ServerIo, "set_partition") /\ ~Doomed
      /\ \A names : ~HeadIs(ServerIo, names)
    BY DEF HasCall, Doomed, HeadIs
<1>7. \A j \in DOMAIN ToServer : ~(j <= 0)
    BY ServerHasFacts
<1>8. ServerHas(0) = Len(all_data["server"])
    <2>1. ~CutsBy(0)
        BY <1>6, <1>7 DEF CutsBy
    <2>2. CreatedIn(ToServer, 0) = 0
        BY CreatedNext
    <2>3. ~HeadIs(ServerIo, {"data", "child"})
        BY <1>6
    <2>4. OneIf(HeadIs(ServerIo, {"data", "child"})) = 0 /\ OneIf(~Cut /\ CutsBy(0)) = 0
        BY <2>1, <2>3 DEF OneIf
    <2> QED BY <1>4, <2>2, <2>4 DEF ServerHas
<1>9. \A r \in PartsOf(m) : r = None \/ r < Len(part_list["server"])
    BY <1>5, <1>6, <1>7 DEF ServerHasPart
<1>10. \A r \in PartsOf(m) : r < Len(part_list["server"])
    BY <1>4, <1>9 DEF None
<1> HIDE DEF m
<1>11. DatumOf(m) < Len(all_data["server"])
    BY <1>5, <1>8
<1> QED BY <1>1, <1>2, <1>3, <1>4, <1>10, <1>11, NamesResolve DEF S, m
-------------------------------------------------------------------------------
(* What a call does *)

Cuts == {"set_partition", "A.set_partition"}
Links == {"set_next", "P.set_next"}
Sends == {"data_created", "partition_defined", "partition_cascaded", "data_partitioned"}

\* The objects a call is made with; the program names its own by their order.
First(c) ==
    IF c.call = "A.set_partition" THEN mine.data[c.args[1]]
    ELSE IF c.call = "P.set_next" THEN mine.part[c.args[1]] ELSE c.args[1]
Second(c) ==
    IF c.call \in {"A.set_partition", "P.set_next"} THEN mine.part[c.args[2]] ELSE c.args[2]

DataAfter(t, c) ==
    LET s == t[1] IN
    /\ all_data'[Peer(s)] = all_data[Peer(s)]
    /\ Len(all_data'[s]) = Len(all_data[s]) + OneIf(c.call \in {"data", "child"})
    /\ \A k \in DataKeys(s) :
          /\ At(all_data'[s], k).parent = At(all_data[s], k).parent
          /\ At(all_data'[s], k).partitioner =
                IF c.call \in Cuts /\ k = First(c) THEN Second(c)
                ELSE At(all_data[s], k).partitioner
    /\ c.call \in {"data", "child"} =>
          /\ At(all_data'[s], Len(all_data[s])).parent = c.args[1]
          /\ At(all_data'[s], Len(all_data[s])).partitioner = None

PartsAfter(t, c) ==
    LET s == t[1] IN
    /\ part_list'[Peer(s)] = part_list[Peer(s)]
    /\ Len(part_list'[s]) = Len(part_list[s]) + OneIf(c.call = "partitioner")
    /\ \A k \in PartKeys(s) :
          At(part_list'[s], k).next =
              IF c.call \in Links /\ k = First(c) THEN Second(c) ELSE At(part_list[s], k).next
    /\ c.call = "partitioner" => At(part_list'[s], Len(part_list[s])).next = None

MineAfter(t, c) ==
    /\ mine'.data = IF t = Main /\ c.call = "data"
                    THEN Append(mine.data, Len(all_data["app"])) ELSE mine.data
    /\ mine'.part = IF t = Main /\ c.call = "partitioner"
                    THEN Append(mine.part, Len(part_list["app"])) ELSE mine.part

Tells(s, c, m) ==
    /\ c.call = "data_created" =>
          /\ m.tag = "DATA_CREATED"
          /\ DatumOf(m) = At(all_data[s], c.args[1]).parent /\ PartsOf(m) = {}
    /\ c.call = "partition_defined" =>
          /\ m.tag = "PARTITION_CREATED" /\ m.body[1].val = c.args[1]
          /\ DatumOf(m) = None /\ PartsOf(m) = {}
    /\ c.call = "partition_cascaded" =>
          /\ m.tag = "PARTITION_CASCADED" /\ DatumOf(m) = None
          /\ PartsOf(m) = {c.args[1], At(part_list[s], c.args[1]).next}
    /\ c.call = "data_partitioned" =>
          /\ m.tag = "DATA_PARTITIONED" /\ DatumOf(m) = c.args[1]
          /\ PartsOf(m) = {At(all_data[s], c.args[1]).partitioner}

SentAfter(t, c) ==
    LET s == t[1] IN
    /\ queue'[s] = queue[s]
    /\ IF c.call \in Sends
       THEN \E m \in [tag : Tags, body : Body] :
                queue'[Peer(s)] = Append(queue[Peer(s)], m) /\ Tells(s, c, m)
       ELSE queue'[Peer(s)] = queue[Peer(s)]

\* What the calls a call makes are called with.
Makes(t, c, e) ==
    LET s == t[1] IN
    \/ c.call \in {"data", "child"} /\ e.call = "data_created" /\ e.args[1] = Len(all_data[s])
    \/ c.call = "partitioner" /\ e.call = "partition_defined"
                              /\ e.args[1] = Len(part_list[s])
    \/ /\ c.call = "partitioner" /\ e.call = "assert_key"
       /\ e.args[1] = c.args[3] /\ e.args[2] = Len(part_list[s])
    \/ c.call \in Links /\ e.call = "partition_cascaded" /\ e.args[1] = First(c)
    \/ c.call \in Cuts /\ e.call \in {"child", "data_partitioned"} /\ e.args[1] = First(c)
    \/ /\ c.call = "data_partitioned" /\ e.call = "set_partition"
       /\ e.args[2] = At(part_list[s], At(all_data[s], c.args[1]).partitioner).next
       /\ e.args[2] # None

CallsAfter(t, c, calls) ==
    /\ \A i \in DOMAIN calls : Makes(t, c, calls[i])
    /\ c.call \in {"data", "child"} => calls # <<>>
    /\ c.call = "partitioner" =>
          /\ Len(calls) = 2
          /\ calls[1].call = "partition_defined" /\ calls[2].call = "assert_key"
    /\ c.call \in Cuts =>
          /\ First(c) \in DataKeys(t[1]) /\ Second(c) \in PartKeys(t[1])
          /\ calls # <<>> /\ calls[1].call = "child"
          /\ \E i \in DOMAIN calls : calls[i].call = "data_partitioned"
    /\ c.call = "assert_key" => c.args[1] \in {None, c.args[2]}

TodoAfter(t, calls) ==
    /\ \A u \in Threads \ {t} : todo'[u] = todo[u]
    /\ Len(todo'[t]) = Len(calls) + Len(todo[t]) - 1
    /\ \A i \in 1..Len(calls) : todo'[t][i] = calls[i]
    /\ \A i \in 2..Len(todo[t]) : todo'[t][Len(calls) + i - 1] = todo[t][i]

After(t, c, calls) ==
    /\ DataAfter(t, c) /\ PartsAfter(t, c) /\ MineAfter(t, c) /\ SentAfter(t, c)
    /\ CallsAfter(t, c, calls) /\ TodoAfter(t, calls)

\* The calls of the thread, after it has replaced one by those it makes.
LEMMA ThenTodo ==
    ASSUME Typed, NEW t \in Threads, todo[t] # <<>>,
           NEW STATE calls, calls \in Seq(Calls), Then(t, calls)
    PROVE  TodoAfter(t, calls)
<1>1. todo \in [Threads -> Seq(Calls)] /\ todo' = [todo EXCEPT ![t] = calls \o Tail(todo[t])]
    BY DEF Typed, Then
<1>2. todo'[t] = calls \o Tail(todo[t]) /\ \A u \in Threads \ {t} : todo'[u] = todo[u]
    BY <1>1
<1> DEFINE q == todo[t]
           r == Tail(q)
<1>3. q \in Seq(Calls) /\ q # <<>>
    BY <1>1
<1> HIDE DEF q
<1>4. /\ r \in Seq(Calls) /\ Len(r) = Len(q) - 1 /\ Len(q) \in Nat /\ Len(q) > 0
      /\ \A i \in 1..Len(r) : r[i] = q[i + 1]
    BY <1>3, HeadTailProperties
<1> HIDE DEF r
<1>5. /\ Len(calls \o r) = Len(calls) + Len(r)
      /\ \A i \in 1..Len(calls) : (calls \o r)[i] = calls[i]
      /\ \A i \in (Len(calls) + 1)..(Len(calls) + Len(r)) : (calls \o r)[i] = r[i - Len(calls)]
    <2>1. r \in Seq(Calls) /\ Len(r) \in Nat /\ Len(calls) \in Nat
        BY <1>4
    <2>2. /\ Len(calls \o r) = Len(calls) + Len(r)
          /\ \A i \in 1..Len(calls) : (calls \o r)[i] = calls[i]
        BY <2>1, ConcatProperties, SMTT(30)
    <2>3. \A i \in (Len(calls) + 1)..(Len(calls) + Len(r)) :
              (calls \o r)[i] = r[i - Len(calls)]
        BY <2>1, ConcatProperties, SMTT(30)
    <2> QED BY <2>2, <2>3
<1>6. \A i \in 2..Len(q) : (calls \o r)[Len(calls) + i - 1] = q[i]
    <2> TAKE i \in 2..Len(q)
    <2>1. Len(calls) \in Nat
        OBVIOUS
    <2>2. /\ Len(calls) + i - 1 \in (Len(calls) + 1)..(Len(calls) + Len(r))
          /\ (Len(calls) + i - 1) - Len(calls) = i - 1 /\ i - 1 \in 1..Len(r) /\ (i - 1) + 1 = i
        BY <1>4, <2>1
    <2>3. r[i - 1] = q[i]
        BY <1>4, <2>2
    <2> QED BY <1>5, <2>2, <2>3
<1>7. Len(calls \o r) = Len(calls) + Len(q) - 1
    BY <1>4, <1>5
<1>8. todo'[t] = calls \o r
    BY <1>2 DEF q, r
<1> QED BY <1>2, <1>5, <1>6, <1>7, <1>8 DEF TodoAfter, q

\* What a program that has just made an object points at.
LEMMA MineKept ==
    ASSUME mine \in [data : Seq(Int), part : Seq(Int)], NEW t, NEW kind \in Kinds,
           NEW STATE k, Keep(t, kind, k)
    PROVE  /\ mine'.data = IF t = Main /\ kind = "data" THEN Append(mine.data, k) ELSE mine.data
           /\ mine'.part = IF t = Main /\ kind = "part" THEN Append(mine.part, k) ELSE mine.part
<1>1. CASE t = Main /\ kind = "data"
    BY <1>1 DEF Keep
<1>2. CASE t = Main /\ kind = "part"
    BY <1>2 DEF Keep
<1>3. CASE t # Main
    BY <1>3 DEF Keep
<1> QED BY <1>1, <1>2, <1>3 DEF Kinds

\* GData: the new datum is the last, and it is broadcast.
LEMMA NewDataAfter ==
    ASSUME MQInv, NEW t \in Threads, todo[t] # <<>>, NEW c \in Calls,
           c.args[1] \in Int, c.args[2] \in Int,
           NEW isChild \in BOOLEAN, c.call = IF isChild THEN "child" ELSE "data",
           isChild => c.args[1] \in DataKeys(t[1]),
           NewData(t, t[1], c.args[1], c.args[2], isChild)
    PROVE  \E calls \in Seq(Calls) : After(t, c, calls)
<1> DEFINE s == t[1]
<1>1. Typed /\ s \in Sides /\ Sides \ {s} = {Peer(s)}
    BY SideFacts DEF MQInv, Peer
<1>2. PICK k0 \in Nat : k0 = Len(all_data[s])
    BY <1>1 DEF Typed
<1>3. /\ all_data'[Peer(s)] = all_data[Peer(s)]
      /\ Len(all_data'[s]) = k0 + 1
      /\ \A k \in 0..(k0 - 1) :
            /\ At(all_data'[s], k).parent = At(all_data[s], k).parent
            /\ At(all_data'[s], k).partitioner = At(all_data[s], k).partitioner
      /\ At(all_data'[s], k0).parent = c.args[1]
      /\ At(all_data'[s], k0).partitioner = None
    BY <1>1, <1>2, NewDatum
<1> DEFINE e == Call("data_created", <<k0>>)
           calls == <<e>>
<1>4. /\ Then(t, calls) /\ UNCHANGED <<part_list, queue>>
      /\ IF isChild THEN UNCHANGED mine ELSE Keep(t, "data", k0)
    BY <1>2 DEF NewData, NewKey, Broadcast
<1>5. e \in Calls /\ e.call = "data_created" /\ e.args[1] = k0
    BY Call1 DEF CallNames
<1> HIDE DEF e
<1>6. calls \in Seq(Calls) /\ calls # <<>> /\ DOMAIN calls = {1} /\ calls[1] = e
    BY <1>5
<1> HIDE DEF calls
<1>7. TodoAfter(t, calls)
    BY <1>1, <1>4, <1>6, ThenTodo
<1>8. c.call \in {"data", "child"} /\ c.call \notin Cuts /\ c.call \notin Links
      /\ c.call \notin Sends /\ c.call # "partitioner" /\ c.call # "assert_key"
      /\ (c.call = "data" <=> ~isChild)
    BY DEF Cuts, Links, Sends
<1>9. DataAfter(t, c)
    <2>1. OneIf(c.call \in {"data", "child"}) = 1
        BY <1>8 DEF OneIf
    <2> QED BY <1>2, <1>3, <1>8, <2>1 DEF DataAfter, DataKeys
<1>10. PartsAfter(t, c)
    <2>1. OneIf(c.call = "partitioner") = 0
        BY <1>8 DEF OneIf
    <2>2. Len(part_list[s]) \in Nat /\ part_list' = part_list
        BY <1>1, <1>4 DEF Typed
    <2> QED BY <1>8, <2>1, <2>2 DEF PartsAfter
<1>11. MineAfter(t, c)
    <2>1. CASE isChild
        BY <1>4, <1>8, <2>1 DEF MineAfter
    <2>2. CASE ~isChild
        <3>1. /\ mine'.data = IF t = Main THEN Append(mine.data, k0) ELSE mine.data
              /\ mine'.part = mine.part
            <4>1. /\ mine \in [data : Seq(Int), part : Seq(Int)] /\ "data" \in Kinds
                  /\ Keep(t, "data", k0)
                BY <1>1, <1>4, <2>2 DEF Typed, Kinds
            <4> QED BY <4>1, MineKept
        <3>2. t = Main => k0 = Len(all_data["app"])
            BY <1>2, SideFacts
        <3> QED BY <1>8, <2>2, <3>1, <3>2 DEF MineAfter
    <2> QED BY <2>1, <2>2
<1>12. SentAfter(t, c)
    BY <1>4, <1>8 DEF SentAfter
<1>13. CallsAfter(t, c, calls)
    BY <1>2, <1>5, <1>6, <1>8 DEF CallsAfter, Makes
<1> QED BY <1>6, <1>7, <1>9, <1>10, <1>11, <1>12, <1>13 DEF After

\* A call that leaves the objects alone.
LEMMA NoObjectAfter ==
    ASSUME Typed, NEW t \in Threads, NEW c,
           c.call \in Sends \cup {"assert_key"}, UNCHANGED <<all_data, part_list, mine>>
    PROVE  DataAfter(t, c) /\ PartsAfter(t, c) /\ MineAfter(t, c)
<1>1. c.call \notin {"data", "child", "partitioner"} \cup Cuts \cup Links
    BY DEF Sends, Cuts, Links
<1>2. t[1] \in Sides
    BY SideFacts
<1>3. Len(all_data[t[1]]) \in Nat /\ Len(part_list[t[1]]) \in Nat
    BY <1>2 DEF Typed
<1>4. OneIf(c.call \in {"data", "child"}) = 0 /\ OneIf(c.call = "partitioner") = 0
    BY <1>1 DEF OneIf
<1>5. DataAfter(t, c)
    BY <1>1, <1>3, <1>4 DEF DataAfter
<1>6. PartsAfter(t, c)
    BY <1>1, <1>3, <1>4 DEF PartsAfter
<1>7. MineAfter(t, c)
    BY <1>1 DEF MineAfter
<1> QED BY <1>5, <1>6, <1>7

\* A message to the other process.
LEMMA PutAfter ==
    ASSUME Typed, NEW t \in Threads, NEW c, c.call \in Sends, NEW STATE m,
           m \in [tag : Tags, body : Body], Put(t[1], m.tag, m.body), Tells(t[1], c, m)
    PROVE  SentAfter(t, c)
<1> DEFINE s == t[1]
<1>1. s \in Sides /\ Peer(s) \in Sides /\ Peer(s) # s
    BY SideFacts DEF Peer
<1>2. m = [tag |-> m.tag, body |-> m.body]
    OBVIOUS
<1>3. queue' = [queue EXCEPT ![Peer(s)] = Append(queue[Peer(s)], m)]
    BY <1>2 DEF Put, Publish
<1>4. queue'[s] = queue[s] /\ queue'[Peer(s)] = Append(queue[Peer(s)], m)
    BY <1>1, <1>3 DEF Typed
<1> QED BY <1>4 DEF SentAfter

\* The callback of a datum that has been made.
LEMMA DataCreatedAfter ==
    ASSUME MQInv, NEW t \in Threads, todo[t] # <<>>, NEW c \in Calls,
           c.call = "data_created", c.args[1] \in DataKeys(t[1]),
           DataCreated(t, t[1], c.args[1])
    PROVE  \E calls \in Seq(Calls) : After(t, c, calls)
<1> DEFINE s == t[1]
           k == c.args[1]
           m == DatumMsg("DATA_CREATED", s, k)
           calls == <<>>
<1>1. Typed /\ ObjectsOK /\ s \in Sides
    BY SideFacts DEF MQInv
<1>2. /\ Put(s, m.tag, m.body) /\ Then(t, calls)
      /\ UNCHANGED <<all_data, part_list, mine>>
    BY DEF DataCreated, DatumMsg
<1>3. /\ m \in [tag : Tags, body : Body] /\ m.tag = "DATA_CREATED"
      /\ m.body[7].val = At(all_data[s], k).parent
    BY <1>1, DatumMessage
<1> HIDE DEF m
<1>4. Tells(s, c, m)
    BY <1>3 DEF Tells, DatumOf, PartsOf
<1>5. SentAfter(t, c)
    BY <1>1, <1>2, <1>3, <1>4, PutAfter DEF Sends
<1>6. calls \in Seq(Calls) /\ DOMAIN calls = {}
    OBVIOUS
<1> HIDE DEF calls
<1>9. TodoAfter(t, calls)
    BY <1>1, <1>2, <1>6, ThenTodo
<1>7. DataAfter(t, c) /\ PartsAfter(t, c) /\ MineAfter(t, c)
    BY <1>1, <1>2, NoObjectAfter DEF Sends
<1>8. CallsAfter(t, c, calls)
    BY <1>6 DEF CallsAfter, Cuts
<1> QED BY <1>5, <1>6, <1>7, <1>8, <1>9 DEF After

\* The callback of a partitioner that has been made.
LEMMA PartitionDefinedAfter ==
    ASSUME MQInv, NEW t \in Threads, todo[t] # <<>>, NEW c \in Calls,
           c.call = "partition_defined", c.args[1] \in PartKeys(t[1]),
           PartitionDefined(t, t[1], c.args[1])
    PROVE  \E calls \in Seq(Calls) : After(t, c, calls)
<1> DEFINE s == t[1]
           k == c.args[1]
           m == PartitionerMsg("PARTITION_CREATED", s, k)
           calls == <<>>
<1>1. Typed /\ ObjectsOK /\ s \in Sides
    BY SideFacts DEF MQInv
<1>2. /\ Put(s, m.tag, m.body) /\ Then(t, calls)
      /\ UNCHANGED <<all_data, part_list, mine>>
    BY DEF PartitionDefined, PartitionerMsg
<1>3. /\ m \in [tag : Tags, body : Body] /\ m.tag = "PARTITION_CREATED"
      /\ m.body[1].val = k
    BY <1>1, PartitionerMessage
<1> HIDE DEF m
<1>4. Tells(s, c, m)
    BY <1>3 DEF Tells, DatumOf, PartsOf
<1>5. SentAfter(t, c)
    BY <1>1, <1>2, <1>3, <1>4, PutAfter DEF Sends
<1>6. calls \in Seq(Calls) /\ DOMAIN calls = {}
    OBVIOUS
<1> HIDE DEF calls
<1>9. TodoAfter(t, calls)
    BY <1>1, <1>2, <1>6, ThenTodo
<1>7. DataAfter(t, c) /\ PartsAfter(t, c) /\ MineAfter(t, c)
    BY <1>1, <1>2, NoObjectAfter DEF Sends
<1>8. CallsAfter(t, c, calls)
    BY <1>6 DEF CallsAfter, Cuts
<1> QED BY <1>5, <1>6, <1>7, <1>8, <1>9 DEF After

\* The callback of a link.
LEMMA PartitionCascadedAfter ==
    ASSUME MQInv, NEW t \in Threads, todo[t] # <<>>, NEW c \in Calls,
           c.call = "partition_cascaded", c.args[1] \in PartKeys(t[1]),
           PartitionCascaded(t, t[1], c.args[1])
    PROVE  \E calls \in Seq(Calls) : After(t, c, calls)
<1> DEFINE s == t[1]
           k == c.args[1]
           m == PartitionerMsg("PARTITION_CASCADED", s, k)
           calls == <<>>
<1>1. Typed /\ ObjectsOK /\ s \in Sides
    BY SideFacts DEF MQInv
<1>2. /\ Put(s, m.tag, m.body) /\ Then(t, calls)
      /\ UNCHANGED <<all_data, part_list, mine>>
    BY DEF PartitionCascaded, PartitionerMsg
<1>3. /\ m \in [tag : Tags, body : Body] /\ m.tag = "PARTITION_CASCADED"
      /\ m.body[1].val = k /\ m.body[4].val = At(part_list[s], k).next
    BY <1>1, PartitionerMessage
<1> HIDE DEF m
<1>4. Tells(s, c, m)
    BY <1>3 DEF Tells, DatumOf, PartsOf
<1>5. SentAfter(t, c)
    BY <1>1, <1>2, <1>3, <1>4, PutAfter DEF Sends
<1>6. calls \in Seq(Calls) /\ DOMAIN calls = {}
    OBVIOUS
<1> HIDE DEF calls
<1>9. TodoAfter(t, calls)
    BY <1>1, <1>2, <1>6, ThenTodo
<1>7. DataAfter(t, c) /\ PartsAfter(t, c) /\ MineAfter(t, c)
    BY <1>1, <1>2, NoObjectAfter DEF Sends
<1>8. CallsAfter(t, c, calls)
    BY <1>6 DEF CallsAfter, Cuts
<1> QED BY <1>5, <1>6, <1>7, <1>8, <1>9 DEF After

\* A process that stops changes nothing else.
Stopped == UNCHANGED <<all_data, part_list, queue, todo, mine>>

\* The assertion of CreatePartition, when it holds.
LEMMA AssertKeyAfter ==
    ASSUME MQInv, NEW t \in Threads, todo[t] # <<>>, NEW c \in Calls,
           c.call = "assert_key", AssertKey(t, t[1], c.args[1], c.args[2])
    PROVE  Stopped \/ \E calls \in Seq(Calls) : After(t, c, calls)
<1>1. Typed /\ t[1] \in Sides
    BY SideFacts DEF MQInv
<1>2. UNCHANGED <<all_data, part_list, queue, mine>>
    BY DEF AssertKey
<1>3. CASE c.args[1] \in {None, c.args[2]}
    <2> DEFINE calls == <<>>
    <2>1. Then(t, calls)
        BY <1>3 DEF AssertKey
    <2>2. calls \in Seq(Calls) /\ DOMAIN calls = {}
        OBVIOUS
    <2> HIDE DEF calls
    <2>3. TodoAfter(t, calls)
        BY <1>1, <2>1, <2>2, ThenTodo
    <2>4. DataAfter(t, c) /\ PartsAfter(t, c) /\ MineAfter(t, c)
        BY <1>1, <1>2, NoObjectAfter
    <2>5. SentAfter(t, c)
        BY <1>2 DEF SentAfter, Sends
    <2>6. CallsAfter(t, c, calls)
        BY <1>3, <2>2 DEF CallsAfter, Cuts
    <2> QED BY <2>2, <2>3, <2>4, <2>5, <2>6 DEF After
<1>4. CASE c.args[1] \notin {None, c.args[2]}
    BY <1>2, <1>4 DEF AssertKey, Stopped
<1> QED BY <1>3, <1>4

\* set_next changes one link.
LEMMA SetNextAfter ==
    ASSUME MQInv, NEW t \in Threads, todo[t] # <<>>, NEW c \in Calls, c.call \in Links,
           First(c) \in PartKeys(t[1]), Second(c) \in Int,
           SetNext(t, t[1], First(c), Second(c))
    PROVE  \E calls \in Seq(Calls) : After(t, c, calls)
<1> DEFINE s == t[1]
<1>1. PICK p, q \in Int : p = First(c) /\ q = Second(c)
    BY DEF PartKeys
<1>2. Typed /\ s \in Sides /\ Peer(s) \in Sides /\ Peer(s) # s
    BY SideFacts DEF MQInv, Peer
<1>3. /\ part_list \in [Sides -> Seq(Partitioner)] /\ part_list[s] \in Seq(Partitioner)
      /\ p + 1 \in 1..Len(part_list[s])
    BY <1>1, <1>2 DEF Typed, PartKeys
<1> DEFINE l == part_list[s]
           e == [l[p + 1] EXCEPT !.next = q]
           new == [l EXCEPT ![p + 1] = e]
           d == Call("partition_cascaded", <<p, q>>)
           calls == <<d>>
<1>4. part_list' = [part_list EXCEPT ![s] = new]
    BY <1>1 DEF SetNext
<1>5. UNCHANGED <<all_data, queue, mine>> /\ Then(t, calls)
    BY <1>1 DEF SetNext, Broadcast
<1>6. e \in Partitioner /\ e.next = q
    <2>1. l[p + 1] \in Partitioner
        BY <1>3
    <2> QED BY <2>1 DEF Partitioner
<1>7. d \in Calls /\ d.call = "partition_cascaded" /\ d.args[1] = p
    BY Call2 DEF CallNames
<1> HIDE DEF e, d
<1>8. calls \in Seq(Calls) /\ DOMAIN calls = {1} /\ calls[1] = d
    BY <1>7
<1> HIDE DEF calls
<1>9. l \in Seq(Partitioner) /\ Len(l) \in Nat
    BY <1>3
<1> HIDE DEF l
<1>10. /\ new \in Seq(Partitioner) /\ Len(new) = Len(l)
       /\ \A i \in 1..Len(l) : new[i] = IF i = p + 1 THEN e ELSE l[i]
    BY <1>3, <1>6, <1>9, ExceptSeq DEF l
<1> HIDE DEF new
<1>11. part_list'[s] = new /\ part_list'[Peer(s)] = part_list[Peer(s)]
    BY <1>2, <1>3, <1>4
<1>12. c.call \notin {"data", "child", "partitioner", "assert_key"} \cup Cuts \cup Sends
    BY DEF Sends, Cuts, Links
<1>13. DataAfter(t, c)
    <2>1. OneIf(c.call \in {"data", "child"}) = 0 /\ Len(all_data[s]) \in Nat
        BY <1>2, <1>12 DEF OneIf, Typed
    <2> QED BY <1>5, <1>12, <2>1 DEF DataAfter
<1>14. PartsAfter(t, c)
    <2>1. OneIf(c.call = "partitioner") = 0
        BY <1>12 DEF OneIf
    <2>2. ASSUME NEW k \in PartKeys(s)
          PROVE  At(part_list'[s], k).next = IF k = p THEN q ELSE At(part_list[s], k).next
        <3>1. k \in Int /\ k + 1 \in 1..Len(l)
            BY <1>9 DEF PartKeys, l
        <3>2. At(part_list'[s], k) = IF k = p THEN e ELSE l[k + 1]
            BY <1>10, <1>11, <3>1 DEF At
        <3> QED BY <1>6, <3>2 DEF At, l
    <2>3. Len(part_list'[s]) = Len(part_list[s]) + 0
        BY <1>9, <1>10, <1>11 DEF l
    <2> QED BY <1>1, <1>11, <1>12, <2>1, <2>2, <2>3 DEF PartsAfter
<1>15. MineAfter(t, c)
    BY <1>5, <1>12 DEF MineAfter
<1>16. SentAfter(t, c)
    BY <1>5, <1>12 DEF SentAfter
<1>17. CallsAfter(t, c, calls)
    BY <1>1, <1>7, <1>8, <1>12 DEF CallsAfter, Makes
<1>18. TodoAfter(t, calls)
    BY <1>2, <1>5, <1>8, ThenTodo
<1> QED BY <1>8, <1>13, <1>14, <1>15, <1>16, <1>17, <1>18 DEF After

\* GPartitioner: the new one is the last, and it is broadcast.
LEMMA NewPartitionerAfter ==
    ASSUME MQInv, NEW t \in Threads, todo[t] # <<>>, NEW c \in Calls,
           c.call = "partitioner", c.args[1] \in Positive, c.args[2] \in Positive,
           c.args[3] \in Int, NewPartitioner(t, t[1], c.args[1], c.args[2], c.args[3])
    PROVE  \E calls \in Seq(Calls) : After(t, c, calls)
<1> DEFINE s == t[1]
<1>1. Typed /\ s \in Sides /\ Peer(s) \in Sides /\ Peer(s) # s
    BY SideFacts DEF MQInv, Peer
<1>2. part_list \in [Sides -> Seq(Partitioner)] /\ part_list[s] \in Seq(Partitioner)
    BY <1>1 DEF Typed
<1>3. PICK k0 \in Nat : k0 = Len(part_list[s])
    BY <1>2
<1> DEFINE p0 == [y |-> c.args[1], x |-> c.args[2], next |-> None]
           new == Append(part_list[s], p0)
           d == Call("partition_defined", <<k0>>)
           e == Call("assert_key", <<c.args[3], k0>>)
           calls == <<d, e>>
<1>4. part_list' = [part_list EXCEPT ![s] = new]
    BY DEF NewPartitioner
<1>5. UNCHANGED <<all_data, queue>> /\ Then(t, calls) /\ Keep(t, "part", k0)
    BY <1>3 DEF NewPartitioner, NewKey, Broadcast
<1>6. p0 \in Partitioner /\ p0.next = None
    BY DEF Partitioner, None
<1>7. /\ d \in Calls /\ d.call = "partition_defined" /\ d.args[1] = k0
      /\ e \in Calls /\ e.call = "assert_key" /\ e.args[1] = c.args[3] /\ e.args[2] = k0
    BY Call1, Call2 DEF CallNames
<1> HIDE DEF p0, d, e
<1>8. /\ calls \in Seq(Calls) /\ DOMAIN calls = {1, 2} /\ Len(calls) = 2
      /\ calls[1] = d /\ calls[2] = e
    BY <1>7
<1> HIDE DEF calls
<1>9. /\ new \in Seq(Partitioner) /\ Len(new) = k0 + 1
      /\ \A i \in 1..k0 : new[i] = part_list[s][i]
      /\ new[k0 + 1] = p0
    BY <1>2, <1>3, <1>6, AppendProperties
<1> HIDE DEF new
<1>10. part_list'[s] = new /\ part_list'[Peer(s)] = part_list[Peer(s)]
    BY <1>1, <1>2, <1>4
<1>11. c.call \notin {"data", "child", "assert_key"} \cup Cuts \cup Sends \cup Links
    BY DEF Sends, Cuts, Links
<1>12. DataAfter(t, c)
    <2>1. OneIf(c.call \in {"data", "child"}) = 0 /\ Len(all_data[s]) \in Nat
        BY <1>1, <1>11 DEF OneIf, Typed
    <2> QED BY <1>5, <1>11, <2>1 DEF DataAfter
<1>13. PartsAfter(t, c)
    <2>1. OneIf(c.call = "partitioner") = 1
        BY DEF OneIf
    <2>2. ASSUME NEW k \in PartKeys(s)
          PROVE  At(part_list'[s], k) = At(part_list[s], k)
        <3>1. k + 1 \in 1..k0
            BY <1>3 DEF PartKeys
        <3> QED BY <1>9, <1>10, <3>1 DEF At
    <2>3. At(part_list'[s], k0).next = None
        BY <1>6, <1>9, <1>10 DEF At
    <2> QED BY <1>3, <1>9, <1>10, <1>11, <2>1, <2>2, <2>3 DEF PartsAfter
<1>14. MineAfter(t, c)
    <2>1. /\ mine'.data = mine.data
          /\ mine'.part = IF t = Main THEN Append(mine.part, k0) ELSE mine.part
        <3>1. /\ mine \in [data : Seq(Int), part : Seq(Int)] /\ "part" \in Kinds
              /\ Keep(t, "part", k0) /\ "part" # "data"
            BY <1>1, <1>5 DEF Typed, Kinds
        <3> QED BY <3>1, MineKept
    <2>2. t = Main => k0 = Len(part_list["app"])
        BY <1>3, SideFacts
    <2> QED BY <1>11, <2>1, <2>2 DEF MineAfter
<1>15. SentAfter(t, c)
    BY <1>5, <1>11 DEF SentAfter
<1>16. CallsAfter(t, c, calls)
    BY <1>3, <1>7, <1>8, <1>11 DEF CallsAfter, Makes
<1>17. TodoAfter(t, calls)
    BY <1>1, <1>5, <1>8, ThenTodo
<1> QED BY <1>8, <1>12, <1>13, <1>14, <1>15, <1>16, <1>17 DEF After

\* The calls set_partition makes: the children, then the broadcast.
LEMMA Births ==
    ASSUME NEW d \in Int, NEW n \in Positive
    PROVE  LET calls == [i \in 1..n |-> Call("child", <<d, i - 1>>)]
                            \o <<Call("data_partitioned", <<d>>)>>
           IN  /\ calls \in Seq(Calls) /\ DOMAIN calls = 1..(n + 1)
               /\ \A i \in 1..n : calls[i].call = "child" /\ calls[i].args[1] = d
               /\ calls[n + 1].call = "data_partitioned" /\ calls[n + 1].args[1] = d
<1> DEFINE births == [i \in 1..n |-> Call("child", <<d, i - 1>>)]
           c == Call("data_partitioned", <<d>>)
           r == <<c>>
<1>1. n \in Nat
    BY DEF Positive
<1>2. /\ births \in Seq(Calls) /\ Len(births) = n
      /\ \A i \in 1..n : births[i].call = "child" /\ births[i].args[1] = d
    <2>1. \A i \in 1..n : /\ Call("child", <<d, i - 1>>) \in Calls
                          /\ Call("child", <<d, i - 1>>).call = "child"
                          /\ Call("child", <<d, i - 1>>).args[1] = d
        BY <1>1, Call2 DEF CallNames
    <2>2. \A i \in 1..n : births[i] = Call("child", <<d, i - 1>>)
        OBVIOUS
    <2>3. \A i \in 1..n :
              births[i] \in Calls /\ births[i].call = "child" /\ births[i].args[1] = d
        BY <2>1, <2>2
    <2>4. DOMAIN births = 1..n
        OBVIOUS
    <2>5. births = [i \in 1..n |-> births[i]]
        OBVIOUS
    <2> HIDE DEF births
    <2>6. births \in [1..n -> Calls]
        BY <2>3, <2>5
    <2>7. births \in Seq(Calls) /\ Len(births) = n
        BY <1>1, <2>4, <2>6
    <2> QED BY <2>3, <2>7
<1>3. c \in Calls /\ c.call = "data_partitioned" /\ c.args[1] = d
    BY Call1 DEF CallNames
<1> HIDE DEF births, c
<1>4. r \in Seq(Calls) /\ Len(r) = 1 /\ r[1] = c
    BY <1>3
<1> HIDE DEF r
<1>5. /\ births \o r \in Seq(Calls) /\ Len(births \o r) = n + 1
      /\ \A i \in 1..n : (births \o r)[i] = births[i]
      /\ (births \o r)[n + 1] = r[1]
    <2>1. Len(births) = n /\ births \in Seq(Calls)
        BY <1>2
    <2>2. births \o r \in Seq(Calls) /\ Len(births \o r) = n + 1
        BY <1>4, <2>1, ConcatProperties, SMTT(30)
    <2>3. \A i \in 1..n : (births \o r)[i] = births[i]
        BY <1>1, <1>4, <2>1, ConcatProperties, SMTT(30)
    <2>4. (births \o r)[n + 1] = r[1]
        BY <1>1, <1>4, <2>1, ConcatProperties, SMTT(30)
    <2> QED BY <2>2, <2>3, <2>4
<1> DEFINE calls == births \o r
<1>6. /\ calls \in Seq(Calls) /\ DOMAIN calls = 1..(n + 1)
      /\ \A i \in 1..n : calls[i].call = "child" /\ calls[i].args[1] = d
      /\ calls[n + 1].call = "data_partitioned" /\ calls[n + 1].args[1] = d
    <2>1. /\ calls \in Seq(Calls) /\ Len(calls) = n + 1
          /\ \A i \in 1..n : calls[i] = births[i]
          /\ calls[n + 1] = c
        BY <1>4, <1>5
    <2> HIDE DEF calls
    <2> QED BY <1>2, <1>3, <2>1
<1> QED BY <1>6 DEF births, c, r

\* set_partition cuts a datum that is there.
LEMMA SetPartitionAfter ==
    ASSUME MQInv, NEW t \in Threads, todo[t] # <<>>, NEW c \in Calls, c.call \in Cuts,
           First(c) \in Int, Second(c) \in PartKeys(t[1]),
           SetPartition(t, t[1], First(c), Second(c))
    PROVE  Stopped \/ \E calls \in Seq(Calls) : After(t, c, calls)
<1> DEFINE s == t[1]
<1>1. PICK d, p \in Int : d = First(c) /\ p = Second(c)
    BY DEF PartKeys
<1>2. Typed /\ s \in Sides /\ Peer(s) \in Sides /\ Peer(s) # s
    BY SideFacts DEF MQInv, Peer
<1>3. all_data \in [Sides -> Seq(Datum)] /\ all_data[s] \in Seq(Datum)
    BY <1>2 DEF Typed
<1>4. CASE ~Known(all_data[s], d)
    BY <1>1, <1>4 DEF SetPartition, Stopped
<1>5. CASE Known(all_data[s], d)
    <2>1. d + 1 \in 1..Len(all_data[s]) /\ d \in DataKeys(s)
        BY <1>3, <1>5 DEF Known, DataKeys
    <2>2. At(part_list[s], p).y * At(part_list[s], p).x \in Positive
        BY <1>1, <1>2, PiecesThere
    <2>3. PICK n \in Positive : n = At(part_list[s], p).y * At(part_list[s], p).x
        BY <2>2
    <2> DEFINE l == all_data[s]
               kids == [i \in 1..n |-> None]
               e == [l[d + 1] EXCEPT !.partitioner = p, !.children = kids]
               new == [l EXCEPT ![d + 1] = e]
               calls == [i \in 1..n |-> Call("child", <<d, i - 1>>)]
                            \o <<Call("data_partitioned", <<d>>)>>
    <2>4. kids \in Seq(Int)
        BY DEF None, Positive
    <2>5. all_data' = [all_data EXCEPT ![s] = new]
        <3>1. all_data' = CutInTwo(all_data, s, d + 1, p, kids)
            BY <1>1, <1>5, <2>3 DEF SetPartition, CutInTwo
        <3>2. [all_data EXCEPT ![s] = new] = CutAtOnce(all_data, s, d + 1, p, kids)
            BY DEF CutAtOnce
        <3> HIDE DEF kids, new
        <3> QED BY <1>2, <1>3, <2>1, <2>4, <3>1, <3>2, CutDatum
    <2>6. Then(t, calls) /\ UNCHANGED <<part_list, queue, mine>>
        BY <1>1, <1>5, <2>3 DEF SetPartition, Broadcast
    <2> HIDE DEF kids
    <2>7. e \in Datum /\ e.partitioner = p /\ e.parent = l[d + 1].parent
        <3>1. l[d + 1] \in Datum
            BY <1>3, <2>1
        <3> QED BY <2>4, <3>1 DEF Datum
    <2> HIDE DEF e
    <2>8. l \in Seq(Datum) /\ d + 1 \in 1..Len(l) /\ Len(l) \in Nat
        BY <1>3, <2>1
    <2> HIDE DEF l
    <2>9. /\ new \in Seq(Datum) /\ Len(new) = Len(l)
          /\ \A i \in 1..Len(l) : new[i] = IF i = d + 1 THEN e ELSE l[i]
        BY <2>7, <2>8, ExceptSeq
    <2> HIDE DEF new
    <2>10. all_data'[s] = new /\ all_data'[Peer(s)] = all_data[Peer(s)]
        BY <1>2, <1>3, <2>5
    <2>11. /\ calls \in Seq(Calls) /\ DOMAIN calls = 1..(n + 1)
           /\ \A i \in 1..n : calls[i].call = "child" /\ calls[i].args[1] = d
           /\ calls[n + 1].call = "data_partitioned" /\ calls[n + 1].args[1] = d
        BY Births
    <2> HIDE DEF calls
    <2>12. c.call \notin {"data", "child", "partitioner", "assert_key"} \cup Links \cup Sends
        BY DEF Sends, Cuts, Links
    <2>13. DataAfter(t, c)
        <3>1. OneIf(c.call \in {"data", "child"}) = 0
            BY <2>12 DEF OneIf
        <3>2. ASSUME NEW k \in DataKeys(s)
              PROVE  /\ At(all_data'[s], k).parent = At(all_data[s], k).parent
                     /\ At(all_data'[s], k).partitioner =
                            IF k = d THEN p ELSE At(all_data[s], k).partitioner
            <4>1. k \in Int /\ k + 1 \in 1..Len(l)
                BY <2>8 DEF DataKeys, l
            <4>2. At(all_data'[s], k) = IF k = d THEN e ELSE l[k + 1]
                BY <2>9, <2>10, <4>1 DEF At
            <4> QED BY <2>7, <4>2 DEF At, l
        <3>3. Len(all_data'[s]) = Len(all_data[s]) + 0
            BY <2>8, <2>9, <2>10 DEF l
        <3> QED BY <1>1, <2>10, <2>12, <3>1, <3>2, <3>3 DEF DataAfter
    <2>14. PartsAfter(t, c)
        <3>1. OneIf(c.call = "partitioner") = 0 /\ Len(part_list[s]) \in Nat
            BY <1>2, <2>12 DEF OneIf, Typed
        <3> QED BY <2>6, <2>12, <3>1 DEF PartsAfter
    <2>15. MineAfter(t, c)
        BY <2>6, <2>12 DEF MineAfter
    <2>16. SentAfter(t, c)
        BY <2>6, <2>12 DEF SentAfter
    <2>17. CallsAfter(t, c, calls)
        <3>1. n \in Nat /\ 1 \in 1..n /\ 1 \in 1..(n + 1) /\ n + 1 \in 1..(n + 1)
            BY DEF Positive
        <3>2. \A i \in 1..(n + 1) : i \in 1..n \/ i = n + 1
            BY <3>1
        <3>3. \A i \in DOMAIN calls : Makes(t, c, calls[i])
            BY <1>1, <2>11, <3>2 DEF Makes
        <3>4. calls # <<>> /\ calls[1].call = "child"
              /\ \E i \in DOMAIN calls : calls[i].call = "data_partitioned"
            BY <2>11, <3>1
        <3> QED BY <1>1, <2>1, <2>12, <3>3, <3>4 DEF CallsAfter
    <2>18. TodoAfter(t, calls)
        BY <1>2, <2>6, <2>11, ThenTodo
    <2> QED BY <2>11, <2>13, <2>14, <2>15, <2>16, <2>17, <2>18 DEF After
<1> QED BY <1>4, <1>5

\* The callback of a datum that has been cut, and the next partitioner for its children.
LEMMA DataPartitionedAfter ==
    ASSUME MQInv, NEW t \in Threads, todo[t] # <<>>, NEW c \in Calls,
           c.call = "data_partitioned", c.args[1] \in DataKeys(t[1]),
           At(all_data[t[1]], c.args[1]).partitioner \in PartKeys(t[1]),
           DataPartitioned(t, t[1], c.args[1])
    PROVE  \E calls \in Seq(Calls) : After(t, c, calls)
<1> DEFINE s == t[1]
           d == c.args[1]
           datum == At(all_data[s], d)
           p == datum.partitioner
           q == At(part_list[s], p).next
           m == DatumMsg("DATA_PARTITIONED", s, d)
           calls == IF q = None THEN <<>>
                    ELSE [i \in DOMAIN datum.children |->
                            Call("set_partition", <<datum.children[i], q>>)]
<1>1. Typed /\ ObjectsOK /\ s \in Sides
    BY SideFacts DEF MQInv
<1>2. /\ Put(s, m.tag, m.body) /\ Then(t, calls)
      /\ UNCHANGED <<all_data, part_list, mine>>
    BY DEF DataPartitioned, DatumMsg
<1>3. /\ m \in [tag : Tags, body : Body] /\ m.tag = "DATA_PARTITIONED"
      /\ m.body[1].val = d /\ m.body[8].val = p
    BY <1>1, DatumMessage
<1> HIDE DEF m
<1>4. Tells(s, c, m)
    BY <1>3 DEF Tells, DatumOf, PartsOf
<1>5. SentAfter(t, c)
    BY <1>1, <1>2, <1>3, <1>4, PutAfter DEF Sends
<1>6. /\ calls \in Seq(Calls)
      /\ \A i \in DOMAIN calls : /\ calls[i].call = "set_partition"
                                 /\ calls[i].args[2] = q /\ q # None
    <2>1. CASE q = None
        <3>1. calls = <<>>
            BY <2>1
        <3> HIDE DEF calls
        <3> QED BY <3>1
    <2>2. CASE q # None
        <3>1. q \in Int
            BY <1>1, <2>2 DEF ObjectsOK, NextOK, PartKeys
        <3>2. datum.children \in Seq(Int)
            <4>1. all_data[s] \in Seq(Datum) /\ d + 1 \in 1..Len(all_data[s])
                BY <1>1 DEF Typed, DataKeys
            <4>2. datum \in Datum
                BY <4>1 DEF At
            <4> HIDE DEF datum
            <4> QED BY <4>2 DEF Datum
        <3> DEFINE kids == datum.children
        <3>3. calls = [i \in DOMAIN kids |-> Call("set_partition", <<kids[i], q>>)]
            BY <2>2
        <3>7. q # None
            BY <2>2
        <3> HIDE DEF calls, kids, q
        <3>4. kids \in Seq(Int)
            BY <3>2 DEF kids
        <3>5. ASSUME NEW i \in DOMAIN kids
              PROVE  LET e == Call("set_partition", <<kids[i], q>>) IN
                     e \in Calls /\ e.call = "set_partition" /\ e.args[2] = q
            <4>1. kids[i] \in Int
                BY <3>4
            <4> QED BY <3>1, <4>1, Call2 DEF CallNames
        <3>6. calls \in Seq(Calls)
            <4>1. DOMAIN kids = 1..Len(kids) /\ Len(kids) \in Nat
                BY <3>4
            <4> QED BY <3>3, <3>5, <4>1
        <3> QED BY <3>3, <3>5, <3>6, <3>7
    <2> HIDE DEF calls, q
    <2> QED BY <2>1, <2>2
<1> HIDE DEF calls
<1>7. TodoAfter(t, calls)
    BY <1>1, <1>2, <1>6, ThenTodo
<1>8. DataAfter(t, c) /\ PartsAfter(t, c) /\ MineAfter(t, c)
    BY <1>1, <1>2, NoObjectAfter DEF Sends
<1>9. CallsAfter(t, c, calls)
    BY <1>6 DEF CallsAfter, Makes, Cuts
<1> QED BY <1>5, <1>6, <1>7, <1>8, <1>9 DEF After

\* What the next call of a thread does.
LEMMA StepAfter ==
    ASSUME MQInv, NEW t \in Threads, Step(t)
    PROVE  /\ todo[t] # <<>> /\ Head(todo[t]) \in Calls /\ CallOK(t[1], Head(todo[t]))
           /\ Stopped \/ \E calls \in Seq(Calls) : After(t, Head(todo[t]), calls)
<1>1. Typed /\ ObjectsOK /\ CallsOK /\ todo[t] # <<>>
    BY DEF MQInv, Step
<1>2. Head(todo[t]) \in Calls /\ CallOK(t[1], Head(todo[t]))
    BY <1>1, NextCall
<1>3. PICK c \in Calls : c = Head(todo[t])
    BY <1>2
<1> SUFFICES Stopped \/ \E calls \in Seq(Calls) : After(t, c, calls)
    BY <1>1, <1>2, <1>3
<1> DEFINE s == t[1]
           a == c.args
<1>4. CallOK(s, c)
    BY <1>2, <1>3
<1> DEFINE h == Head(todo[t])
           b == h.args
<1> HIDE DEF s, a
<1>18. /\ \/ h.call = "data" /\ NewData(t, s, b[1], b[2], FALSE)
          \/ h.call = "child" /\ NewData(t, s, b[1], b[2], TRUE)
          \/ h.call = "data_created" /\ DataCreated(t, s, b[1])
          \/ h.call = "partitioner" /\ NewPartitioner(t, s, b[1], b[2], b[3])
          \/ h.call = "partition_defined" /\ PartitionDefined(t, s, b[1])
          \/ h.call = "assert_key" /\ AssertKey(t, s, b[1], b[2])
          \/ h.call = "set_next" /\ SetNext(t, s, b[1], b[2])
          \/ /\ h.call = "P.set_next"
             /\ b[1] \in DOMAIN mine.part /\ b[2] \in DOMAIN mine.part
             /\ SetNext(t, s, mine.part[b[1]], mine.part[b[2]])
          \/ h.call = "partition_cascaded" /\ PartitionCascaded(t, s, b[1])
          \/ h.call = "set_partition" /\ SetPartition(t, s, b[1], b[2])
          \/ /\ h.call = "A.set_partition"
             /\ b[1] \in DOMAIN mine.data /\ b[2] \in DOMAIN mine.part
             /\ SetPartition(t, s, mine.data[b[1]], mine.part[b[2]])
          \/ h.call = "data_partitioned" /\ DataPartitioned(t, s, b[1])
    BY Zenon DEF Step, s
<1>19. c = h /\ a = b
    BY <1>3 DEF a
<1> HIDE DEF h, b
<1> USE DEF s, a
<1>6. CASE h.call = "data" /\ NewData(t, s, b[1], b[2], FALSE)
    <2>a. c.call = "data" /\ NewData(t, s, a[1], a[2], FALSE)
        BY <1>19, <1>6
    <2>1. a[1] \in Int /\ a[2] \in Int
        BY <1>4, <2>a DEF CallOK
    <2> QED BY <1>1, <1>3, <2>a, <2>1, NewDataAfter
<1>7. CASE h.call = "child" /\ NewData(t, s, b[1], b[2], TRUE)
    <2>a. c.call = "child" /\ NewData(t, s, a[1], a[2], TRUE)
        BY <1>19, <1>7
    <2>1. a[1] \in Int /\ a[2] \in Int /\ a[1] \in DataKeys(s)
        BY <1>4, <2>a DEF CallOK
    <2> QED BY <1>1, <1>3, <2>a, <2>1, NewDataAfter
<1>8. CASE h.call = "data_created" /\ DataCreated(t, s, b[1])
    <2>a. c.call = "data_created" /\ DataCreated(t, s, a[1])
        BY <1>19, <1>8
    <2>1. a[1] \in DataKeys(s)
        BY <1>4, <2>a DEF CallOK
    <2> QED BY <1>1, <1>3, <2>a, <2>1, DataCreatedAfter
<1>9. CASE h.call = "partitioner" /\ NewPartitioner(t, s, b[1], b[2], b[3])
    <2>a. c.call = "partitioner" /\ NewPartitioner(t, s, a[1], a[2], a[3])
        BY <1>19, <1>9
    <2>1. a[1] \in Positive /\ a[2] \in Positive /\ a[3] \in Int
        BY <1>4, <2>a DEF CallOK
    <2> QED BY <1>1, <1>3, <2>a, <2>1, NewPartitionerAfter
<1>10. CASE h.call = "partition_defined" /\ PartitionDefined(t, s, b[1])
    <2>a. c.call = "partition_defined" /\ PartitionDefined(t, s, a[1])
        BY <1>19, <1>10
    <2>1. a[1] \in PartKeys(s)
        BY <1>4, <2>a DEF CallOK
    <2> QED BY <1>1, <1>3, <2>a, <2>1, PartitionDefinedAfter
<1>11. CASE h.call = "assert_key" /\ AssertKey(t, s, b[1], b[2])
    <2>a. c.call = "assert_key" /\ AssertKey(t, s, a[1], a[2])
        BY <1>19, <1>11
    <2> QED BY <1>1, <1>3, <2>a, AssertKeyAfter
<1>12. CASE h.call = "set_next" /\ SetNext(t, s, b[1], b[2])
    <2>a. c.call = "set_next" /\ SetNext(t, s, a[1], a[2])
        BY <1>19, <1>12
    <2>1. a[1] \in PartKeys(s) /\ a[2] \in Int
        BY <1>4, <2>a DEF CallOK, PartKeys, None
    <2>2. First(c) = a[1] /\ Second(c) = a[2] /\ c.call \in Links
        BY <2>a DEF First, Second, Links
    <2> QED BY <1>1, <1>3, <2>a, <2>1, <2>2, SetNextAfter
<1>13. CASE /\ h.call = "P.set_next"
            /\ b[1] \in DOMAIN mine.part /\ b[2] \in DOMAIN mine.part
            /\ SetNext(t, s, mine.part[b[1]], mine.part[b[2]])
    <2>a. /\ c.call = "P.set_next"
          /\ a[1] \in DOMAIN mine.part /\ a[2] \in DOMAIN mine.part
          /\ SetNext(t, s, mine.part[a[1]], mine.part[a[2]])
        BY <1>19, <1>13
    <2>1. s = "app"
        BY <1>4, <2>a DEF CallOK
    <2>2. mine.part[a[1]] \in PartKeys(s) /\ mine.part[a[2]] \in Int
        BY <1>1, <2>a, <2>1 DEF ObjectsOK, MineOK, PartKeys
    <2>3. First(c) = mine.part[a[1]] /\ Second(c) = mine.part[a[2]] /\ c.call \in Links
        BY <2>a DEF First, Second, Links
    <2> QED BY <1>1, <1>3, <2>a, <2>2, <2>3, SetNextAfter
<1>14. CASE h.call = "partition_cascaded" /\ PartitionCascaded(t, s, b[1])
    <2>a. c.call = "partition_cascaded" /\ PartitionCascaded(t, s, a[1])
        BY <1>19, <1>14
    <2>1. a[1] \in PartKeys(s)
        BY <1>4, <2>a DEF CallOK
    <2> QED BY <1>1, <1>3, <2>a, <2>1, PartitionCascadedAfter
<1>15. CASE h.call = "set_partition" /\ SetPartition(t, s, b[1], b[2])
    <2>a. c.call = "set_partition" /\ SetPartition(t, s, a[1], a[2])
        BY <1>19, <1>15
    <2>1. a[1] \in Int /\ a[2] \in PartKeys(s)
        BY <1>4, <2>a DEF CallOK
    <2>2. First(c) = a[1] /\ Second(c) = a[2] /\ c.call \in Cuts
        BY <2>a DEF First, Second, Cuts
    <2> QED BY <1>1, <1>3, <2>a, <2>1, <2>2, SetPartitionAfter
<1>16. CASE /\ h.call = "A.set_partition"
            /\ b[1] \in DOMAIN mine.data /\ b[2] \in DOMAIN mine.part
            /\ SetPartition(t, s, mine.data[b[1]], mine.part[b[2]])
    <2>a. /\ c.call = "A.set_partition"
          /\ a[1] \in DOMAIN mine.data /\ a[2] \in DOMAIN mine.part
          /\ SetPartition(t, s, mine.data[a[1]], mine.part[a[2]])
        BY <1>19, <1>16
    <2>1. s = "app"
        BY <1>4, <2>a DEF CallOK
    <2>2. mine.data[a[1]] \in Int /\ mine.part[a[2]] \in PartKeys(s)
        BY <1>1, <2>a, <2>1 DEF ObjectsOK, MineOK, DataKeys
    <2>3. First(c) = mine.data[a[1]] /\ Second(c) = mine.part[a[2]] /\ c.call \in Cuts
        BY <2>a DEF First, Second, Cuts
    <2> QED BY <1>1, <1>3, <2>a, <2>2, <2>3, SetPartitionAfter
<1>17. CASE h.call = "data_partitioned" /\ DataPartitioned(t, s, b[1])
    <2>a. c.call = "data_partitioned" /\ DataPartitioned(t, s, a[1])
        BY <1>19, <1>17
    <2>1. a[1] \in DataKeys(s) /\ At(all_data[s], a[1]).partitioner \in PartKeys(s)
        BY <1>4, <2>a DEF CallOK
    <2> QED BY <1>1, <1>3, <2>a, <2>1, DataPartitionedAfter
<1> QED BY <1>18, <1>6, <1>7, <1>8, <1>9, <1>10, <1>11, <1>12, <1>13, <1>14, <1>15, <1>16, <1>17
-------------------------------------------------------------------------------
(* What stays true as the objects grow *)

\* The calls of a thread that has made one.
LEMMA CallsThen ==
    ASSUME Typed, Typed', NEW t \in Threads, todo[t] # <<>>, NEW calls \in Seq(Calls),
           TodoAfter(t, calls)
    PROVE  /\ \A i \in DOMAIN todo'[t] :
                 \/ \E j \in DOMAIN calls : todo'[t][i] = calls[j]
                 \/ \E j \in 2..Len(todo[t]) : todo'[t][i] = todo[t][j]
           /\ \A j \in DOMAIN calls : \E i \in DOMAIN todo'[t] : todo'[t][i] = calls[j]
           /\ \A j \in 2..Len(todo[t]) : \E i \in DOMAIN todo'[t] : todo'[t][i] = todo[t][j]
           /\ calls # <<>> => todo'[t] # <<>> /\ Head(todo'[t]) = calls[1]
<1> DEFINE q == todo[t]
           r == todo'[t]
<1>1. /\ q \in Seq(Calls) /\ q # <<>> /\ r \in Seq(Calls)
      /\ Len(r) = Len(calls) + Len(q) - 1
      /\ \A i \in 1..Len(calls) : r[i] = calls[i]
      /\ \A i \in 2..Len(q) : r[Len(calls) + i - 1] = q[i]
    BY DEF Typed, TodoAfter
<1> HIDE DEF q, r
<1>2. /\ Len(q) \in Nat /\ Len(q) >= 1 /\ Len(r) \in Nat /\ Len(calls) \in Nat
      /\ DOMAIN r = 1..Len(r) /\ DOMAIN calls = 1..Len(calls)
    BY <1>1
<1>3. ASSUME NEW i \in DOMAIN r
      PROVE  \/ \E j \in DOMAIN calls : r[i] = calls[j]
             \/ \E j \in 2..Len(q) : r[i] = q[j]
    <2>1. i \in Int /\ 1 <= i /\ i <= Len(calls) + Len(q) - 1
        BY <1>1, <1>2
    <2>2. CASE i <= Len(calls)
        BY <1>1, <1>2, <2>1, <2>2
    <2>3. CASE i > Len(calls)
        <3>1. PICK j \in Int : j = i - Len(calls) + 1
            BY <1>2, <2>1
        <3>2. j \in 2..Len(q) /\ Len(calls) + j - 1 = i
            <4>0. Len(calls) \in Nat /\ Len(q) \in Nat
                BY <1>2
            <4>1. PICK k \in Nat : k = Len(calls)
                BY <4>0
            <4>2. PICK l \in Nat : l = Len(q)
                BY <4>0
            <4>3. i \in Int /\ k < i /\ i <= k + l - 1 /\ j = i - k + 1
                BY <2>1, <2>3, <3>1, <4>1, <4>2
            <4>4. j >= 2 /\ j <= l
                BY <4>3, SMTT(30)
            <4>5. k + j - 1 = i
                BY <4>3, SMTT(30)
            <4> QED BY <4>1, <4>2, <4>4, <4>5
        <3>3. r[i] = q[j]
            BY <1>1, <3>2
        <3> QED BY <3>2, <3>3
    <2> QED BY <1>2, <2>1, <2>2, <2>3
<1>4. ASSUME NEW j \in DOMAIN calls PROVE \E i \in DOMAIN r : r[i] = calls[j]
    <2>1. j \in 1..Len(calls) /\ j \in DOMAIN r
        BY <1>1, <1>2
    <2> QED BY <1>1, <2>1
<1>5. ASSUME NEW j \in 2..Len(q) PROVE \E i \in DOMAIN r : r[i] = q[j]
    <2>1. PICK i \in Int : i = Len(calls) + j - 1
        <3>1. Len(calls) + j - 1 \in Int
            BY <1>2
        <3> QED BY <3>1
    <2>2. i \in DOMAIN r /\ r[i] = q[j]
        <3>1. 1 <= i /\ i <= Len(r)
            BY <1>1, <1>2, <2>1
        <3> QED BY <1>1, <1>2, <2>1, <3>1
    <2> QED BY <2>2
<1>6. calls # <<>> => r # <<>> /\ Head(r) = calls[1]
    <2> SUFFICES ASSUME calls # <<>> PROVE r # <<>> /\ Head(r) = calls[1]
        OBVIOUS
    <2>1. 1 \in 1..Len(calls) /\ Len(r) >= 1
        BY <1>1, <1>2
    <2> QED BY <1>1, <2>1
<1> QED BY <1>3, <1>4, <1>5, <1>6 DEF q, r

\* The keys a message names are integers.
LEMMA NamesAreKeys ==
    ASSUME NEW m, MessageOK(m)
    PROVE  DatumOf(m) \in Int /\ \A r \in PartsOf(m) : r \in Int
<1>1. CASE m.tag \in {"DATA_CREATED", "DATA_PARTITIONED"}
    <2>1. m.body[1].val \in Nat /\ m.body[7].val \in -1..(m.body[1].val - 1)
        BY <1>1 DEF MessageOK
    <2>2. m.tag = "DATA_PARTITIONED" => m.body[8].val \in Nat
        BY <1>1 DEF MessageOK
    <2> QED BY <1>1, <2>1, <2>2 DEF DatumOf, PartsOf
<1>2. CASE m.tag \notin {"DATA_CREATED", "DATA_PARTITIONED"}
    <2>1. m.body[1].val \in Nat /\ m.body[4].val \in Nat \cup {None}
        BY <1>2 DEF MessageOK
    <2> QED BY <1>2, <2>1 DEF DatumOf, PartsOf, None
<1> QED BY <1>1, <1>2

Forward ==
    /\ Len(all_data["app"]) <= Len(all_data["app"])'
    /\ Len(all_data["server"]) <= Len(all_data["server"])'
    /\ Len(part_list["server"]) <= Len(part_list["server"])'
    /\ (Cut => Cut') /\ (EverCut => EverCut')
    /\ \A r \in Int : PartSent(r) => PartSent(r)'
    /\ \A g \in DataKeys("app") : ParentOf(g)' = ParentOf(g)
    /\ \A i \in DOMAIN mine.data : i \in DOMAIN mine'.data /\ mine'.data[i] = mine.data[i]

\* The lengths of the lists.
LEMMA ListLengths ==
    ASSUME Typed
    PROVE  /\ Len(all_data["app"]) \in Nat /\ Len(all_data["server"]) \in Nat
           /\ Len(part_list["app"]) \in Nat /\ Len(part_list["server"]) \in Nat
BY SideFacts DEF Typed

\* Likewise after a step.
LEMMA ListLengthsNext ==
    ASSUME Typed'
    PROVE  /\ Len(all_data'["app"]) \in Nat /\ Len(all_data'["server"]) \in Nat
           /\ Len(part_list'["app"]) \in Nat /\ Len(part_list'["server"]) \in Nat
<1>1. /\ all_data' \in [Sides -> Seq(Datum)] /\ part_list' \in [Sides -> Seq(Partitioner)]
    BY DEF Typed
<1>2. "app" \in Sides /\ "server" \in Sides
    BY DEF Sides
<1> QED BY <1>1, <1>2

\* What is older than a datum is older than those after it.
LEMMA OlderStays ==
    ASSUME MineOK, Forward, NEW d \in Int, NEW g \in Int, NEW n \in Int, g <= n, Older(d, g)
    PROVE  Older(d, n)'
<1>1. CASE d = 0
    BY <1>1 DEF Older
<1>2. CASE \E j \in DOMAIN mine.data : d < mine.data[j] /\ mine.data[j] < g
    <2>1. PICK j \in DOMAIN mine.data : d < mine.data[j] /\ mine.data[j] < g
        BY <1>2
    <2>2. j \in DOMAIN mine'.data /\ mine'.data[j] = mine.data[j] /\ mine.data[j] \in Int
        BY DEF Forward, MineOK, DataKeys
    <2>3. d < mine'.data[j] /\ mine'.data[j] < n
        BY <2>1, <2>2
    <2> QED BY <2>2, <2>3 DEF Older
<1> QED BY <1>1, <1>2 DEF Older

\* A call that names what is there in time still does.
LEMMA GoodStays ==
    ASSUME MQInv, MQInv', Forward, NEW t \in {Main, AppIo}, NEW c \in Calls,
           CallOK("app", c), Good(t, c)
    PROVE  Good(t, c)'
<1>1. Typed /\ Typed' /\ DataOK /\ MineOK
    BY DEF MQInv, ObjectsOK
<1>2. PICK a, b, e, f \in Nat :
          /\ a = Len(all_data["app"]) /\ b = Len(all_data'["app"])
          /\ e = Len(all_data["server"]) /\ f = Len(all_data'["server"])
          /\ a <= b /\ e <= f
    <2>1. /\ Len(all_data["app"]) \in Nat /\ Len(all_data["server"]) \in Nat
          /\ Len(all_data'["app"]) \in Nat /\ Len(all_data'["server"]) \in Nat
        BY <1>1, ListLengths, ListLengthsNext
    <2>2. Len(all_data["app"]) <= Len(all_data'["app"])
          /\ Len(all_data["server"]) <= Len(all_data'["server"])
        BY DEF Forward
    <2> QED BY <2>1, <2>2
<1>3. \A d, g, n \in Int : g <= n /\ Older(d, g) => Older(d, n)'
    BY <1>1, OlderStays
<1>4. \A g \in DataKeys("app") : ParentOf(g)' = ParentOf(g) /\ ParentOf(g) \in Int
    <2>1. \A g \in DataKeys("app") : ParentOf(g) \in Int
        BY <1>1, SideFacts DEF DataOK, DatumOK, ParentOf, DataKeys
    <2> QED BY <2>1 DEF Forward
<1>5. \A g \in DataKeys("app") : g \in Int
    BY DEF DataKeys
<1>6. GoodLinks(c)'
    <2>1. /\ c.call \in {"set_next", "partition_cascaded"} => c.args[1] \in Int
          /\ c.call \in {"set_next", "set_partition"} => c.args[2] \in Int
        BY DEF CallOK, PartKeys, None
    <2> QED BY <2>1 DEF Good, GoodLinks, Forward
<1>7. ASSUME t = Main PROVE GoodOfMain(c)'
    <2>1. GoodOfMain(c) /\ (EverCut => EverCut')
        BY <1>7 DEF Good, Forward
    <2>2. c.call \in {"child", "data_partitioned"} =>
              EverCut' \/ Older(c.args[1], b)'
        <3>1. c.call \in {"child", "data_partitioned"} =>
                  c.args[1] \in Int /\ (EverCut \/ Older(c.args[1], a))
            BY <1>2, <1>5, <2>1 DEF GoodOfMain, CallOK
        <3> QED BY <1>2, <1>3, <2>1, <3>1
    <2>3. c.call = "data_created" =>
              \/ EverCut'
              \/ ParentOf(c.args[1])' = None
              \/ Older(ParentOf(c.args[1]), c.args[1])'
        <3> SUFFICES ASSUME c.call = "data_created", ~EverCut'
                     PROVE  \/ ParentOf(c.args[1])' = None
                            \/ Older(ParentOf(c.args[1]), c.args[1])'
            OBVIOUS
        <3>1. c.args[1] \in DataKeys("app")
            BY DEF CallOK
        <3>2. PICK p, g \in Int : p = ParentOf(c.args[1]) /\ g = c.args[1]
            BY <1>4, <1>5, <3>1
        <3>3. ParentOf(g)' = p
            BY <1>4, <3>1, <3>2
        <3>4. p = None \/ Older(p, g)
            BY <2>1, <3>2 DEF GoodOfMain
        <3>5. p = None \/ Older(p, g)'
            BY <1>3, <3>4
        <3> QED BY <3>2, <3>3, <3>5 DEF Older
    <2> QED BY <1>2, <2>1, <2>2, <2>3 DEF GoodOfMain, Older
<1>8. ASSUME t = AppIo PROVE GoodOfIo(c)'
    <2>1. GoodOfIo(c) /\ (Cut => Cut')
        BY <1>8 DEF Good, Forward
    <2>2. c.call = "data" => c.args[1] \in Int
        BY DEF CallOK
    <2>3. c.call = "data_created" => c.args[1] \in DataKeys("app")
        BY DEF CallOK
    <2>4. ASSUME c.call \in {"data", "data_created"} PROVE f > 0
        BY <1>2, <2>1, <2>4 DEF GoodOfIo
    <2>5. ASSUME c.call = "data" PROVE c.args[1] < f
        BY <1>2, <2>1, <2>2, <2>5 DEF GoodOfIo
    <2>6. ASSUME c.call = "data_created" PROVE Cut' \/ ParentOf(c.args[1])' < f
        <3>1. Cut \/ ParentOf(c.args[1]) < e
            BY <1>2, <2>1, <2>6 DEF GoodOfIo
        <3>2. ParentOf(c.args[1])' = ParentOf(c.args[1]) /\ ParentOf(c.args[1]) \in Int
            BY <1>4, <2>3, <2>6
        <3> QED BY <1>2, <2>1, <3>1, <3>2
    <2> QED BY <1>2, <2>1, <2>4, <2>5, <2>6 DEF GoodOfIo
<1> QED BY <1>6, <1>7, <1>8 DEF Good

\* An answer still names what the server has.
LEMMA AnswerStays ==
    ASSUME Typed, Typed', Forward, NEW m, MessageOK(m), AnswerOK(m)
    PROVE  AnswerOK(m)'
<1>1. /\ Len(all_data["server"]) \in Nat /\ Len(part_list["server"]) \in Nat
      /\ Len(all_data'["server"]) \in Nat /\ Len(part_list'["server"]) \in Nat
    BY ListLengths, ListLengthsNext
<1>2. /\ Len(all_data["server"]) <= Len(all_data'["server"])
      /\ Len(part_list["server"]) <= Len(part_list'["server"]) /\ (Cut => Cut')
    BY DEF Forward
<1>3. DatumOf(m) \in Int /\ \A r \in PartsOf(m) : r \in Int
    BY NamesAreKeys
<1>4. DatumOf(m) < Len(all_data'["server"])
    BY <1>1, <1>2, <1>3 DEF AnswerOK
<1>5. \A r \in PartsOf(m) : r < Len(part_list'["server"])
    BY <1>1, <1>2, <1>3 DEF AnswerOK
<1>6. m.tag = "DATA_CREATED" => Len(all_data'["server"]) > 0
    BY <1>1, <1>2 DEF AnswerOK
<1> QED BY <1>2, <1>4, <1>5, <1>6 DEF AnswerOK

\* What other threads do leaves the program where it is.
LEMMA ProgramStays ==
    ASSUME OfProgram, UNCHANGED <<todo[Main], mine.data>>, EverCut => EverCut'
    PROVE  OfProgram'
<1>1. PICK n \in Nat : HasMade(n)
    BY DEF OfProgram
<1>2. HasMade(n)'
    BY <1>1 DEF HasMade, Begun, HasCall
<1> QED BY <1>2 DEF OfProgram
-------------------------------------------------------------------------------
(* What the server does *)

\* The count is a number.
LEMMA ServerCounts ==
    Typed => /\ \A n \in Nat : ServerHas(n) \in Nat
             /\ OnWay \in Nat /\ ServerHas(OnWay) \in Nat
BY ServerHasFacts

\* Likewise after a step.
LEMMA ServerCountsNext ==
    Typed' => (/\ \A n \in Nat : ServerHas(n) \in Nat
               /\ OnWay \in Nat /\ ServerHas(OnWay) \in Nat)'
BY ServerCounts, PTL

\* A step of the server that loses nothing.
LEMMA ServerStays ==
    ASSUME MQInv, MQInv', ServerInv,
           UNCHANGED <<all_data["app"], part_list["app"], todo[Main], todo[AppIo], mine>>,
           Len(all_data["server"]) <= Len(all_data["server"])',
           Len(part_list["server"]) <= Len(part_list["server"])',
           Cut => Cut', EverCut' <=> EverCut, ServerHas(OnWay) <= ServerHas(OnWay)',
           \A r \in Int : PartSent(r) => PartSent(r)'
    PROVE  /\ Forward
           /\ Counted' /\ LinksSent' /\ GoodCalls' /\ Increasing' /\ OfProgram'
<1>1. Typed /\ Typed' /\ CallsOK
    BY DEF MQInv
<1>2. Len(all_data["app"]) \in Nat
    BY <1>1, ListLengths
<1>3. Forward
    BY <1>2 DEF Forward, ParentOf, At
<1>4. Counted'
    <2>2. Unsent' = Unsent
        BY DEF Unsent, HeadIs
    <2>3. OneIf(EverCut') = OneIf(EverCut)
        BY DEF OneIf
    <2>4. ServerHas(OnWay) \in Nat /\ ServerHas(OnWay)' \in Nat
        BY <1>1, ServerCounts, ServerCountsNext
    <2>6. Len(all_data["app"]) - Unsent + OneIf(EverCut) <= ServerHas(OnWay)
        BY DEF ServerInv, Counted
    <2>7. Unsent \in Int /\ OneIf(EverCut) \in Int
        BY DEF Unsent, OneIf
    <2>8. Len(all_data["app"]) - Unsent + OneIf(EverCut) <= ServerHas(OnWay)'
        BY <1>2, <2>4, <2>6, <2>7
    <2> QED BY <2>2, <2>3, <2>8 DEF Counted
<1>5. LinksSent'
    <2>1. LinksSent
        BY DEF ServerInv
    <2>2. \A r : PartPending(r)' = PartPending(r)
        BY DEF PartPending, HeadIs
    <2>3. /\ \A p \in PartKeys("app") : At(part_list["app"], p).next \in Int
          /\ \A d \in DataKeys("app") : At(all_data["app"], d).partitioner \in Int
          /\ \A i \in DOMAIN mine.part : mine.part[i] \in Int
        <3>1. DataOK /\ NextOK /\ MineOK
            BY DEF MQInv, ObjectsOK
        <3> QED BY <3>1, SideFacts DEF DataOK, DatumOK, NextOK, MineOK, PartKeys, None
    <2> QED BY <2>1, <2>2, <2>3 DEF LinksSent, PartKeys, DataKeys, At
<1>6. GoodCalls'
    <2>1. ASSUME NEW t \in {Main, AppIo}, NEW i \in DOMAIN todo[t] PROVE Good(t, todo[t][i])'
        <3>1. todo[t] \in Seq(Calls) /\ t \in Threads /\ t[1] = "app" /\ todo'[t] = todo[t]
            BY <1>1, SideFacts DEF Typed
        <3>2. PICK c \in Calls : c = todo[t][i]
            BY <3>1
        <3>3. CallOK("app", c)
            BY <1>1, <3>1, <3>2 DEF CallsOK, OKCalls
        <3>4. Good(t, c)
            BY <3>2 DEF ServerInv, GoodCalls
        <3>5. Good(t, c)'
            BY <1>3, <3>3, <3>4, GoodStays
        <3>6. c = todo'[t][i]
            BY <3>1, <3>2
        <3> QED BY <3>5, <3>6 DEF Good, GoodLinks, GoodOfMain, GoodOfIo, Older, ParentOf
    <2>2. \A t \in {Main, AppIo} : DOMAIN todo'[t] = DOMAIN todo[t]
        OBVIOUS
    <2> QED BY <2>1, <2>2 DEF GoodCalls
<1>7. Increasing'
    BY DEF ServerInv, Increasing
<1>8. OfProgram'
    BY ProgramStays DEF ServerInv
<1> QED BY <1>3, <1>4, <1>5, <1>6, <1>7, <1>8

\* The server takes a message: what it will have is what it was to have.
LEMMA ServerTakes ==
    ASSUME MQInv, MQInv', ServerInv, Receive("server")
    PROVE  ServerInv'
<1>1. Typed /\ Typed' /\ MessagesOK /\ DataKnown /\ PartsKnown
    BY DEF MQInv, ServerInv
<1> DEFINE m == Head(queue["server"])
           S == [tag : Tags, body : Body]
<1>2. /\ queue["server"] \in Seq(S) /\ queue["server"] # <<>> /\ todo[ServerIo] = <<>>
      /\ "server" \in Sides /\ "app" \in Sides
    BY <1>1, SideFacts DEF Typed, Receive, ServerIo
<1>3. /\ ToServer \in Seq(S) /\ ToServer # <<>> /\ ToServer[1] = m /\ m \in S
      /\ 1 \in DOMAIN ToServer
    <2> HIDE DEF S
    <2> QED BY <1>2 DEF ToServer
<1>4. MessageOK(m) /\ Resolves("server", m)
    <2>1. MessageOK(m)
        BY <1>1, <1>2, <1>3 DEF MessagesOK, ToServer
    <2>2. KeysResolveAt("server")
        BY <1>1, ServerResolves
    <2> QED BY <1>2, <2>1, <2>2 DEF KeysResolveAt, ServerIo
<1> HIDE DEF m
<1>5. /\ ~Stops("server", m)
      /\ \/ /\ CallsOf("server", m) = <<>> /\ m.tag = "DATA_PARTITIONED"
            /\ Known(all_data["server"], m.body[1].val)
            /\ At(all_data["server"], m.body[1].val).partitioner = m.body[8].val
         \/ \E c \in Calls : CallsOf("server", m) = <<c>> /\ Answering(m, c)
    BY <1>2, <1>3, <1>4, OneAnswer
<1>6. /\ queue' = [queue EXCEPT !["server"] = Tail(queue["server"])]
      /\ todo' = [todo EXCEPT ![ServerIo] = CallsOf("server", m)]
      /\ UNCHANGED <<all_data, part_list, mine>>
    BY <1>5 DEF Receive, m, ServerIo
<1>7. /\ queue'["server"] = Tail(queue["server"]) /\ queue'["app"] = queue["app"]
      /\ todo'[ServerIo] = CallsOf("server", m)
      /\ todo'[Main] = todo[Main] /\ todo'[AppIo] = todo[AppIo]
    BY <1>1, <1>2, <1>6, SideFacts DEF Typed
<1>8. PICK k \in Nat :
          /\ OnWay' = k /\ OnWay = k + 1
          /\ DOMAIN ToServer = 1..(k + 1) /\ DOMAIN ToServer' = 1..k
          /\ \A i \in 1..k : ToServer'[i] = ToServer[i + 1]
    <2> DEFINE q == queue["server"]
               r == Tail(q)
    <2> HIDE DEF S, q
    <2>1. q \in Seq(S) /\ q # <<>>
        BY <1>2 DEF q
    <2>2. /\ r \in Seq(S) /\ Len(r) = Len(q) - 1 /\ Len(q) \in Nat /\ Len(q) > 0
          /\ \A i \in 1..Len(r) : r[i] = q[i + 1]
        BY <2>1, HeadTailProperties
    <2> HIDE DEF r
    <2>3. /\ Len(r) \in Nat /\ Len(q) = Len(r) + 1
          /\ DOMAIN q = 1..(Len(r) + 1) /\ DOMAIN r = 1..Len(r)
          /\ \A i \in 1..Len(r) : r[i] = q[i + 1]
        BY <2>1, <2>2
    <2>4. ToServer = q /\ ToServer' = r
        BY <1>7 DEF ToServer, q, r
    <2>5. OnWay' = Len(r) /\ OnWay = Len(r) + 1
        BY <2>3, <2>4 DEF OnWay
    <2>6. /\ DOMAIN ToServer = 1..(Len(r) + 1) /\ DOMAIN ToServer' = 1..Len(r)
          /\ \A i \in 1..Len(r) : ToServer'[i] = ToServer[i + 1]
        BY <2>3, <2>4
    <2>7. Len(r) \in Nat
        BY <2>3
    <2>8. WITNESS Len(r) \in Nat
    <2> QED BY <2>5, <2>6
<1>9. Cut' = Cut
    BY <1>6 DEF Cut, DataKeys
<1>10. ~HasCall(ServerIo, "set_partition") /\ ~Doomed
       /\ \A names : ~HeadIs(ServerIo, names)
    BY <1>2 DEF HasCall, Doomed, HeadIs
<1>11. /\ HeadIs(ServerIo, {"data", "child"})' <=> m.tag = "DATA_CREATED"
       /\ HasCall(ServerIo, "set_partition")' => m.tag = "DATA_PARTITIONED"
       /\ m.tag = "DATA_PARTITIONED" => Cut \/ HasCall(ServerIo, "set_partition")'
       /\ m.tag = "PARTITION_CREATED" => /\ HeadIs(ServerIo, {"partitioner"})'
                                         /\ Head(todo'[ServerIo]).args[3] = m.body[1].val
       /\ m.tag # "DATA_CREATED" => /\ ~HasCall(ServerIo, "data")'
                                    /\ ~HasCall(ServerIo, "child")'
    <2>1. CASE /\ CallsOf("server", m) = <<>> /\ m.tag = "DATA_PARTITIONED"
               /\ Known(all_data["server"], m.body[1].val)
               /\ At(all_data["server"], m.body[1].val).partitioner = m.body[8].val
        <3>1. m.body[1].val \in Nat /\ m.body[8].val \in Nat
            BY <1>4, <2>1 DEF MessageOK
        <3>2. m.body[1].val \in DataKeys("server") /\ m.body[8].val # None
            BY <2>1, <3>1 DEF Known, DataKeys, None
        <3>3. Cut
            BY <2>1, <3>2 DEF Cut
        <3>4. todo'[ServerIo] = <<>>
            BY <1>7, <2>1
        <3> QED BY <2>1, <3>3, <3>4 DEF HeadIs, HasCall
    <2>2. ASSUME NEW c \in Calls, CallsOf("server", m) = <<c>>, Answering(m, c)
          PROVE  /\ HeadIs(ServerIo, {"data", "child"})' <=> m.tag = "DATA_CREATED"
                 /\ HasCall(ServerIo, "set_partition")' <=> m.tag = "DATA_PARTITIONED"
                 /\ m.tag = "PARTITION_CREATED" =>
                       /\ HeadIs(ServerIo, {"partitioner"})'
                       /\ Head(todo'[ServerIo]).args[3] = m.body[1].val
                 /\ m.tag # "DATA_CREATED" => /\ ~HasCall(ServerIo, "data")'
                                              /\ ~HasCall(ServerIo, "child")'
        <3>1. /\ todo'[ServerIo] # <<>> /\ Head(todo'[ServerIo]) = c
              /\ DOMAIN todo'[ServerIo] = {1} /\ todo'[ServerIo][1] = c
            BY <1>7, <2>2
        <3>2. m.tag \in Tags
            BY <1>3
        <3>3. /\ c.call \in {"data", "child"} <=> m.tag = "DATA_CREATED"
              /\ c.call = "set_partition" <=> m.tag = "DATA_PARTITIONED"
              /\ m.tag = "PARTITION_CREATED" =>
                    c.call = "partitioner" /\ c.args[3] = m.body[1].val
            BY <2>2, <3>2 DEF Answering, Tags
        <3> QED BY <3>1, <3>3 DEF HeadIs, HasCall
    <2> QED BY <1>5, <2>1, <2>2
<1>12. \A n \in 0..k : (~Cut /\ CutsBy(n)') <=> (~Cut /\ CutsBy(n + 1))
    <2> SUFFICES ASSUME NEW n \in 0..k, ~Cut PROVE CutsBy(n)' <=> CutsBy(n + 1)
        OBVIOUS
    <2>1. ASSUME CutsBy(n)' PROVE CutsBy(n + 1)
        <3>1. CASE HasCall(ServerIo, "set_partition")'
            <4>1. 1 \in 1..(k + 1) /\ 1 <= n + 1 /\ ToServer[1].tag = "DATA_PARTITIONED"
                BY <1>3, <1>11, <3>1
            <4> QED BY <1>8, <4>1 DEF CutsBy
        <3>2. CASE \E j \in 1..k : j <= n /\ ToServer'[j].tag = "DATA_PARTITIONED"
            <4>1. PICK j \in 1..k : j <= n /\ ToServer'[j].tag = "DATA_PARTITIONED"
                BY <3>2
            <4>2. j + 1 \in 1..(k + 1) /\ j + 1 <= n + 1
                BY <4>1
            <4>3. ToServer[j + 1].tag = "DATA_PARTITIONED"
                BY <1>8, <4>1
            <4> QED BY <1>8, <4>2, <4>3 DEF CutsBy
        <3> QED BY <1>8, <2>1, <3>1, <3>2 DEF CutsBy
    <2>2. ASSUME CutsBy(n + 1) PROVE CutsBy(n)'
        <3>1. PICK j \in 1..(k + 1) : j <= n + 1 /\ ToServer[j].tag = "DATA_PARTITIONED"
            BY <1>8, <1>10, <2>2 DEF CutsBy
        <3>2. CASE j = 1
            BY <1>3, <1>11, <3>1, <3>2 DEF CutsBy
        <3>3. CASE j > 1
            <4>1. PICK i \in 1..k : i <= n /\ j = i + 1
                <5>1. j - 1 \in 1..k /\ j - 1 <= n /\ j = (j - 1) + 1
                    BY <3>1, <3>3
                <5> QED BY <5>1
            <4>2. ToServer'[i].tag = "DATA_PARTITIONED"
                BY <1>8, <3>1, <4>1
            <4> QED BY <1>8, <4>1, <4>2 DEF CutsBy
        <3> QED BY <3>2, <3>3
    <2> QED BY <2>1, <2>2
<1>13. EverCut' <=> EverCut
    <2>1. k \in 0..k
        OBVIOUS
    <2> QED BY <1>8, <1>9, <1>12, <2>1 DEF EverCut
<1>14. \A n \in 0..k : ServerHas(n)' = ServerHas(n + 1)
    <2> SUFFICES ASSUME NEW n \in 0..k PROVE ServerHas(n)' = ServerHas(n + 1)
        OBVIOUS
    <2> DEFINE e == OneIf(m.tag = "DATA_CREATED")
               f == OneIf(~Cut /\ CutsBy(n + 1))
               a == Len(all_data["server"])
               d == CreatedIn(ToServer', n)
    <2>1. CreatedIn(ToServer, n + 1) = d + e
        <3>1. n \in Nat /\ \A j \in 1..n : ToServer'[j] = ToServer[j + 1]
            BY <1>8
        <3> QED BY <1>3, <3>1, CreatedRest
    <2>2. ServerHas(n)' = a + e + f + d
        <3>1. OneIf(HeadIs(ServerIo, {"data", "child"})') = e
            BY <1>11 DEF OneIf
        <3>2. OneIf(~Cut' /\ CutsBy(n)') = f
            BY <1>9, <1>12 DEF OneIf
        <3>3. Len(all_data'["server"]) = a
            BY <1>6
        <3> HIDE DEF e, f, a, d
        <3>4. ServerHas(n)' = Len(all_data'["server"])
                              + OneIf(HeadIs(ServerIo, {"data", "child"})')
                              + OneIf(~Cut' /\ CutsBy(n)') + CreatedIn(ToServer', n)
            BY DEF ServerHas
        <3> QED BY <3>1, <3>2, <3>3, <3>4 DEF d
    <2>3. ServerHas(n + 1) = a + 0 + f + (d + e)
        <3>1. OneIf(HeadIs(ServerIo, {"data", "child"})) = 0
            BY <1>10 DEF OneIf
        <3> HIDE DEF e, d
        <3> QED BY <2>1, <3>1 DEF ServerHas
    <2>4. a \in Int /\ d \in Int /\ e \in Int /\ f \in Int
        BY <1>1, ListLengths, CreatedNext DEF OneIf
    <2> HIDE DEF a, d, e, f
    <2> QED BY <2>2, <2>3, <2>4
<1>15. \A n \in 0..k : \A r : ServerHasPart(n + 1, r) => ServerHasPart(n, r)'
    <2> SUFFICES ASSUME NEW n \in 0..k, NEW r, ServerHasPart(n + 1, r)
                 PROVE  ServerHasPart(n, r)'
        OBVIOUS
    <2>1. CASE r = None \/ r < Len(part_list["server"])
        BY <1>6, <2>1 DEF ServerHasPart
    <2>2. CASE \E j \in 1..(k + 1) : /\ j <= n + 1 /\ ToServer[j].tag = "PARTITION_CREATED"
                                     /\ ToServer[j].body[1].val = r
        <3>1. PICK j \in 1..(k + 1) : /\ j <= n + 1 /\ ToServer[j].tag = "PARTITION_CREATED"
                                      /\ ToServer[j].body[1].val = r
            BY <2>2
        <3>2. CASE j = 1
            BY <1>3, <1>11, <3>1, <3>2 DEF ServerHasPart
        <3>3. CASE j > 1
            <4>1. PICK i \in 1..k : i <= n /\ j = i + 1
                <5>1. j - 1 \in 1..k /\ j - 1 <= n /\ j = (j - 1) + 1
                    BY <3>1, <3>3
                <5> QED BY <5>1
            <4>2. ToServer'[i].tag = "PARTITION_CREATED" /\ ToServer'[i].body[1].val = r
                BY <1>8, <3>1, <4>1
            <4> QED BY <1>8, <4>1, <4>2 DEF ServerHasPart
        <3> QED BY <3>2, <3>3
    <2> QED BY <1>8, <1>10, <2>1, <2>2 DEF ServerHasPart
<1>16. /\ Forward
       /\ Counted' /\ LinksSent' /\ GoodCalls' /\ Increasing' /\ OfProgram'
    <2>1. k \in 0..k
        OBVIOUS
    <2>2. ServerHas(OnWay)' = ServerHas(OnWay)
        <3>1. ServerHas(k)' = ServerHas(k + 1)
            BY <1>14, <2>1
        <3> QED BY <1>8, <3>1 DEF ServerHas
    <2>3. \A r : PartSent(r) => PartSent(r)'
        <3>1. \A r : ServerHasPart(k + 1, r) => ServerHasPart(k, r)'
            BY <1>15, <2>1
        <3> QED BY <1>8, <3>1 DEF PartSent, ServerHasPart
    <2>4. ServerHas(OnWay) \in Nat
        BY <1>1, ServerCounts
    <2>5. /\ Len(all_data["server"]) <= Len(all_data["server"])'
          /\ Len(part_list["server"]) <= Len(part_list["server"])'
        BY <1>1, <1>6, ListLengths
    <2> QED BY <1>6, <1>7, <1>9, <1>13, <2>2, <2>3, <2>4, <2>5, ServerStays
<1>17. DataKnown' /\ PartsKnown'
    <2> SUFFICES ASSUME NEW i \in 1..k
                 PROVE  /\ DatumOf(ToServer'[i]) < ServerHas(i - 1)'
                        /\ \A r \in PartsOf(ToServer'[i]) : ServerHasPart(i - 1, r)'
        BY <1>8 DEF DataKnown, PartsKnown, DatumOf, PartsOf
    <2>1. i + 1 \in DOMAIN ToServer /\ ToServer'[i] = ToServer[i + 1]
        BY <1>8
    <2>2. PICK n \in 0..k : i = n + 1
        <3>1. i - 1 \in 0..k /\ i = (i - 1) + 1
            OBVIOUS
        <3> QED BY <3>1
    <2>3. n = i - 1 /\ n + 1 = (i + 1) - 1
        BY <2>2
    <2>4. /\ DatumOf(ToServer[i + 1]) < ServerHas(n + 1)
          /\ \A r \in PartsOf(ToServer[i + 1]) : ServerHasPart(n + 1, r)
        BY <1>1, <2>1, <2>3 DEF DataKnown, PartsKnown
    <2>5. /\ DatumOf(ToServer'[i]) < ServerHas(n)'
          /\ \A r \in PartsOf(ToServer'[i]) : ServerHasPart(n, r)'
        BY <1>14, <1>15, <2>1, <2>4
    <2> QED BY <2>3, <2>5
<1>18. Answers'
    <2>1. \A i \in DOMAIN queue["app"] : AnswerOK(queue["app"][i])'
        BY <1>6, <1>7, <1>9 DEF ServerInv, Answers, AnswerOK
    <2> QED BY <1>7, <2>1 DEF Answers, AnswerOK
<1>19. FirstIsMine'
    <2>1. FirstIsMine
        BY DEF ServerInv
    <2>2. NoData' = NoData
        BY <1>6 DEF NoData
    <2>3. ASSUME NoData
          PROVE  /\ Len(all_data'["server"]) = 0
                 /\ ~HasCall(ServerIo, "data")' /\ ~HasCall(ServerIo, "child")'
                 /\ \A j \in 1..k : ToServer'[j].tag # "DATA_CREATED"
        <3>1. \A j \in 1..(k + 1) : ToServer[j].tag # "DATA_CREATED"
            BY <1>8, <2>1, <2>3 DEF FirstIsMine
        <3>2. \A j \in 1..k : j + 1 \in 1..(k + 1)
            OBVIOUS
        <3>3. m.tag # "DATA_CREATED"
            BY <1>3, <1>8, <3>1
        <3> QED BY <1>6, <1>8, <1>11, <2>1, <2>3, <3>1, <3>2, <3>3 DEF FirstIsMine
    <2> QED BY <1>6, <1>8, <2>1, <2>2, <2>3 DEF FirstIsMine
<1> QED BY <1>16, <1>17, <1>18, <1>19 DEF ServerInv

\* A process that stops at an assertion or a null.
LEMMA StoppedStays ==
    ASSUME MQInv, MQInv', ServerInv, Stopped
    PROVE  ServerInv'
<1>1. Typed /\ Typed' /\ MessagesOK
    BY DEF MQInv
<1>2. /\ ToServer' = ToServer /\ OnWay' = OnWay
      /\ Cut' = Cut /\ EverCut' = EverCut
      /\ \A n : ServerHas(n)' = ServerHas(n)
      /\ \A n, r : ServerHasPart(n, r)' = ServerHasPart(n, r)
      /\ \A r : PartSent(r)' = PartSent(r)
    BY UnseenByServer DEF Stopped
<1>3. Forward /\ Counted' /\ LinksSent' /\ GoodCalls' /\ Increasing' /\ OfProgram'
    <2>1. ServerHas(OnWay) \in Nat /\ ServerHas(OnWay)' = ServerHas(OnWay)
        BY <1>1, <1>2, ServerCounts DEF ServerHas
    <2>2. /\ Len(all_data["server"]) <= Len(all_data["server"])'
          /\ Len(part_list["server"]) <= Len(part_list["server"])'
        BY <1>1, ListLengths DEF Stopped
    <2>3. UNCHANGED <<all_data["app"], part_list["app"], todo[Main], todo[AppIo], mine>>
        BY DEF Stopped
    <2>4. /\ Cut => Cut'
          /\ EverCut' <=> EverCut
          /\ ServerHas(OnWay) <= ServerHas(OnWay)'
          /\ \A r \in Int : PartSent(r) => PartSent(r)'
        BY <1>2, <2>1
    <2> QED BY <2>2, <2>3, <2>4, ServerStays
<1>4. DataKnown' /\ PartsKnown'
    BY <1>2 DEF ServerInv, DataKnown, PartsKnown, DatumOf, PartsOf
<1>5. Answers'
    <2>1. queue'["app"] = queue["app"]
        BY DEF Stopped
    <2>2. ASSUME NEW i \in DOMAIN queue["app"], NEW m, m = queue["app"][i] PROVE AnswerOK(m)'
        <3>1. MessageOK(m) /\ AnswerOK(m)
            BY <1>1, <2>2, SideFacts DEF ServerInv, Answers, MessagesOK
        <3> QED BY <1>1, <1>3, <3>1, AnswerStays
    <2>3. \A i \in DOMAIN queue["app"] : AnswerOK(queue["app"][i])'
        BY <2>1, <2>2 DEF AnswerOK, DatumOf, PartsOf
    <2> QED BY <2>1, <2>3 DEF Answers
<1>6. FirstIsMine'
    BY <1>2 DEF ServerInv, FirstIsMine, NoData, HasCall, Stopped
<1> QED BY <1>3, <1>4, <1>5, <1>6 DEF ServerInv

\* A step of the server and what it leaves alone.
ServerStep(c, calls) ==
    /\ todo[ServerIo] # <<>> /\ c = Head(todo[ServerIo]) /\ CallOK("server", c)
    /\ After(ServerIo, c, calls)

\* It changes the server only, and its objects grow.
LEMMA ServerStepLeaves ==
    ASSUME MQInv, MQInv', NEW c \in Calls, NEW calls \in Seq(Calls), ServerStep(c, calls)
    PROVE  /\ UNCHANGED <<all_data["app"], part_list["app"], todo[Main], todo[AppIo], mine>>
           /\ ToServer' = ToServer /\ OnWay' = OnWay
           /\ Len(all_data'["server"]) =
                 Len(all_data["server"]) + OneIf(c.call \in {"data", "child"})
           /\ Len(part_list'["server"]) =
                 Len(part_list["server"]) + OneIf(c.call = "partitioner")
           /\ c.call \in Cuts => c.call = "set_partition"
<1>1. Typed /\ Typed'
    BY DEF MQInv
<1>2. ServerIo[1] = "server" /\ Peer("server") = "app" /\ Main \in Threads \ {ServerIo}
      /\ AppIo \in Threads \ {ServerIo} /\ ServerIo # Main
    BY SideFacts
<1>3. /\ all_data'["app"] = all_data["app"] /\ part_list'["app"] = part_list["app"]
      /\ Len(all_data'["server"]) =
            Len(all_data["server"]) + OneIf(c.call \in {"data", "child"})
      /\ Len(part_list'["server"]) = Len(part_list["server"]) + OneIf(c.call = "partitioner")
    BY <1>2 DEF ServerStep, After, DataAfter, PartsAfter
<1>4. todo'[Main] = todo[Main] /\ todo'[AppIo] = todo[AppIo]
    BY <1>2 DEF ServerStep, After, TodoAfter
<1>5. mine' = mine
    <2>1. mine'.data = mine.data /\ mine'.part = mine.part
        BY <1>2 DEF ServerStep, After, MineAfter
    <2>2. /\ mine \in [data : Seq(Int), part : Seq(Int)]
          /\ mine' \in [data : Seq(Int), part : Seq(Int)]
        BY <1>1 DEF Typed
    <2>3. /\ mine = [data |-> mine.data, part |-> mine.part]
          /\ mine' = [data |-> mine'.data, part |-> mine'.part]
        BY <2>2
    <2> QED BY <2>1, <2>3
<1>6. ToServer' = ToServer /\ OnWay' = OnWay
    BY <1>2 DEF ServerStep, After, SentAfter, ToServer, OnWay
<1>7. c.call \in Cuts => c.call = "set_partition"
    BY <1>2 DEF ServerStep, CallOK, Cuts
<1> QED BY <1>3, <1>4, <1>5, <1>6, <1>7

\* When the server has cut a datum.
LEMMA ServerStepCuts ==
    ASSUME MQInv, MQInv', NEW c \in Calls, NEW calls \in Seq(Calls), ServerStep(c, calls)
    PROVE  /\ Cut => Cut'
           /\ Cut' => Cut \/ c.call = "set_partition"
           /\ c.call = "set_partition" => Cut' /\ HasCall(ServerIo, "set_partition")
           /\ HasCall(ServerIo, "set_partition") =>
                 c.call = "set_partition" \/ HasCall(ServerIo, "set_partition")'
           /\ HasCall(ServerIo, "set_partition")' =>
                 HasCall(ServerIo, "set_partition") \/ Cut
           /\ EverCut' <=> EverCut
<1>1. Typed /\ Typed' /\ ServerIo \in Threads /\ ServerIo[1] = "server"
    BY SideFacts DEF MQInv
<1>2. PICK a \in Nat : a = Len(all_data["server"])
    BY <1>1, ListLengths
<1>3. DataKeys("server") = 0..(a - 1)
    BY <1>2 DEF DataKeys
<1>4. /\ a <= Len(all_data'["server"]) /\ Len(all_data'["server"]) <= a + 1
      /\ (c.call \notin {"data", "child"} => Len(all_data'["server"]) = a)
      /\ c.call \in Cuts => c.call = "set_partition"
    <2>1. /\ Len(all_data'["server"]) =
                Len(all_data["server"]) + OneIf(c.call \in {"data", "child"})
          /\ c.call \in Cuts => c.call = "set_partition"
        BY ServerStepLeaves
    <2>2. CASE c.call \in {"data", "child"}
        <3>1. Len(all_data'["server"]) = a + 1
            BY <1>2, <2>1, <2>2 DEF OneIf
        <3> QED BY <2>1, <2>2, <3>1
    <2>3. CASE c.call \notin {"data", "child"}
        <3>1. Len(all_data'["server"]) = a
            <4>1. OneIf(c.call \in {"data", "child"}) = 0
                BY <2>3 DEF OneIf
            <4> QED BY <1>2, <2>1, <4>1
        <3> QED BY <2>1, <2>3, <3>1
    <2> QED BY <2>2, <2>3
<1>5. DataKeys("server")' = 0..(Len(all_data'["server"]) - 1) /\ Len(all_data'["server"]) \in Nat
    BY <1>1, ListLengthsNext DEF DataKeys
<1>6. /\ \A k \in 0..(a - 1) :
            At(all_data'["server"], k).partitioner =
                IF c.call \in Cuts /\ k = First(c) THEN Second(c)
                ELSE At(all_data["server"], k).partitioner
      /\ c.call \in {"data", "child"} => At(all_data'["server"], a).partitioner = None
    BY <1>1, <1>2, <1>3 DEF ServerStep, After, DataAfter
<1>7. c.call \in Cuts => First(c) \in 0..(a - 1) /\ Second(c) # None
    BY <1>1, <1>3 DEF ServerStep, After, CallsAfter, PartKeys, None
<1>8. \A k \in 0..(a - 1) : k \in DataKeys("server")'
    BY <1>2, <1>4, <1>5
<1>9. Cut => Cut'
    <2> SUFFICES ASSUME Cut PROVE Cut'
        OBVIOUS
    <2>1. PICK k \in 0..(a - 1) : At(all_data["server"], k).partitioner # None
        BY <1>3 DEF Cut
    <2>2. At(all_data'["server"], k).partitioner # None
        BY <1>6, <1>7, <2>1
    <2> QED BY <1>8, <2>2 DEF Cut, At
<1>10. c.call = "set_partition" => Cut' /\ HasCall(ServerIo, "set_partition")
    <2> SUFFICES ASSUME c.call = "set_partition"
                 PROVE  Cut' /\ HasCall(ServerIo, "set_partition")
        OBVIOUS
    <2>1. At(all_data'["server"], First(c)).partitioner # None /\ First(c) \in 0..(a - 1)
        BY <1>6, <1>7 DEF Cuts
    <2>2. Cut'
        <3>1. PICK k \in 0..(a - 1) : At(all_data'["server"], k).partitioner # None
            BY <2>1
        <3> QED BY <1>8, <3>1 DEF Cut, At
    <2>3. todo[ServerIo] \in Seq(Calls) /\ todo[ServerIo] # <<>> /\ todo[ServerIo][1] = c
        BY <1>1 DEF ServerStep, Typed
    <2>4. 1 \in DOMAIN todo[ServerIo]
        BY <2>3
    <2> QED BY <2>2, <2>3, <2>4 DEF HasCall
<1>11. Cut' => Cut \/ c.call = "set_partition"
    <2> SUFFICES ASSUME Cut', c.call # "set_partition" PROVE Cut
        OBVIOUS
    <2>1. PICK k \in 0..(Len(all_data'["server"]) - 1) :
              At(all_data'["server"], k).partitioner # None
        BY <1>5 DEF Cut, At
    <2>2. k \in 0..(a - 1)
        <3>1. k = a => c.call \in {"data", "child"}
            BY <1>4, <2>1
        <3> QED BY <1>4, <1>5, <1>6, <2>1, <3>1
    <2>3. At(all_data["server"], k).partitioner # None
        BY <1>4, <1>6, <2>1, <2>2
    <2> QED BY <1>3, <2>2, <2>3 DEF Cut
<1>12. /\ \A i \in DOMAIN todo'[ServerIo] :
             \/ \E j \in DOMAIN calls : todo'[ServerIo][i] = calls[j]
             \/ \E j \in 2..Len(todo[ServerIo]) : todo'[ServerIo][i] = todo[ServerIo][j]
       /\ \A j \in 2..Len(todo[ServerIo]) :
             \E i \in DOMAIN todo'[ServerIo] : todo'[ServerIo][i] = todo[ServerIo][j]
    BY <1>1, CallsThen DEF ServerStep, After
<1>13. todo[ServerIo] \in Seq(Calls) /\ c = todo[ServerIo][1]
       /\ DOMAIN todo[ServerIo] = 1..Len(todo[ServerIo]) /\ Len(todo[ServerIo]) \in Nat
    BY <1>1 DEF ServerStep, Typed
<1>14. HasCall(ServerIo, "set_partition") =>
           c.call = "set_partition" \/ HasCall(ServerIo, "set_partition")'
    <2> SUFFICES ASSUME HasCall(ServerIo, "set_partition"), c.call # "set_partition"
                 PROVE  HasCall(ServerIo, "set_partition")'
        OBVIOUS
    <2>1. PICK j \in DOMAIN todo[ServerIo] : todo[ServerIo][j].call = "set_partition"
        BY DEF HasCall
    <2>2. j \in 2..Len(todo[ServerIo])
        BY <1>13, <2>1
    <2>3. PICK i \in DOMAIN todo'[ServerIo] : todo'[ServerIo][i] = todo[ServerIo][j]
        BY <1>12, <2>2
    <2> QED BY <2>1, <2>3 DEF HasCall
<1>15. HasCall(ServerIo, "set_partition")' => HasCall(ServerIo, "set_partition") \/ Cut
    <2> SUFFICES ASSUME HasCall(ServerIo, "set_partition")'
                 PROVE  HasCall(ServerIo, "set_partition") \/ Cut
        OBVIOUS
    <2>1. PICK i \in DOMAIN todo'[ServerIo] : todo'[ServerIo][i].call = "set_partition"
        BY DEF HasCall
    <2>2. CASE \E j \in 2..Len(todo[ServerIo]) : todo'[ServerIo][i] = todo[ServerIo][j]
        <3>1. PICK j \in 2..Len(todo[ServerIo]) : todo'[ServerIo][i] = todo[ServerIo][j]
            BY <2>2
        <3>2. j \in DOMAIN todo[ServerIo]
            BY <1>13
        <3> QED BY <2>1, <3>1, <3>2 DEF HasCall
    <2>3. CASE \E j \in DOMAIN calls : todo'[ServerIo][i] = calls[j]
        <3>1. PICK j \in DOMAIN calls : calls[j].call = "set_partition"
            BY <2>1, <2>3
        <3>2. c.call = "data_partitioned"
            BY <1>1, <3>1 DEF ServerStep, After, CallsAfter, Makes
        <3>3. /\ c.args[1] \in DataKeys("server")
              /\ At(all_data["server"], c.args[1]).partitioner \in PartKeys("server")
            BY <3>2 DEF ServerStep, CallOK
        <3> QED BY <3>3 DEF Cut, PartKeys, None
    <2> QED BY <1>12, <2>1, <2>2, <2>3
<1>16. EverCut' <=> EverCut
    <2>1. ToServer' = ToServer /\ OnWay' = OnWay
        BY ServerStepLeaves
    <2>2. CutsBy(OnWay)' <=>
              \/ HasCall(ServerIo, "set_partition")'
              \/ \E j \in DOMAIN ToServer : j <= OnWay /\ ToServer[j].tag = "DATA_PARTITIONED"
        BY <2>1 DEF CutsBy
    <2> QED BY <1>9, <1>10, <1>11, <1>14, <1>15, <2>1, <2>2 DEF EverCut, CutsBy
<1> QED BY <1>9, <1>10, <1>11, <1>14, <1>15, <1>16

\* The server does not have fewer data to come than before: it makes the one it is
\* about to make, and a child when it first cuts.
LEMMA ServerStepCounts ==
    ASSUME MQInv, MQInv', NEW c \in Calls, NEW calls \in Seq(Calls), ServerStep(c, calls),
           NEW n \in Nat
    PROVE  ServerHas(n) <= ServerHas(n)'
<1>1. Typed /\ Typed' /\ ServerIo \in Threads /\ ServerIo[1] = "server"
    BY SideFacts DEF MQInv
<1>2. PICK a, b, d \in Nat :
          /\ a = Len(all_data["server"]) /\ b = Len(all_data'["server"])
          /\ d = CreatedIn(ToServer, n)
    BY <1>1, ListLengths, ListLengthsNext, CreatedNext
<1> DEFINE h == OneIf(HeadIs(ServerIo, {"data", "child"}))
           g == OneIf(HeadIs(ServerIo, {"data", "child"})')
           x == OneIf(~Cut /\ CutsBy(n))
           y == OneIf(~Cut' /\ CutsBy(n)')
<1>3. h \in 0..1 /\ g \in 0..1 /\ x \in 0..1 /\ y \in 0..1
    BY DEF OneIf
<1>4. ServerHas(n) = a + h + x + d
    BY <1>2 DEF ServerHas
<1>5. ServerHas(n)' = b + g + y + d
    <2>1. ToServer' = ToServer
        BY ServerStepLeaves
    <2>2. CreatedIn(ToServer', n) = d
        BY <1>2, <2>1
    <2> HIDE DEF g, y
    <2>3. ServerHas(n)' = Len(all_data'["server"]) + g + y + CreatedIn(ToServer', n)
        BY DEF ServerHas, g, y
    <2> QED BY <1>2, <2>2, <2>3
<1>6. /\ Cut => Cut'
      /\ Cut' => Cut \/ c.call = "set_partition"
      /\ HasCall(ServerIo, "set_partition") =>
            c.call = "set_partition" \/ HasCall(ServerIo, "set_partition")'
      /\ ToServer' = ToServer
    BY ServerStepCuts, ServerStepLeaves
<1>7. c.call # "set_partition" => x <= y
    <2> SUFFICES ASSUME c.call # "set_partition" PROVE x <= y
        OBVIOUS
    <2>1. ~Cut /\ CutsBy(n) => ~Cut' /\ CutsBy(n)'
        BY <1>6 DEF CutsBy
    <2> QED BY <2>1 DEF OneIf
<1>8. h = OneIf(c.call \in {"data", "child"}) /\ b = a + h
    <2>1. h = OneIf(c.call \in {"data", "child"})
        BY DEF ServerStep, HeadIs, OneIf
    <2>2. Len(all_data'["server"]) =
              Len(all_data["server"]) + OneIf(c.call \in {"data", "child"})
        BY ServerStepLeaves
    <2> QED BY <1>2, <2>1, <2>2
<1> HIDE DEF h, g, x, y
<1>9. CASE c.call # "set_partition"
    <2>1. \A p, q, i, j \in 0..1 : i <= j => a + p + i + d <= (a + p) + q + j + d
        OBVIOUS
    <2>2. a + h + x + d <= (a + h) + g + y + d
        BY <1>3, <1>7, <1>9, <2>1
    <2> QED BY <1>4, <1>5, <1>8, <2>2
<1>10. CASE c.call = "set_partition"
    <2>1. calls # <<>> /\ calls[1].call = "child"
        BY <1>10 DEF ServerStep, After, CallsAfter, Cuts
    <2>2. todo'[ServerIo] # <<>> /\ Head(todo'[ServerIo]) = calls[1]
        BY <1>1, <2>1, CallsThen DEF ServerStep, After
    <2>3. HeadIs(ServerIo, {"data", "child"})'
        BY <2>1, <2>2 DEF HeadIs
    <2>4. h = 0 /\ g = 1
        BY <1>8, <1>10, <2>3 DEF OneIf, g
    <2>5. \A i, j \in 0..1 : a + 0 + i + d <= (a + 0) + 1 + j + d
        OBVIOUS
    <2>6. a + h + x + d <= (a + h) + g + y + d
        BY <1>3, <2>4, <2>5
    <2> QED BY <1>4, <1>5, <1>8, <2>6
<1> QED BY <1>9, <1>10

\* Nor fewer partitioners, unless it is to stop.
LEMMA ServerStepParts ==
    ASSUME MQInv, MQInv', NEW c \in Calls, NEW calls \in Seq(Calls), ServerStep(c, calls),
           NEW n \in Nat, NEW r \in Int, ServerHasPart(n, r)
    PROVE  ServerHasPart(n, r)'
<1>1. Typed /\ Typed' /\ ServerIo \in Threads /\ ServerIo[1] = "server"
    BY SideFacts DEF MQInv
<1>2. PICK a, b \in Nat : a = Len(part_list["server"]) /\ b = Len(part_list'["server"])
    BY <1>1, ListLengths, ListLengthsNext
<1>3. Len(part_list'["server"]) = Len(part_list["server"]) + OneIf(c.call = "partitioner")
    BY ServerStepLeaves
<1>4. a <= b /\ (c.call = "partitioner" => b = a + 1)
    <2>1. OneIf(c.call = "partitioner") \in 0..1
          /\ (c.call = "partitioner" => OneIf(c.call = "partitioner") = 1)
        BY DEF OneIf
    <2> QED BY <1>2, <1>3, <2>1
<1>5. /\ \A j \in DOMAIN calls : \E i \in DOMAIN todo'[ServerIo] : todo'[ServerIo][i] = calls[j]
      /\ \A j \in 2..Len(todo[ServerIo]) :
            \E i \in DOMAIN todo'[ServerIo] : todo'[ServerIo][i] = todo[ServerIo][j]
    BY <1>1, CallsThen DEF ServerStep, After
<1>6. CASE r = None
    BY <1>6 DEF ServerHasPart
<1>7. CASE r < Len(part_list["server"])
    <2>1. r < Len(part_list'["server"])
        BY <1>2, <1>4, <1>7
    <2> QED BY <2>1 DEF ServerHasPart
<1>8. CASE Doomed
    <2>1. PICK i \in DOMAIN todo[ServerIo] :
              /\ todo[ServerIo][i].call = "assert_key"
              /\ todo[ServerIo][i].args[1] \notin {None, todo[ServerIo][i].args[2]}
        BY <1>8 DEF Doomed
    <2>2. todo[ServerIo] \in Seq(Calls) /\ c = todo[ServerIo][1]
        BY <1>1 DEF ServerStep, Typed
    <2>3. i # 1
        BY <2>1, <2>2 DEF ServerStep, After, CallsAfter
    <2>4. i \in 2..Len(todo[ServerIo])
        BY <2>1, <2>2, <2>3
    <2>5. PICK j \in DOMAIN todo'[ServerIo] : todo'[ServerIo][j] = todo[ServerIo][i]
        BY <1>5, <2>4
    <2>6. Doomed'
        BY <2>1, <2>5 DEF Doomed
    <2> QED BY <2>6 DEF ServerHasPart
<1>9. CASE HeadIs(ServerIo, {"partitioner"}) /\ Head(todo[ServerIo]).args[3] = r
    <2>1. c.call = "partitioner" /\ c.args[3] = r
        BY <1>9 DEF HeadIs, ServerStep
    <2>2. Len(calls) = 2 /\ calls[2].call = "assert_key" /\ 2 \in DOMAIN calls
        BY <2>1 DEF ServerStep, After, CallsAfter
    <2>3. calls[2].args[1] = r /\ calls[2].args[2] = a
        BY <1>1, <1>2, <2>1, <2>2 DEF ServerStep, After, CallsAfter, Makes
    <2>4. CASE r = a
        <3>1. r < Len(part_list'["server"])
            BY <1>2, <1>4, <2>1, <2>4
        <3> QED BY <3>1 DEF ServerHasPart
    <2>5. CASE r = None
        BY <2>5 DEF ServerHasPart
    <2>6. CASE r \notin {None, a}
        <3>1. PICK i \in DOMAIN todo'[ServerIo] : todo'[ServerIo][i] = calls[2]
            BY <1>5, <2>2
        <3>2. Doomed'
            BY <2>2, <2>3, <2>6, <3>1 DEF Doomed
        <3> QED BY <3>2 DEF ServerHasPart
    <2> QED BY <2>4, <2>5, <2>6
<1>10. CASE \E j \in DOMAIN ToServer : /\ j <= n /\ ToServer[j].tag = "PARTITION_CREATED"
                                       /\ ToServer[j].body[1].val = r
    <2>1. ToServer' = ToServer
        BY ServerStepLeaves
    <2> QED BY <1>10, <2>1 DEF ServerHasPart
<1> QED BY <1>6, <1>7, <1>8, <1>9, <1>10 DEF ServerHasPart

\* What the server tells the application, it has.
LEMMA ServerStepAnswers ==
    ASSUME MQInv, MQInv', NEW c \in Calls, NEW calls \in Seq(Calls), ServerStep(c, calls),
           Forward, Answers
    PROVE  Answers'
<1>1. Typed /\ Typed' /\ MessagesOK /\ DataOK /\ NextOK
      /\ ServerIo[1] = "server" /\ Peer("server") = "app"
    BY SideFacts DEF MQInv, ObjectsOK
<1>2. PICK a, b, e, f \in Nat :
          /\ a = Len(all_data["server"]) /\ b = Len(all_data'["server"]) /\ a <= b
          /\ e = Len(part_list["server"]) /\ f = Len(part_list'["server"]) /\ e <= f
    <2>1. Len(all_data["server"]) <= Len(all_data'["server"])
          /\ Len(part_list["server"]) <= Len(part_list'["server"])
        BY DEF Forward
    <2> QED BY <1>1, <2>1, ListLengths, ListLengthsNext
<1>3. ASSUME NEW m \in [tag : Tags, body : Body], c.call \in Sends, Tells("server", c, m)
      PROVE  AnswerOK(m)'
    <2>1. CASE c.call = "data_created"
        <3>1. c.args[1] \in 0..(a - 1)
            BY <1>2, <2>1 DEF ServerStep, CallOK, DataKeys
        <3>2. At(all_data["server"], c.args[1]).parent \in -1..(c.args[1] - 1)
            BY <1>1, <1>2, <3>1, SideFacts DEF DataOK, DatumOK, DataKeys
        <3>3. m.tag = "DATA_CREATED" /\ PartsOf(m) = {}
              /\ DatumOf(m) = At(all_data["server"], c.args[1]).parent
            BY <1>3, <2>1 DEF Tells
        <3>4. DatumOf(m) < b /\ b > 0
            BY <1>2, <3>1, <3>2, <3>3
        <3> QED BY <1>2, <3>3, <3>4 DEF AnswerOK
    <2>2. CASE c.call = "partition_defined"
        <3>1. m.tag = "PARTITION_CREATED" /\ PartsOf(m) = {} /\ DatumOf(m) = None
            BY <1>3, <2>2 DEF Tells
        <3> QED BY <1>2, <3>1 DEF AnswerOK, None
    <2>3. CASE c.call = "partition_cascaded"
        <3>1. c.args[1] \in 0..(e - 1)
            BY <1>2, <2>3 DEF ServerStep, CallOK, PartKeys
        <3>2. At(part_list["server"], c.args[1]).next \in -1..(e - 1)
            <4>1. "server" \in Sides /\ PartKeys("server") = 0..(e - 1)
                BY <1>2, SideFacts DEF PartKeys
            <4>2. \/ At(part_list["server"], c.args[1]).next = None
                  \/ At(part_list["server"], c.args[1]).next \in 0..(e - 1)
                BY <1>1, <3>1, <4>1 DEF NextOK
            <4> QED BY <4>2 DEF None
        <3>3. m.tag = "PARTITION_CASCADED" /\ DatumOf(m) = None
              /\ PartsOf(m) = {c.args[1], At(part_list["server"], c.args[1]).next}
            BY <1>3, <2>3 DEF Tells
        <3>4. \A r \in PartsOf(m) : r < f
            BY <1>2, <3>1, <3>2, <3>3
        <3> QED BY <1>2, <3>3, <3>4 DEF AnswerOK, None
    <2>4. CASE c.call = "data_partitioned"
        <3>1. /\ c.args[1] \in 0..(a - 1)
              /\ At(all_data["server"], c.args[1]).partitioner \in 0..(e - 1)
            BY <1>2, <2>4 DEF ServerStep, CallOK, PartKeys, DataKeys
        <3>2. m.tag = "DATA_PARTITIONED" /\ DatumOf(m) = c.args[1]
              /\ PartsOf(m) = {At(all_data["server"], c.args[1]).partitioner}
            BY <1>3, <2>4 DEF Tells
        <3>3. PICK d \in DataKeys("server") : d = c.args[1]
            BY <1>2, <3>1 DEF DataKeys
        <3>4. At(all_data["server"], d).partitioner # None
            <4>1. At(all_data["server"], d).partitioner \in 0..(e - 1)
                BY <3>1, <3>3
            <4> QED BY <4>1 DEF None
        <3>5. Cut
            BY <3>4 DEF Cut
        <3>6. Cut'
            BY <3>5, ServerStepCuts
        <3>7. DatumOf(m) < b /\ \A r \in PartsOf(m) : r < f
            BY <1>2, <3>1, <3>2
        <3> QED BY <1>2, <3>2, <3>6, <3>7 DEF AnswerOK
    <2> QED BY <1>3, <2>1, <2>2, <2>3, <2>4 DEF Sends
<1>4. ASSUME NEW i \in DOMAIN queue["app"], NEW m, m = queue["app"][i] PROVE AnswerOK(m)'
    <2>1. MessageOK(m) /\ AnswerOK(m)
        BY <1>1, <1>4, SideFacts DEF Answers, MessagesOK
    <2> QED BY <1>1, <2>1, AnswerStays
<1>5. CASE c.call \notin Sends
    <2>1. queue'["app"] = queue["app"]
        BY <1>1, <1>5 DEF ServerStep, After, SentAfter
    <2>2. \A i \in DOMAIN queue["app"] : AnswerOK(queue["app"][i])'
        BY <1>4, <2>1 DEF AnswerOK, DatumOf, PartsOf
    <2> QED BY <2>1, <2>2 DEF Answers
<1>6. CASE c.call \in Sends
    <2>1. PICK m \in [tag : Tags, body : Body] :
              queue'["app"] = Append(queue["app"], m) /\ Tells("server", c, m)
        BY <1>1, <1>6 DEF ServerStep, After, SentAfter
    <2> DEFINE q == queue["app"]
               S == [tag : Tags, body : Body]
    <2>2. q \in Seq(S)
        BY <1>1, SideFacts DEF Typed
    <2> HIDE DEF q, S
    <2>3. /\ DOMAIN Append(q, m) = 1..(Len(q) + 1) /\ DOMAIN q = 1..Len(q) /\ Len(q) \in Nat
          /\ \A i \in 1..Len(q) : Append(q, m)[i] = q[i]
          /\ Append(q, m)[Len(q) + 1] = m
        <3>1. m \in S
            BY DEF S
        <3> QED BY <2>2, <3>1, AppendProperties
    <2>4. queue'["app"] = Append(q, m)
        BY <2>1 DEF q
    <2>5. ASSUME NEW i \in 1..(Len(q) + 1), NEW e1, e1 = Append(q, m)[i] PROVE AnswerOK(e1)'
        <3>1. CASE i = Len(q) + 1
            <4>1. e1 = m
                BY <2>3, <2>5, <3>1
            <4>2. AnswerOK(m)'
                BY <1>3, <1>6, <2>1
            <4> QED BY <4>1, <4>2
        <3>2. CASE i # Len(q) + 1
            <4>1. i \in DOMAIN q /\ e1 = q[i]
                BY <2>3, <2>5, <3>2
            <4> QED BY <1>4, <4>1 DEF q
        <3> QED BY <3>1, <3>2
    <2>6. DOMAIN queue'["app"] = 1..(Len(q) + 1)
        BY <2>3, <2>4
    <2>7. \A i \in 1..(Len(q) + 1) : AnswerOK(queue["app"][i])'
        BY <2>4, <2>5 DEF AnswerOK, DatumOf, PartsOf
    <2> QED BY <2>6, <2>7 DEF Answers
<1> QED BY <1>5, <1>6

\* A step of the server.
LEMMA ServerActs ==
    ASSUME MQInv, MQInv', ServerInv, Step(ServerIo)
    PROVE  ServerInv'
<1>1. Typed /\ Typed' /\ MessagesOK /\ ServerIo \in Threads /\ ServerIo[1] = "server"
    BY SideFacts DEF MQInv
<1>2. PICK c \in Calls : c = Head(todo[ServerIo])
    BY <1>1, StepAfter
<1>3. /\ todo[ServerIo] # <<>> /\ CallOK("server", c)
      /\ Stopped \/ \E calls \in Seq(Calls) : After(ServerIo, c, calls)
    BY <1>1, <1>2, StepAfter
<1>4. CASE Stopped
    BY <1>4, StoppedStays
<1>5. ASSUME NEW calls \in Seq(Calls), After(ServerIo, c, calls) PROVE ServerInv'
    <2>1. ServerStep(c, calls)
        BY <1>2, <1>3, <1>5 DEF ServerStep
    <2>2. /\ UNCHANGED <<all_data["app"], part_list["app"], todo[Main], todo[AppIo], mine>>
          /\ ToServer' = ToServer /\ OnWay' = OnWay
          /\ Len(all_data'["server"]) =
                Len(all_data["server"]) + OneIf(c.call \in {"data", "child"})
          /\ Len(part_list'["server"]) =
                Len(part_list["server"]) + OneIf(c.call = "partitioner")
          /\ c.call \in Cuts => c.call = "set_partition"
        BY <2>1, ServerStepLeaves
    <2>3. PICK k \in Nat : k = OnWay /\ DOMAIN ToServer = 1..k
        BY <1>1, ServerHasFacts
    <2>4. ASSUME NEW n \in Nat PROVE ServerHas(n) <= ServerHas(n)'
        BY <2>1, ServerStepCounts
    <2>5. ASSUME NEW n \in Nat, NEW r \in Int, ServerHasPart(n, r) PROVE ServerHasPart(n, r)'
        BY <2>1, <2>5, ServerStepParts
    <2>6. /\ Len(all_data["server"]) <= Len(all_data["server"])'
          /\ Len(part_list["server"]) <= Len(part_list["server"])'
        <3>1. \A b : OneIf(b) \in 0..1
            BY DEF OneIf
        <3>2. \A i \in Nat, j \in 0..1 : i <= i + j
            OBVIOUS
        <3> QED BY <1>1, <2>2, <3>1, <3>2, ListLengths
    <2>7. Forward /\ Counted' /\ LinksSent' /\ GoodCalls' /\ Increasing' /\ OfProgram'
        <3>1. ServerHas(OnWay) <= ServerHas(OnWay)'
            <4>1. ServerHas(k) <= ServerHas(k)'
                BY <2>4
            <4> QED BY <2>2, <2>3, <4>1 DEF ServerHas
        <3>2. \A r \in Int : PartSent(r) => PartSent(r)'
            BY <2>2, <2>3, <2>5 DEF PartSent, ServerHasPart
        <3>3. (Cut => Cut') /\ (EverCut' <=> EverCut)
            BY <2>1, ServerStepCuts
        <3> QED BY <2>2, <2>6, <3>1, <3>2, <3>3, ServerStays
    <2>8. ASSUME NEW i \in 1..k, NEW m, m = ToServer[i]
          PROVE  /\ DatumOf(m) < ServerHas(i - 1)'
                 /\ \A r \in PartsOf(m) : ServerHasPart(i - 1, r)'
        <3>1. MessageOK(m)
            BY <1>1, <2>3, <2>8, SideFacts DEF MessagesOK, ToServer
        <3>2. DatumOf(m) \in Int /\ \A r \in PartsOf(m) : r \in Int
            BY <3>1, NamesAreKeys
        <3>3. PICK n \in Nat : n = i - 1
            <4>1. i - 1 \in Nat
                BY <2>3
            <4> QED BY <4>1
        <3>4. DatumOf(m) < ServerHas(n) /\ \A r \in PartsOf(m) : ServerHasPart(n, r)
            BY <2>3, <2>8, <3>3 DEF ServerInv, DataKnown, PartsKnown
        <3>5. ServerHas(n) \in Nat /\ ServerHas(n)' \in Nat
            BY <1>1, ServerCounts, ServerCountsNext
        <3>6. DatumOf(m) < ServerHas(n)'
            <4>1. ServerHas(n) <= ServerHas(n)'
                BY <2>4
            <4>2. \A x, y, z \in Int : x < y /\ y <= z => x < z
                OBVIOUS
            <4> QED BY <3>2, <3>4, <3>5, <4>1, <4>2
        <3>7. \A r \in PartsOf(m) : ServerHasPart(n, r)'
            BY <2>5, <3>2, <3>4
        <3> QED BY <3>3, <3>6, <3>7
    <2>9. DataKnown' /\ PartsKnown'
        <3>1. DOMAIN ToServer' = 1..k
            BY <2>2, <2>3
        <3>2. \A i \in 1..k : /\ DatumOf(ToServer'[i]) < ServerHas(i - 1)'
                              /\ \A r \in PartsOf(ToServer'[i]) : ServerHasPart(i - 1, r)'
            BY <2>2, <2>8
        <3> QED BY <3>1, <3>2 DEF DataKnown, PartsKnown, DatumOf, PartsOf
    <2>10. Answers'
        BY <2>1, <2>7, ServerStepAnswers DEF ServerInv
    <2>11. FirstIsMine'
        <3>1. FirstIsMine
            BY DEF ServerInv
        <3>2. NoData' = NoData
            BY <2>2 DEF NoData
        <3>3. ASSUME NoData
              PROVE  /\ Len(all_data'["server"]) = 0
                     /\ ~HasCall(ServerIo, "data")' /\ ~HasCall(ServerIo, "child")'
            <4>1. /\ Len(all_data["server"]) = 0
                  /\ ~HasCall(ServerIo, "data") /\ ~HasCall(ServerIo, "child")
                BY <3>1, <3>3 DEF FirstIsMine
            <4>2. /\ todo[ServerIo] \in Seq(Calls) /\ c = todo[ServerIo][1]
                  /\ DOMAIN todo[ServerIo] = 1..Len(todo[ServerIo])
                  /\ Len(todo[ServerIo]) \in Nat /\ 1 \in DOMAIN todo[ServerIo]
                BY <1>1, <1>2, <1>3 DEF Typed
            <4>3. c.call \notin {"data", "child"}
                BY <4>1, <4>2 DEF HasCall
            <4>4. Len(all_data'["server"]) = 0
                BY <2>2, <4>1, <4>3 DEF OneIf
            <4>5. \A i \in DOMAIN todo'[ServerIo] :
                     \/ \E j \in DOMAIN calls : todo'[ServerIo][i] = calls[j]
                     \/ \E j \in 2..Len(todo[ServerIo]) :
                            todo'[ServerIo][i] = todo[ServerIo][j]
                BY <1>1, <1>3, <1>5, CallsThen DEF After
            <4>6. \A j \in DOMAIN calls : calls[j].call \notin {"data", "child"}
                <5>1. c.call \notin Cuts
                    BY <1>1, <1>5, <4>1 DEF After, CallsAfter, DataKeys
                <5> QED BY <1>1, <1>5, <5>1 DEF After, CallsAfter, Makes
            <4>7. \A j \in 2..Len(todo[ServerIo]) :
                      todo[ServerIo][j].call \notin {"data", "child"}
                <5>1. \A j \in 2..Len(todo[ServerIo]) : j \in DOMAIN todo[ServerIo]
                    BY <4>2
                <5> QED BY <4>1, <5>1 DEF HasCall
            <4>8. \A i \in DOMAIN todo'[ServerIo] :
                      todo'[ServerIo][i].call \notin {"data", "child"}
                BY <4>5, <4>6, <4>7
            <4> QED BY <4>4, <4>8 DEF HasCall
        <3> QED BY <2>2, <3>1, <3>2, <3>3 DEF FirstIsMine
    <2> QED BY <2>7, <2>9, <2>10, <2>11 DEF ServerInv
<1> QED BY <1>3, <1>4, <1>5
-------------------------------------------------------------------------------
(* What the application does *)

\* A step of the application and what it names.
AppStep(t, c, calls) ==
    /\ t \in {Main, AppIo} /\ todo[t] # <<>> /\ c = Head(todo[t]) /\ CallOK("app", c)
    /\ Good(t, c)
    /\ c.call = "P.set_next" => c.args[1] \in DOMAIN mine.part /\ c.args[2] \in DOMAIN mine.part
    /\ c.call = "A.set_partition" =>
          c.args[1] \in DOMAIN mine.data /\ c.args[2] \in DOMAIN mine.part
    /\ After(t, c, calls)

\* A step of the application is one of those.
LEMMA AppStepOf ==
    ASSUME MQInv, ServerInv, NEW t \in {Main, AppIo}, Step(t)
    PROVE  \/ Stopped
           \/ \E c \in Calls : \E calls \in Seq(Calls) : AppStep(t, c, calls)
<1>1. Typed /\ t \in Threads /\ t[1] = "app"
    BY SideFacts DEF MQInv
<1>2. PICK c \in Calls : c = Head(todo[t])
    BY <1>1, StepAfter
<1>3. /\ todo[t] # <<>> /\ CallOK("app", c)
      /\ Stopped \/ \E calls \in Seq(Calls) : After(t, c, calls)
    BY <1>1, <1>2, StepAfter
<1>4. Good(t, c)
    <2>1. 1 \in DOMAIN todo[t] /\ c = todo[t][1]
        BY <1>1, <1>2, <1>3 DEF Typed
    <2> QED BY <2>1 DEF ServerInv, GoodCalls
<1>5. /\ c.call = "P.set_next" =>
            c.args[1] \in DOMAIN mine.part /\ c.args[2] \in DOMAIN mine.part
      /\ c.call = "A.set_partition" =>
            c.args[1] \in DOMAIN mine.data /\ c.args[2] \in DOMAIN mine.part
    BY <1>2 DEF Step
<1> QED BY <1>2, <1>3, <1>4, <1>5 DEF AppStep

\* What it changes.
LEMMA AppStepChanges ==
    ASSUME MQInv, MQInv', NEW t, NEW c \in Calls, NEW calls \in Seq(Calls), AppStep(t, c, calls)
    PROVE  /\ UNCHANGED <<queue["app"], all_data["server"], part_list["server"], todo[ServerIo]>>
           /\ t \in Threads /\ t[1] = "app"
           /\ Len(all_data'["app"]) = Len(all_data["app"]) + OneIf(c.call \in {"data", "child"})
           /\ Len(all_data["app"]) <= Len(all_data'["app"])
           /\ \A u \in {Main, AppIo} : u # t => todo'[u] = todo[u]
           /\ c.call \in {"P.set_next", "A.set_partition"} => t = Main
<1>1. /\ t \in Threads /\ t[1] = "app" /\ Peer("app") = "server"
      /\ ServerIo \in Threads \ {t} /\ Main \in Threads /\ AppIo \in Threads
    BY SideFacts DEF AppStep
<1>2. /\ all_data'["server"] = all_data["server"] /\ part_list'["server"] = part_list["server"]
      /\ Len(all_data'["app"]) = Len(all_data["app"]) + OneIf(c.call \in {"data", "child"})
    BY <1>1 DEF AppStep, After, DataAfter, PartsAfter
<1>3. queue'["app"] = queue["app"]
    BY <1>1 DEF AppStep, After, SentAfter
<1>4. todo'[ServerIo] = todo[ServerIo] /\ \A u \in {Main, AppIo} : u # t => todo'[u] = todo[u]
    BY <1>1 DEF AppStep, After, TodoAfter
<1>5. Len(all_data["app"]) <= Len(all_data'["app"])
    <2>1. \A i \in Nat, j \in 0..1 : i <= i + j
        OBVIOUS
    <2>2. Len(all_data["app"]) \in Nat /\ OneIf(c.call \in {"data", "child"}) \in 0..1
        BY ListLengths DEF MQInv, OneIf
    <2> QED BY <1>2, <2>1, <2>2
<1>6. c.call \in {"P.set_next", "A.set_partition"} => t = Main
    BY DEF AppStep, Good, GoodOfIo
<1> QED BY <1>1, <1>2, <1>3, <1>4, <1>5, <1>6

\* What the server will see of it.
LEMMA AppStepSeen ==
    ASSUME MQInv, MQInv', NEW t, NEW c \in Calls, NEW calls \in Seq(Calls), AppStep(t, c, calls)
    PROVE  /\ Cut' = Cut /\ (EverCut => EverCut')
           /\ c.call = "data_partitioned" => EverCut'
           /\ \A r : PartSent(r) => PartSent(r)'
           /\ c.call = "partition_defined" => PartSent(c.args[1])'
           /\ ServerHas(OnWay)' = ServerHas(OnWay) + OneIf(c.call = "data_created")
                                  + (OneIf(EverCut') - OneIf(EverCut))
<1>1. /\ Typed /\ t[1] = "app" /\ Peer("app") = "server"
      /\ UNCHANGED <<all_data["server"], part_list["server"], todo[ServerIo]>>
    BY AppStepChanges, SideFacts DEF MQInv
<1>2. ServerHas(OnWay) \in Nat
    BY <1>1, ServerCounts
<1>3. CASE c.call \notin Sends
    <2>1. queue'["server"] = queue["server"]
        BY <1>1, <1>3 DEF AppStep, After, SentAfter
    <2>2. /\ OnWay' = OnWay /\ Cut' = Cut /\ EverCut' = EverCut
          /\ \A n : ServerHas(n)' = ServerHas(n)
          /\ \A r : PartSent(r)' = PartSent(r)
        BY <1>1, <2>1, UnseenByServer
    <2>3. c.call \notin {"data_partitioned", "partition_defined", "data_created"}
        BY <1>3 DEF Sends
    <2>4. ServerHas(OnWay)' = ServerHas(OnWay)
        BY <2>2 DEF ServerHas
    <2>5. OneIf(c.call = "data_created") = 0 /\ OneIf(EverCut') = OneIf(EverCut)
          /\ OneIf(EverCut) \in Int
        BY <2>2, <2>3 DEF OneIf
    <2>6. \A i, j \in Int : i = i + 0 + (j - j)
        OBVIOUS
    <2>7. ServerHas(OnWay)' = ServerHas(OnWay) + OneIf(c.call = "data_created")
                              + (OneIf(EverCut') - OneIf(EverCut))
        BY <1>2, <2>4, <2>5, <2>6
    <2> QED BY <2>2, <2>3, <2>7
<1>4. CASE c.call \in Sends
    <2>1. PICK m \in [tag : Tags, body : Body] :
              queue'["server"] = Append(queue["server"], m) /\ Tells("app", c, m)
        BY <1>1, <1>4 DEF AppStep, After, SentAfter
    <2>2. /\ Cut' = Cut /\ (EverCut' <=> EverCut \/ m.tag = "DATA_PARTITIONED")
          /\ ServerHas(OnWay)' = ServerHas(OnWay) + OneIf(m.tag = "DATA_CREATED")
                                 + (OneIf(EverCut') - OneIf(EverCut))
          /\ \A r : PartSent(r) => PartSent(r)'
          /\ \A r : m.tag = "PARTITION_CREATED" /\ m.body[1].val = r => PartSent(r)'
        BY <1>1, <2>1, MessageForServer
    <2>3. /\ m.tag = "DATA_CREATED" <=> c.call = "data_created"
          /\ c.call = "data_partitioned" => m.tag = "DATA_PARTITIONED"
          /\ c.call = "partition_defined" =>
                m.tag = "PARTITION_CREATED" /\ m.body[1].val = c.args[1]
        BY <1>4, <2>1 DEF Tells, Sends
    <2>4. OneIf(m.tag = "DATA_CREATED") = OneIf(c.call = "data_created")
        BY <2>3 DEF OneIf
    <2> QED BY <2>2, <2>3, <2>4
<1> QED BY <1>3, <1>4

\* The objects the server names stay known, and the program's objects stay where
\* they are.
LEMMA AppStepForward ==
    ASSUME MQInv, MQInv', NEW t, NEW c \in Calls, NEW calls \in Seq(Calls), AppStep(t, c, calls)
    PROVE  Forward
<1>1. Typed /\ t[1] = "app" /\ UNCHANGED <<all_data["server"], part_list["server"]>>
      /\ Len(all_data["app"]) <= Len(all_data'["app"])
    BY AppStepChanges DEF MQInv
<1>2. (Cut => Cut') /\ (EverCut => EverCut') /\ \A r : PartSent(r) => PartSent(r)'
    BY AppStepSeen
<1>3. \A g \in DataKeys("app") : ParentOf(g)' = ParentOf(g)
    BY <1>1 DEF AppStep, After, DataAfter, ParentOf, At
<1>4. \A i \in DOMAIN mine.data : i \in DOMAIN mine'.data /\ mine'.data[i] = mine.data[i]
    <2>1. mine.data \in Seq(Int) /\ Len(all_data["app"]) \in Int
        BY <1>1, ListLengths DEF Typed
    <2>2. \/ mine'.data = mine.data
          \/ mine'.data = Append(mine.data, Len(all_data["app"]))
        BY DEF AppStep, After, MineAfter
    <2>3. \A q \in Seq(Int) : \A x \in Int : \A i \in DOMAIN q :
              i \in DOMAIN Append(q, x) /\ Append(q, x)[i] = q[i]
        OBVIOUS
    <2> QED BY <2>1, <2>2, <2>3
<1>5. /\ Len(all_data["server"]) <= Len(all_data["server"])'
      /\ Len(part_list["server"]) <= Len(part_list["server"])'
    BY <1>1, ListLengths
<1> QED BY <1>1, <1>2, <1>3, <1>4, <1>5 DEF Forward

\* The counts the argument needs, as numbers.
LEMMA AppCounts ==
    ASSUME MQInv, ServerInv
    PROVE  \E a, s, h \in Nat : \E u \in 0..2 :
              /\ a = Len(all_data["app"]) /\ s = Len(all_data["server"])
              /\ h = ServerHas(OnWay) /\ u = Unsent
              /\ s <= h /\ a - u <= h /\ (EverCut => a - u + 1 <= h)
              /\ (u = 2 => s > 0)
              /\ (HeadIs(Main, {"data_partitioned"}) => u <= 1)
              /\ (HeadIs(AppIo, {"data_partitioned"}) => u <= 1)
              /\ (HeadIs(Main, {"data_partitioned"}) /\ u = 1 => s > 0)
<1>1. Typed
    BY DEF MQInv
<1>2. PICK a, s, h \in Nat :
          a = Len(all_data["app"]) /\ s = Len(all_data["server"]) /\ h = ServerHas(OnWay)
    BY <1>1, ListLengths, ServerCounts
<1>3. PICK u \in 0..2 : u = Unsent
    BY <1>1, ServerHasFacts
<1>4. s <= h
    <2>1. OnWay \in Nat
        BY <1>1, ServerCounts
    <2> QED BY <1>1, <1>2, <2>1, ServerHasFacts
<1>5. a - u <= h /\ (EverCut => a - u + 1 <= h)
    <2>1. a - u + OneIf(EverCut) <= h
        BY <1>2, <1>3 DEF ServerInv, Counted
    <2>2. CASE EverCut
        <3>1. OneIf(EverCut) = 1
            BY <2>2 DEF OneIf
        <3> QED BY <2>1, <3>1
    <2>3. CASE ~EverCut
        <3>1. OneIf(EverCut) = 0
            BY <2>3 DEF OneIf
        <3> QED BY <2>1, <2>3, <3>1
    <2> QED BY <2>2, <2>3
<1>6. HeadIs(AppIo, {"data_created"}) => s > 0
    <2> SUFFICES ASSUME HeadIs(AppIo, {"data_created"}) PROVE s > 0
        OBVIOUS
    <2>1. /\ todo[AppIo] \in Seq(Calls) /\ todo[AppIo] # <<>>
          /\ Head(todo[AppIo]).call = "data_created"
        BY <1>1, SideFacts DEF HeadIs, Typed
    <2>2. 1 \in DOMAIN todo[AppIo] /\ todo[AppIo][1].call = "data_created"
        BY <2>1
    <2>3. Good(AppIo, todo[AppIo][1])
        BY <2>2 DEF ServerInv, GoodCalls
    <2> QED BY <1>2, <2>2, <2>3 DEF Good, GoodOfIo
<1>7. u = OneIf(HeadIs(Main, {"data_created"})) + OneIf(HeadIs(AppIo, {"data_created"}))
    BY <1>3 DEF Unsent
<1>8. /\ HeadIs(Main, {"data_partitioned"}) => ~HeadIs(Main, {"data_created"})
      /\ HeadIs(AppIo, {"data_partitioned"}) => ~HeadIs(AppIo, {"data_created"})
    BY DEF HeadIs
<1>9. (u = 2 => s > 0) /\ (HeadIs(Main, {"data_partitioned"}) /\ u = 1 => s > 0)
    BY <1>6, <1>7, <1>8 DEF OneIf
<1>10. /\ HeadIs(Main, {"data_partitioned"}) => u <= 1
       /\ HeadIs(AppIo, {"data_partitioned"}) => u <= 1
    BY <1>7, <1>8 DEF OneIf
<1> QED BY <1>2, <1>3, <1>4, <1>5, <1>9, <1>10

\* The server has what the application tells it of when it comes to it.
LEMMA AppMessage ==
    ASSUME MQInv, ServerInv, NEW t, NEW c \in Calls, NEW calls \in Seq(Calls),
           AppStep(t, c, calls), c.call \in Sends,
           NEW m \in [tag : Tags, body : Body], Tells("app", c, m)
    PROVE  /\ DatumOf(m) < ServerHas(OnWay)
           /\ \A r \in PartsOf(m) : PartSent(r)
<1>1. Typed /\ DataOK /\ MineOK /\ t \in {Main, AppIo} /\ "app" \in Sides
    BY SideFacts DEF MQInv, ObjectsOK, AppStep
<1>2. PICK a, s, h \in Nat : \E u \in 0..2 :
              /\ a = Len(all_data["app"]) /\ s = Len(all_data["server"])
              /\ h = ServerHas(OnWay) /\ u = Unsent
              /\ s <= h /\ a - u <= h /\ (EverCut => a - u + 1 <= h)
              /\ (u = 2 => s > 0)
              /\ (HeadIs(Main, {"data_partitioned"}) => u <= 1)
              /\ (HeadIs(AppIo, {"data_partitioned"}) => u <= 1)
              /\ (HeadIs(Main, {"data_partitioned"}) /\ u = 1 => s > 0)
    BY AppCounts
<1>3. PICK u \in 0..2 :
              /\ a = Len(all_data["app"]) /\ s = Len(all_data["server"])
              /\ h = ServerHas(OnWay) /\ u = Unsent
              /\ s <= h /\ a - u <= h /\ (EverCut => a - u + 1 <= h)
              /\ (u = 2 => s > 0)
              /\ (HeadIs(Main, {"data_partitioned"}) => u <= 1)
              /\ (HeadIs(AppIo, {"data_partitioned"}) => u <= 1)
              /\ (HeadIs(Main, {"data_partitioned"}) /\ u = 1 => s > 0)
    BY <1>2
<1>3a. s <= h /\ a - u <= h /\ (u = 2 => s > 0) /\ h = ServerHas(OnWay)
    BY <1>3
<1>4. DataKeys("app") = 0..(a - 1)
    BY <1>3 DEF DataKeys
<1>5. \A j \in DOMAIN mine.data : mine.data[j] \in 0..(a - 1)
    BY <1>1, <1>4 DEF MineOK
<1>6. LinksSent /\ Good(t, c) /\ CallOK("app", c)
    BY DEF ServerInv, AppStep
<1>7. CASE c.call = "data_created"
    <2>1. PICK k \in 0..(a - 1) : k = c.args[1]
        BY <1>4, <1>6, <1>7 DEF CallOK
    <2>2. PICK p \in -1..(k - 1) : p = ParentOf(k)
        BY <1>1, <1>4, <2>1 DEF DataOK, DatumOK, ParentOf
    <2>3. DatumOf(m) = p /\ PartsOf(m) = {}
        BY <1>7, <2>1, <2>2 DEF Tells, ParentOf
    <2>4. CASE EverCut
        <3>1. p < h
            <4>1. a - u + 1 <= h
                BY <1>3, <2>4
            <4>2. p + 2 <= a
                OBVIOUS
            <4> QED BY <4>1, <4>2
        <3> QED BY <1>3, <2>3, <3>1
    <2>5. CASE ~EverCut /\ t = Main
        <3>1. p = None \/ Older(p, k)
            BY <1>6, <1>7, <2>1, <2>2, <2>5 DEF Good, GoodOfMain
        <3>2. CASE p = None
            BY <1>3, <2>3, <3>2 DEF None
        <3>3. CASE p = 0
            <4>1. 2 <= a
                BY <3>3
            <4>2. 0 < h
                BY <1>3a, <4>1
            <4> QED BY <1>3a, <2>3, <3>3, <4>2
        <3>4. CASE \E j \in DOMAIN mine.data : p < mine.data[j] /\ mine.data[j] < k
            <4>1. PICK g \in 0..(a - 1) : p < g /\ g < k
                BY <1>5, <3>4
            <4>2. p + 3 <= a
                BY <4>1
            <4>3. p < h
                BY <1>3a, <4>2
            <4> QED BY <1>3a, <2>3, <4>3
        <3> QED BY <3>1, <3>2, <3>3, <3>4 DEF Older
    <2>6. CASE ~EverCut /\ t = AppIo
        <3>1. p < s
            BY <1>3, <1>6, <1>7, <2>1, <2>2, <2>6 DEF Good, GoodOfIo, EverCut
        <3>2. p < h
            BY <1>3, <2>2, <3>1
        <3> QED BY <1>3, <2>3, <3>2
    <2> QED BY <1>1, <2>4, <2>5, <2>6
<1>8. CASE c.call = "partition_defined"
    <2>1. DatumOf(m) = None /\ PartsOf(m) = {}
        BY <1>8 DEF Tells
    <2> QED BY <1>3, <2>1 DEF None
<1>9. CASE c.call = "partition_cascaded"
    <2>1. /\ DatumOf(m) = None
          /\ PartsOf(m) = {c.args[1], At(part_list["app"], c.args[1]).next}
        BY <1>9 DEF Tells
    <2>2. PartSent(c.args[1])
        BY <1>6, <1>9 DEF Good, GoodLinks
    <2>3. PartSent(At(part_list["app"], c.args[1]).next)
        BY <1>6, <1>9 DEF CallOK, LinksSent
    <2> QED BY <1>3, <2>1, <2>2, <2>3 DEF None
<1>10. CASE c.call = "data_partitioned"
    <2>1. PICK d \in 0..(a - 1) : d = c.args[1]
        BY <1>4, <1>6, <1>10 DEF CallOK
    <2>2. DatumOf(m) = d /\ PartsOf(m) = {At(all_data["app"], d).partitioner}
        BY <1>10, <2>1 DEF Tells
    <2>3. PartSent(At(all_data["app"], d).partitioner)
        BY <1>4, <1>6, <2>1 DEF LinksSent
    <2>4. HeadIs(t, {"data_partitioned"})
        BY <1>10 DEF AppStep, HeadIs
    <2>5. u <= 1
        BY <1>1, <1>3, <2>4
    <2>6. CASE EverCut
        <3>1. (a - u) + 1 <= h
            BY <1>3, <2>6
        <3>2. d < h
            <4>1. d \in Int /\ d + 1 <= a
                BY <2>1
            <4> QED BY <2>5, <3>1, <4>1
        <3> QED BY <1>3a, <2>2, <2>3, <3>2
    <2>7. CASE ~EverCut
        <3>1. t = Main
            BY <1>1, <1>6, <1>10, <2>7 DEF Good, GoodOfIo, EverCut
        <3>2. Older(d, a) /\ (u = 1 => s > 0)
            BY <1>3, <1>6, <1>10, <2>1, <2>4, <2>7, <3>1 DEF Good, GoodOfMain
        <3>3. CASE d = 0
            <4>1. d + 1 <= a
                BY <2>1
            <4>2. d < h
                <5>1. CASE u = 0
                    BY <1>3a, <3>3, <4>1, <5>1
                <5>2. CASE u = 1
                    BY <1>3a, <3>2, <3>3, <5>2
                <5> QED BY <2>5, <5>1, <5>2
            <4> QED BY <1>3a, <2>2, <2>3, <4>2
        <3>4. CASE \E j \in DOMAIN mine.data : d < mine.data[j] /\ mine.data[j] < a
            <4>1. PICK g \in 0..(a - 1) : d < g
                BY <1>5, <3>4
            <4>2. d + 2 <= a /\ d \in Int
                BY <2>1, <4>1
            <4>3. d < h
                BY <1>3a, <2>5, <4>2
            <4> QED BY <1>3a, <2>2, <2>3, <4>3
        <3> QED BY <3>2, <3>3, <3>4 DEF Older
    <2> QED BY <2>6, <2>7
<1> QED BY <1>7, <1>8, <1>9, <1>10 DEF Sends

\* So every message on the way still names what the server will have.
LEMMA AppStepKnown ==
    ASSUME MQInv, MQInv', ServerInv, NEW t, NEW c \in Calls, NEW calls \in Seq(Calls),
           AppStep(t, c, calls)
    PROVE  DataKnown' /\ PartsKnown'
<1>1. /\ Typed /\ t[1] = "app" /\ Peer("app") = "server" /\ DataKnown /\ PartsKnown
      /\ UNCHANGED <<all_data["server"], part_list["server"], todo[ServerIo]>>
    BY AppStepChanges, SideFacts DEF MQInv, ServerInv
<1>2. PICK k \in Nat : k = OnWay /\ DOMAIN ToServer = 1..k
    BY <1>1, ServerHasFacts
<1>3. CASE c.call \notin Sends
    <2>1. queue'["server"] = queue["server"]
        BY <1>1, <1>3 DEF AppStep, After, SentAfter
    <2>2. /\ ToServer' = ToServer
          /\ \A n : ServerHas(n)' = ServerHas(n)
          /\ \A n, r : ServerHasPart(n, r)' = ServerHasPart(n, r)
        BY <1>1, <2>1, UnseenByServer
    <2> QED BY <1>1, <2>2 DEF DataKnown, PartsKnown, DatumOf, PartsOf
<1>4. CASE c.call \in Sends
    <2>1. PICK m \in [tag : Tags, body : Body] :
              queue'["server"] = Append(queue["server"], m) /\ Tells("app", c, m)
        BY <1>1, <1>4 DEF AppStep, After, SentAfter
    <2>2. /\ OnWay' = OnWay + 1
          /\ \A i \in 1..OnWay : ToServer'[i] = ToServer[i]
          /\ \A i \in Nat : i = OnWay + 1 => ToServer'[i] = m
          /\ \A n \in 0..OnWay : ServerHas(n)' = ServerHas(n)
          /\ \A n \in 0..OnWay : \A r : ServerHasPart(n, r) => ServerHasPart(n, r)'
        BY <1>1, <2>1, MessageForServer
    <2>3. DatumOf(m) < ServerHas(k) /\ \A r \in PartsOf(m) : ServerHasPart(k, r)
        <3>1. DatumOf(m) < ServerHas(OnWay) /\ \A r \in PartsOf(m) : PartSent(r)
            BY <1>4, <2>1, AppMessage
        <3> QED BY <1>2, <3>1 DEF PartSent
    <2>4. ASSUME NEW i \in 1..(k + 1), NEW e, e = ToServer'[i]
          PROVE  /\ DatumOf(e) < ServerHas(i - 1)'
                 /\ \A r \in PartsOf(e) : ServerHasPart(i - 1, r)'
        <3>1. PICK n \in 0..k : n = i - 1
            <4>1. i - 1 \in 0..k
                OBVIOUS
            <4> QED BY <4>1
        <3>2. DatumOf(e) < ServerHas(n) /\ \A r \in PartsOf(e) : ServerHasPart(n, r)
            <4>1. CASE i = k + 1
                <5>1. e = m /\ n = k
                    BY <1>2, <2>2, <2>4, <3>1, <4>1
                <5> QED BY <2>3, <5>1
            <4>2. CASE i # k + 1
                <5>1. i \in DOMAIN ToServer /\ e = ToServer[i]
                    BY <1>2, <2>2, <2>4, <4>2
                <5> QED BY <1>1, <3>1, <5>1 DEF DataKnown, PartsKnown
            <4> QED BY <4>1, <4>2
        <3>3. DatumOf(e) < ServerHas(n)' /\ \A r \in PartsOf(e) : ServerHasPart(n, r)'
            BY <1>2, <2>2, <3>2
        <3> QED BY <3>1, <3>3
    <2>5. DOMAIN ToServer' = 1..(k + 1)
        <3>1. ToServer' \in Seq([tag : Tags, body : Body])
            <4>1. queue' \in [Sides -> Seq([tag : Tags, body : Body])]
                BY DEF MQInv, Typed
            <4> QED BY <4>1, SideFacts DEF ToServer
        <3>2. DOMAIN ToServer' = 1..Len(ToServer')
            BY <3>1
        <3> QED BY <1>2, <2>2, <3>2 DEF OnWay
    <2>6. \A i \in 1..(k + 1) :
              /\ DatumOf(ToServer'[i]) < ServerHas(i - 1)'
              /\ \A r \in PartsOf(ToServer'[i]) : ServerHasPart(i - 1, r)'
        BY <2>4
    <2> QED BY <2>5, <2>6 DEF DataKnown, PartsKnown, DatumOf, PartsOf
<1> QED BY <1>3, <1>4

\* A datum that is made is not broadcast yet, and one that is broadcast is counted
\* with the messages.
LEMMA AppStepCounted ==
    ASSUME MQInv, MQInv', ServerInv, NEW t, NEW c \in Calls, NEW calls \in Seq(Calls),
           AppStep(t, c, calls)
    PROVE  Counted'
<1>1. /\ Typed /\ Typed' /\ t \in {Main, AppIo} /\ t \in Threads /\ Main # AppIo
      /\ t[1] = "app" /\ \A u \in {Main, AppIo} : u # t => todo'[u] = todo[u]
    BY AppStepChanges, SideFacts DEF MQInv, AppStep
<1>2. PICK a, b, h, i \in Nat :
          /\ a = Len(all_data["app"]) /\ b = Len(all_data'["app"])
          /\ h = ServerHas(OnWay) /\ i = ServerHas(OnWay)'
    BY <1>1, ListLengths, ListLengthsNext, ServerCounts, ServerCountsNext
<1> DEFINE x == OneIf(HeadIs(t, {"data_created"}))
           y == OneIf(HeadIs(t, {"data_created"})')
           o == IF t = Main THEN AppIo ELSE Main
           z == OneIf(HeadIs(o, {"data_created"}))
           e == OneIf(EverCut)
           f == OneIf(EverCut')
           n == OneIf(c.call \in {"data", "child"})
           v == OneIf(c.call = "data_created")
<1>3. /\ x \in 0..1 /\ y \in 0..1 /\ z \in 0..1 /\ e \in 0..1 /\ f \in 0..1
      /\ n \in 0..1 /\ v \in 0..1
    BY DEF OneIf
<1>4. Unsent = x + z
    <2>1. OneIf(HeadIs(Main, {"data_created"})) \in 0..1
          /\ OneIf(HeadIs(AppIo, {"data_created"})) \in 0..1
        BY DEF OneIf
    <2>2. CASE t = Main
        BY <1>1, <2>2 DEF Unsent
    <2>3. CASE t = AppIo
        BY <1>1, <2>1, <2>3 DEF Unsent
    <2> QED BY <1>1, <2>2, <2>3
<1>5. Unsent' = y + z
    <2>1. Unsent' = OneIf(HeadIs(Main, {"data_created"})')
                    + OneIf(HeadIs(AppIo, {"data_created"})')
        BY DEF Unsent, OneIf
    <2>2. OneIf(HeadIs(Main, {"data_created"})') \in 0..1
          /\ OneIf(HeadIs(AppIo, {"data_created"})') \in 0..1
        BY DEF OneIf
    <2>3. CASE t = Main
        <3>1. todo'[AppIo] = todo[AppIo] /\ o = AppIo
            BY <1>1, <2>3
        <3>2. OneIf(HeadIs(AppIo, {"data_created"})') = z
            BY <3>1 DEF HeadIs, OneIf
        <3> HIDE DEF z, o
        <3> QED BY <2>1, <2>3, <3>2
    <2>4. CASE t = AppIo
        <3>1. todo'[Main] = todo[Main] /\ o = Main
            BY <1>1, <2>4
        <3>2. OneIf(HeadIs(Main, {"data_created"})') = z
            BY <3>1 DEF HeadIs, OneIf
        <3> HIDE DEF z, o
        <3> QED BY <2>1, <2>2, <2>4, <3>2
    <2> QED BY <1>1, <2>3, <2>4
<1>6. x = v
    BY DEF AppStep, HeadIs, OneIf
<1>7. n = 0 \/ (y = 1 /\ v = 0)
    <2>1. CASE c.call \in {"data", "child"}
        <3>1. calls # <<>> /\ 1 \in DOMAIN calls
            BY <2>1 DEF AppStep, After, CallsAfter
        <3>2. calls[1].call = "data_created"
            BY <2>1, <3>1 DEF AppStep, After, CallsAfter, Makes, Links, Cuts
        <3>3. todo'[t] # <<>> /\ Head(todo'[t]) = calls[1]
            BY <1>1, <3>1, CallsThen DEF AppStep, After
        <3> QED BY <2>1, <3>2, <3>3 DEF HeadIs, OneIf
    <2>2. CASE c.call \notin {"data", "child"}
        BY <2>2 DEF OneIf
    <2> QED BY <2>1, <2>2
<1>8. b = a + n /\ i = h + v + (f - e)
    BY <1>2, AppStepChanges, AppStepSeen
<1>9. a - (x + z) + e <= h
    BY <1>2, <1>4 DEF ServerInv, Counted
<1>10. Counted' <=> Len(all_data'["app"]) - Unsent' + f <= ServerHas(OnWay)'
    BY DEF Counted, OneIf
<1> HIDE DEF x, y, z, e, f, n, v
<1>11. b - (y + z) + f <= i
    <2>1. \A j, k, l, d, g \in 0..1 :
              a - (j + l) + d <= h => (a + 0) - (k + l) + g <= h + j + (g - d)
        OBVIOUS
    <2>2. \A k, l, d, g \in 0..1 :
              a - (0 + l) + d <= h => (a + k) - (1 + l) + g <= h + 0 + (g - d)
        OBVIOUS
    <2>3. CASE n = 0
        <3>1. (a + 0) - (y + z) + f <= h + x + (f - e)
            BY <1>3, <1>9, <2>1
        <3> QED BY <1>6, <1>8, <2>3, <3>1
    <2>4. CASE y = 1 /\ v = 0
        <3>1. (a + n) - (1 + z) + f <= h + 0 + (f - e)
            BY <1>3, <1>6, <1>9, <2>2, <2>4
        <3> QED BY <1>8, <2>4, <3>1
    <2> QED BY <1>7, <2>3, <2>4
<1> QED BY <1>2, <1>5, <1>10, <1>11

\* The program's own objects: what it names is broadcast.
LEMMA MineSent ==
    ASSUME ServerInv, NEW i \in DOMAIN mine.part, todo[Main] # <<>>,
           Head(todo[Main]).call # "partition_defined"
    PROVE  PartSent(mine.part[i])
BY DEF ServerInv, LinksSent, PartPending, HeadIs

\* What the objects point at is broadcast before it is pointed at.
LEMMA AppStepLinks ==
    ASSUME MQInv, MQInv', ServerInv, NEW t, NEW c \in Calls, NEW calls \in Seq(Calls),
           AppStep(t, c, calls)
    PROVE  LinksSent'
<1>1. /\ Typed /\ Typed' /\ LinksSent /\ Good(t, c) /\ t[1] = "app" /\ t \in {Main, AppIo}
      /\ t \in Threads /\ \A u \in {Main, AppIo} : u # t => todo'[u] = todo[u]
      /\ c.call \in {"P.set_next", "A.set_partition"} => t = Main
    BY AppStepChanges DEF MQInv, ServerInv, AppStep
<1>2. \A r : PartSent(r) => PartSent(r)'
    BY AppStepSeen
<1>3. PartSent(None)'
    BY DEF PartSent, ServerHasPart
<1>4. PICK a, p \in Nat : a = Len(all_data["app"]) /\ p = Len(part_list["app"])
    BY <1>1, ListLengths
<1>5. c.call \in Links \cup Cuts => PartSent(Second(c))
    <2>1. CASE c.call \in {"set_next", "set_partition"}
        BY <1>1, <2>1 DEF Good, GoodLinks, Second
    <2>2. CASE c.call \in {"P.set_next", "A.set_partition"}
        BY <1>1, <2>2, MineSent DEF AppStep, Second
    <2> QED BY <2>1, <2>2 DEF Links, Cuts
<1>6. \A q \in PartKeys("app")' : PartSent(At(part_list["app"], q).next)'
    <2>1. /\ Len(part_list'["app"]) = p + OneIf(c.call = "partitioner")
          /\ \A q \in 0..(p - 1) :
                At(part_list'["app"], q).next =
                    IF c.call \in Links /\ q = First(c) THEN Second(c)
                    ELSE At(part_list["app"], q).next
          /\ c.call = "partitioner" => At(part_list'["app"], p).next = None
        BY <1>1, <1>4 DEF AppStep, After, PartsAfter, PartKeys
    <2>2. ASSUME NEW q \in 0..(p - 1), NEW r, r = At(part_list'["app"], q).next
          PROVE  PartSent(r)'
        <3>1. CASE c.call \in Links /\ q = First(c)
            BY <1>2, <1>5, <2>1, <2>2, <3>1
        <3>2. CASE ~(c.call \in Links /\ q = First(c))
            <4>1. r = At(part_list["app"], q).next
                BY <2>1, <2>2, <3>2
            <4>2. PartSent(r)
                BY <1>1, <1>4, <4>1 DEF LinksSent, PartKeys
            <4> QED BY <1>2, <4>2
        <3> QED BY <3>1, <3>2
    <2>3. PartKeys("app")' = 0..((p + OneIf(c.call = "partitioner")) - 1)
        <3>1. PartKeys("app")' = 0..(Len(part_list'["app"]) - 1)
            BY DEF PartKeys
        <3> QED BY <2>1, <3>1, Zenon
    <2>4. ASSUME NEW q \in 0..((p + OneIf(c.call = "partitioner")) - 1),
                 NEW r, r = At(part_list'["app"], q).next
          PROVE  PartSent(r)'
        <3>1. CASE q \in 0..(p - 1)
            BY <2>2, <2>4, <3>1
        <3>2. CASE q \notin 0..(p - 1)
            <4>1. q = p /\ c.call = "partitioner"
                <5>1. CASE c.call = "partitioner"
                    BY <3>2, <5>1 DEF OneIf
                <5>2. CASE c.call # "partitioner"
                    BY <3>2, <5>2 DEF OneIf
                <5> QED BY <5>1, <5>2
            <4> QED BY <1>3, <2>1, <2>4, <4>1
        <3> QED BY <3>1, <3>2
    <2> QED BY <2>3, <2>4 DEF PartSent, ServerHasPart
<1>7. \A d \in DataKeys("app")' : PartSent(At(all_data["app"], d).partitioner)'
    <2>1. /\ Len(all_data'["app"]) = a + OneIf(c.call \in {"data", "child"})
          /\ \A d \in 0..(a - 1) :
                At(all_data'["app"], d).partitioner =
                    IF c.call \in Cuts /\ d = First(c) THEN Second(c)
                    ELSE At(all_data["app"], d).partitioner
          /\ c.call \in {"data", "child"} => At(all_data'["app"], a).partitioner = None
        BY <1>1, <1>4 DEF AppStep, After, DataAfter, DataKeys
    <2>2. ASSUME NEW d \in 0..(a - 1), NEW r, r = At(all_data'["app"], d).partitioner
          PROVE  PartSent(r)'
        <3>1. CASE c.call \in Cuts /\ d = First(c)
            BY <1>2, <1>5, <2>1, <2>2, <3>1
        <3>2. CASE ~(c.call \in Cuts /\ d = First(c))
            <4>1. r = At(all_data["app"], d).partitioner
                BY <2>1, <2>2, <3>2
            <4>2. PartSent(r)
                BY <1>1, <1>4, <4>1 DEF LinksSent, DataKeys
            <4> QED BY <1>2, <4>2
        <3> QED BY <3>1, <3>2
    <2>3. DataKeys("app")' = 0..((a + OneIf(c.call \in {"data", "child"})) - 1)
        <3>1. DataKeys("app")' = 0..(Len(all_data'["app"]) - 1)
            BY DEF DataKeys
        <3> QED BY <2>1, <3>1, Zenon
    <2>4. ASSUME NEW d \in 0..((a + OneIf(c.call \in {"data", "child"})) - 1),
                 NEW r, r = At(all_data'["app"], d).partitioner
          PROVE  PartSent(r)'
        <3>1. CASE d \in 0..(a - 1)
            BY <2>2, <2>4, <3>1
        <3>2. CASE d \notin 0..(a - 1)
            <4>1. d = a /\ c.call \in {"data", "child"}
                <5>1. CASE c.call \in {"data", "child"}
                    <6>1. OneIf(c.call \in {"data", "child"}) = 1
                        BY <5>1 DEF OneIf
                    <6> QED BY <3>2, <5>1, <6>1
                <5>2. CASE c.call \notin {"data", "child"}
                    <6>1. OneIf(c.call \in {"data", "child"}) = 0
                        BY <5>2 DEF OneIf
                    <6> QED BY <3>2, <6>1
                <5> QED BY <5>1, <5>2
            <4> QED BY <1>3, <2>1, <2>4, <4>1
        <3> QED BY <3>1, <3>2
    <2> QED BY <2>3, <2>4 DEF PartSent, ServerHasPart
<1>8. \A i \in DOMAIN mine'.part : PartSent(mine.part[i])' \/ PartPending(mine.part[i])'
    <2>1. ASSUME NEW i \in DOMAIN mine.part, NEW r, r = mine.part[i]
          PROVE  PartSent(r)' \/ PartPending(r)'
        <3>1. CASE PartSent(r)
            BY <1>2, <3>1
        <3>2. CASE PartPending(r) /\ t = Main
            <4>1. c.call = "partition_defined" /\ c.args[1] = r
                BY <3>2 DEF PartPending, HeadIs, AppStep
            <4>2. c.call = "partition_defined" => PartSent(c.args[1])'
                BY AppStepSeen
            <4> QED BY <4>1, <4>2
        <3>3. CASE PartPending(r) /\ t # Main
            <4>1. todo'[Main] = todo[Main]
                BY <1>1, <3>3
            <4> QED BY <3>3, <4>1 DEF PartPending, HeadIs
        <3> QED BY <1>1, <2>1, <3>1, <3>2, <3>3 DEF LinksSent
    <2>2. CASE t = Main /\ c.call = "partitioner"
        <3>1. mine'.part = Append(mine.part, p) /\ mine.part \in Seq(Int) /\ p \in Int
            BY <1>1, <1>4, <2>2 DEF AppStep, After, MineAfter, Typed
        <3>2. Len(calls) = 2 /\ calls[1].call = "partition_defined"
            BY <2>2 DEF AppStep, After, CallsAfter
        <3>3. calls # <<>> /\ 1 \in DOMAIN calls
            <4>1. DOMAIN calls = 1..2
                BY <3>2
            <4>2. 1 \in DOMAIN calls
                BY <4>1
            <4>3. DOMAIN <<>> = {}
                OBVIOUS
            <4> QED BY <4>2, <4>3
        <3>4. calls[1].args[1] = p
            BY <1>1, <1>4, <2>2, <3>2, <3>3 DEF AppStep, After, CallsAfter, Makes, Links, Cuts
        <3>5. todo'[Main] # <<>> /\ Head(todo'[Main]) = calls[1]
            BY <1>1, <2>2, <3>3, CallsThen DEF AppStep, After
        <3>6. PartPending(p)'
            BY <3>2, <3>4, <3>5 DEF PartPending, HeadIs
        <3>7. \A i \in DOMAIN mine'.part :
                  \/ i \in DOMAIN mine.part /\ mine'.part[i] = mine.part[i]
                  \/ mine'.part[i] = p
            <4>1. \A q \in Seq(Int) : \A x \in Int : \A i \in DOMAIN Append(q, x) :
                      (i \in DOMAIN q /\ Append(q, x)[i] = q[i]) \/ Append(q, x)[i] = x
                OBVIOUS
            <4> QED BY <3>1, <4>1
        <3>8. ASSUME NEW i \in DOMAIN mine'.part, NEW r, r = mine'.part[i]
              PROVE  PartSent(r)' \/ PartPending(r)'
            BY <2>1, <3>6, <3>7, <3>8
        <3> QED BY <3>8 DEF PartSent, ServerHasPart, PartPending, HeadIs
    <2>3. CASE ~(t = Main /\ c.call = "partitioner")
        <3>1. mine'.part = mine.part
            BY <2>3 DEF AppStep, After, MineAfter
        <3>2. ASSUME NEW i \in DOMAIN mine'.part, NEW r, r = mine'.part[i]
              PROVE  PartSent(r)' \/ PartPending(r)'
            BY <2>1, <3>1, <3>2
        <3> QED BY <3>2 DEF PartSent, ServerHasPart, PartPending, HeadIs
    <2> QED BY <2>2, <2>3
<1> QED BY <1>6, <1>7, <1>8 DEF LinksSent

\* What the server has told stays true of it.
LEMMA AppStepAnswers ==
    ASSUME MQInv, MQInv', ServerInv, NEW t, NEW c \in Calls, NEW calls \in Seq(Calls),
           AppStep(t, c, calls)
    PROVE  Answers'
<1>1. /\ Typed /\ Typed' /\ MessagesOK /\ Answers /\ "app" \in Sides
      /\ queue'["app"] = queue["app"]
    BY AppStepChanges, SideFacts DEF MQInv, ServerInv
<1>2. Forward
    BY AppStepForward
<1>3. ASSUME NEW i \in DOMAIN queue["app"], NEW m, m = queue["app"][i] PROVE AnswerOK(m)'
    <2>1. MessageOK(m) /\ AnswerOK(m)
        BY <1>1, <1>3 DEF Answers, MessagesOK
    <2> QED BY <1>1, <1>2, <2>1, AnswerStays
<1>4. \A i \in DOMAIN queue["app"] : AnswerOK(queue["app"][i])'
    BY <1>1, <1>3 DEF AnswerOK, DatumOf, PartsOf
<1> QED BY <1>1, <1>4 DEF Answers

\* The program's data come in the order of their keys, and the first is the first of
\* all.
LEMMA AppStepMine ==
    ASSUME MQInv, MQInv', ServerInv, NEW t, NEW c \in Calls, NEW calls \in Seq(Calls),
           AppStep(t, c, calls)
    PROVE  Increasing' /\ FirstIsMine'
<1>1. /\ Typed /\ Typed' /\ MineOK /\ Increasing /\ FirstIsMine /\ Good(t, c)
      /\ CallOK("app", c) /\ t \in {Main, AppIo} /\ t[1] = "app" /\ Peer("app") = "server"
      /\ UNCHANGED <<all_data["server"], todo[ServerIo]>>
    BY AppStepChanges, SideFacts DEF MQInv, ObjectsOK, ServerInv, AppStep
<1>2. PICK a, b \in Nat : a = Len(all_data["app"]) /\ b = Len(all_data'["app"])
    BY <1>1, ListLengths, ListLengthsNext
<1>3. /\ b = a + OneIf(c.call \in {"data", "child"})
      /\ mine'.data = IF t = Main /\ c.call = "data" THEN Append(mine.data, a) ELSE mine.data
    BY <1>1, <1>2, AppStepChanges DEF AppStep, After, MineAfter
<1>4. \A i \in DOMAIN mine.data : mine.data[i] \in 0..(a - 1)
    BY <1>1, <1>2 DEF MineOK, DataKeys
<1>5. a > 0 => a <= b /\ b > 0
    <2>1. OneIf(c.call \in {"data", "child"}) \in 0..1
        BY DEF OneIf
    <2> QED BY <1>3, <2>1
<1>6. c.call \in {"child", "data_created"} => a > 0
    BY <1>1, <1>2 DEF CallOK, DataKeys
<1>7. NoData => Len(all_data["server"]) = 0
    BY <1>1 DEF FirstIsMine
<1>8. CASE t = Main /\ c.call = "data"
    <2> DEFINE q == mine.data
    <2>1. q \in Seq(Int) /\ a \in Int /\ mine'.data = Append(q, a)
        BY <1>1, <1>3, <1>8 DEF Typed
    <2>2. /\ \A i \in DOMAIN q : q[i] \in 0..(a - 1)
          /\ \A i, j \in DOMAIN q : i < j => q[i] < q[j]
        BY <1>1, <1>4 DEF Increasing
    <2> HIDE DEF q
    <2>3. /\ Len(q) \in Nat /\ DOMAIN q = 1..Len(q)
          /\ DOMAIN Append(q, a) = 1..(Len(q) + 1)
          /\ \A i \in 1..Len(q) : Append(q, a)[i] = q[i]
          /\ Append(q, a)[Len(q) + 1] = a
        BY <2>1, AppendProperties
    <2>4. \A i, j \in DOMAIN Append(q, a) : i < j => Append(q, a)[i] < Append(q, a)[j]
        <3> TAKE i, j \in DOMAIN Append(q, a)
        <3> HAVE i < j
        <3>1. i \in 1..Len(q) /\ j \in 1..(Len(q) + 1) /\ Append(q, a)[i] = q[i]
            BY <2>3
        <3>2. CASE j = Len(q) + 1
            BY <2>2, <2>3, <3>1, <3>2
        <3>3. CASE j # Len(q) + 1
            <4>1. j \in DOMAIN q /\ i \in DOMAIN q /\ Append(q, a)[j] = q[j]
                BY <2>3, <3>1, <3>3
            <4> QED BY <2>2, <3>1, <4>1
        <3> QED BY <3>2, <3>3
    <2>5. Increasing'
        BY <2>1, <2>4 DEF Increasing
    <2>6. b = a + 1
        BY <1>3, <1>8 DEF OneIf
    <2>7. ~NoData'
        BY <1>2, <2>6 DEF NoData
    <2>8. Append(q, a)[1] = 0 /\ Append(q, a) # <<>>
        <3>1. CASE q = <<>>
            <4>1. NoData
                BY <1>1, <3>1 DEF FirstIsMine, q
            <4>2. a = 0
                BY <1>2, <4>1 DEF NoData
            <4> QED BY <2>3, <3>1, <4>2
        <3>2. CASE q # <<>>
            <4>1. q[1] = 0
                BY <1>1, <3>2 DEF FirstIsMine, q
            <4>2. 1 \in 1..Len(q)
                BY <2>1, <2>3, <3>2
            <4> QED BY <2>3, <4>1, <4>2
        <3> QED BY <3>1, <3>2
    <2>9. FirstIsMine'
        BY <2>1, <2>7, <2>8 DEF FirstIsMine
    <2> QED BY <2>5, <2>9
<1>9. CASE ~(t = Main /\ c.call = "data")
    <2>1. mine'.data = mine.data
        BY <1>3, <1>9
    <2>2. Increasing'
        BY <1>1, <2>1 DEF Increasing
    <2>3. NoData => c.call \notin {"data", "child", "data_created"}
        <3> SUFFICES ASSUME NoData PROVE c.call \notin {"data", "child", "data_created"}
            OBVIOUS
        <3>1. a = 0 /\ Len(all_data["server"]) = 0
            BY <1>2, <1>7 DEF NoData
        <3>2. c.call = "data" => t = AppIo
            BY <1>1, <1>9
        <3>3. t = AppIo /\ c.call = "data" => Len(all_data["server"]) > 0
            BY <1>1 DEF Good, GoodOfIo
        <3> QED BY <1>6, <3>1, <3>2, <3>3
    <2>4. NoData => NoData'
        <3> SUFFICES ASSUME NoData PROVE NoData'
            OBVIOUS
        <3>1. OneIf(c.call \in {"data", "child"}) = 0
            BY <2>3 DEF OneIf
        <3> QED BY <1>2, <1>3, <3>1 DEF NoData
    <2>5. NoData' => NoData
        BY <1>2, <1>5 DEF NoData
    <2>6. NoData => /\ ~HasCall(ServerIo, "data")' /\ ~HasCall(ServerIo, "child")'
                    /\ Len(all_data'["server"]) = 0
                    /\ \A j \in DOMAIN ToServer' : ToServer'[j].tag # "DATA_CREATED"
        <3> SUFFICES ASSUME NoData
                     PROVE  /\ ~HasCall(ServerIo, "data")' /\ ~HasCall(ServerIo, "child")'
                            /\ Len(all_data'["server"]) = 0
                            /\ \A j \in DOMAIN ToServer' : ToServer'[j].tag # "DATA_CREATED"
            OBVIOUS
        <3>1. /\ ~HasCall(ServerIo, "data")' /\ ~HasCall(ServerIo, "child")'
              /\ Len(all_data'["server"]) = 0
            BY <1>1 DEF FirstIsMine, HasCall
        <3>2. \A j \in DOMAIN ToServer : ToServer[j].tag # "DATA_CREATED"
            BY <1>1 DEF FirstIsMine
        <3>3. CASE c.call \notin Sends
            <4>1. ToServer' = ToServer
                BY <1>1, <3>3 DEF AppStep, After, SentAfter, ToServer
            <4> QED BY <3>1, <3>2, <4>1
        <3>4. CASE c.call \in Sends
            <4>1. PICK m \in [tag : Tags, body : Body] :
                      queue'["server"] = Append(queue["server"], m) /\ Tells("app", c, m)
                BY <1>1, <3>4 DEF AppStep, After, SentAfter
            <4>2. m.tag # "DATA_CREATED"
                BY <2>3, <3>4, <4>1 DEF Tells, Sends
            <4> DEFINE S == [tag : Tags, body : Body]
                       r == queue["server"]
            <4>3. r \in Seq(S) /\ m \in S
                BY <1>1, SideFacts DEF Typed
            <4> HIDE DEF S, r
            <4>4. \A j \in DOMAIN Append(r, m) :
                      (j \in DOMAIN r /\ Append(r, m)[j] = r[j]) \/ Append(r, m)[j] = m
                <5>1. /\ Len(r) \in Nat /\ DOMAIN r = 1..Len(r)
                      /\ DOMAIN Append(r, m) = 1..(Len(r) + 1)
                      /\ \A i \in 1..Len(r) : Append(r, m)[i] = r[i]
                      /\ Append(r, m)[Len(r) + 1] = m
                    BY <4>3, AppendProperties
                <5> QED BY <5>1
            <4>5. ToServer' = Append(r, m) /\ ToServer = r
                BY <4>1 DEF ToServer, r
            <4> QED BY <3>1, <3>2, <4>2, <4>4, <4>5
        <3> QED BY <3>3, <3>4
    <2>7. FirstIsMine'
        BY <1>1, <2>1, <2>4, <2>5, <2>6 DEF FirstIsMine
    <2> QED BY <2>2, <2>7
<1> QED BY <1>8, <1>9

\* The program cuts a datum that is there in time.
LEMMA FirstCut ==
    ASSUME MQInv, ServerInv, FirstCutEarly, NEW t, NEW c \in Calls, NEW calls \in Seq(Calls),
           AppStep(t, c, calls), c.call = "A.set_partition"
    PROVE  EverCut \/ Older(First(c), Len(all_data["app"]))
<1>1. /\ Typed /\ MineOK /\ Increasing /\ FirstIsMine /\ OfProgram
      /\ t \in {Main, AppIo} /\ Good(t, c)
    BY DEF MQInv, ObjectsOK, ServerInv, AppStep
<1>2. t = Main
    BY <1>1 DEF Good, GoodOfIo
<1>3. /\ todo[Main] \in Seq(Calls) /\ todo[Main] # <<>> /\ todo[Main][1] = c
      /\ 1 \in DOMAIN todo[Main] /\ DOMAIN todo[Main] = 1..Len(todo[Main])
      /\ Len(todo[Main]) \in Nat
    BY <1>1, <1>2, SideFacts DEF Typed, AppStep
<1>4. PICK n \in Nat : HasMade(n)
    BY <1>1 DEF OfProgram
<1>5. PICK l, p \in Nat : /\ l = Len(todo[Main]) /\ DOMAIN todo[Main] = 1..l /\ l >= 1
                          /\ p = Len(Program) /\ DOMAIN Program = 1..p
    <2>1. Len(Program) \in Nat /\ DOMAIN Program = 1..Len(Program)
        BY ProgramAssumption
    <2>2. Len(todo[Main]) >= 1 /\ Len(todo[Main]) \in Nat
        BY <1>3
    <2>3. PICK l \in Nat : l = Len(todo[Main])
        BY <2>2
    <2>4. PICK p \in Nat : p = Len(Program)
        <3>1. Len(Program) \in Nat
            BY <2>1
        <3> QED BY <3>1
    <2>5. DOMAIN todo[Main] = 1..l /\ l >= 1 /\ DOMAIN Program = 1..p
        BY <1>3, <2>1, <2>2, <2>3, <2>4
    <2> QED BY <2>3, <2>4, <2>5
<1>6. PICK b \in Nat : b = Begun(n) /\ b = l - (p - n)
    <2>1. Begun(n) = l - (p - n) /\ Begun(n) >= 0
        BY <1>4, <1>5 DEF HasMade, Begun
    <2>2. l - (p - n) \in Int
        OBVIOUS
    <2> QED BY <2>1, <2>2
<1>7. b = 0
    <2>1. ~(1 <= b)
        BY <1>3, <1>4, <1>6 DEF HasMade, ProgramNames
    <2> QED BY <2>1
<1>7a. \A i \in 1..l : todo[Main][i] = Program[n + i] /\ n + i \in 1..p
    <2> TAKE i \in 1..l
    <2>1. todo[Main][i] = Program[n + i - b]
        <3>1. ~(i <= b)
            BY <1>7
        <3> QED BY <1>4, <1>5, <1>6, <3>1 DEF HasMade
    <2>2. n + i - b = n + i /\ n + i \in 1..p
        BY <1>6, <1>7
    <2> QED BY <2>1, <2>2
<1>8. c = Program[n + 1] /\ IsCut(n + 1)
    <2>1. 1 \in 1..l
        BY <1>5
    <2> QED BY <1>3, <1>7a, <2>1 DEF IsCut
<1>9. Len(mine.data) = MadeBy(n)
    BY <1>4 DEF HasMade
<1>10. CASE \E h \in 1..n : IsCut(h)
    <2>1. ~HasCall(Main, "data_partitioned")
        <3> SUFFICES ASSUME NEW i \in DOMAIN todo[Main]
                     PROVE  todo[Main][i].call # "data_partitioned"
            BY DEF HasCall
        <3>1. todo[Main][i] = Program[n + i] /\ n + i \in 1..p
            BY <1>5, <1>7a
        <3>2. Program[n + i] \in ProgramCalls
            BY <1>5, <3>1, ProgramAssumption
        <3>3. \A e \in ProgramCalls : e.call # "data_partitioned"
            BY DEF ProgramCalls
        <3> QED BY <3>1, <3>2, <3>3
    <2> QED BY <1>4, <1>10, <2>1 DEF HasMade
<1>11. CASE \A h \in 1..n : ~IsCut(h)
    <2>1. c.args[1] = 1 \/ c.args[1] < MadeBy(n)
        <3>1. (n + 1) - 1 = n /\ 1 \in 1..l
            BY <1>5
        <3>2. n + 1 \in DOMAIN Program
            BY <1>5, <1>7a, <3>1
        <3> QED BY <1>8, <1>11, <3>1, <3>2 DEF FirstCutEarly
    <2>2. c.args[1] \in DOMAIN mine.data /\ First(c) = mine.data[c.args[1]]
        BY DEF AppStep, First
    <2>3. mine.data \in Seq(Int) /\ DOMAIN mine.data = 1..Len(mine.data)
          /\ Len(mine.data) \in Nat
        BY <1>1 DEF Typed
    <2>4. CASE c.args[1] = 1
        <3>1. mine.data # <<>>
            BY <2>2, <2>3, <2>4
        <3> QED BY <1>1, <2>2, <2>4, <3>1 DEF FirstIsMine, Older
    <2>5. CASE c.args[1] < MadeBy(n)
        <3>1. PICK j \in DOMAIN mine.data : c.args[1] < j
            <4>1. PICK k \in Nat : k = MadeBy(n) /\ DOMAIN mine.data = 1..k
                BY <1>9, <2>3
            <4>2. PICK d \in 1..k : d = c.args[1] /\ d < k
                BY <2>2, <2>5, <4>1
            <4>3. d + 1 \in 1..k /\ d < d + 1
                <5>1. d < k
                    BY <4>2
                <5> QED BY <5>1
            <4> QED BY <4>1, <4>2, <4>3
        <3>2. mine.data[c.args[1]] < mine.data[j]
            BY <1>1, <2>2, <3>1 DEF Increasing
        <3>3. mine.data[j] < Len(all_data["app"])
            BY <1>1, ListLengths DEF MineOK, DataKeys
        <3> QED BY <2>2, <3>2, <3>3 DEF Older
    <2> QED BY <2>1, <2>4, <2>5
<1> QED BY <1>10, <1>11

\* The calls a call makes name what is there in time.
LEMMA AppStepMakes ==
    ASSUME MQInv, MQInv', ServerInv, FirstCutEarly, NEW t, NEW c \in Calls,
           NEW calls \in Seq(Calls), AppStep(t, c, calls), NEW e \in Calls, Makes(t, c, e)
    PROVE  Good(t, e)'
<1>1. /\ Typed /\ Typed' /\ DataOK /\ MineOK /\ LinksSent /\ Good(t, c) /\ CallOK("app", c)
      /\ t \in {Main, AppIo} /\ t[1] = "app" /\ Main # AppIo
      /\ UNCHANGED all_data["server"] /\ Cut' = Cut
      /\ c.call \in {"P.set_next", "A.set_partition"} => t = Main
    BY AppStepChanges, AppStepSeen, SideFacts DEF MQInv, ObjectsOK, ServerInv, AppStep
<1>2. /\ Forward /\ (EverCut => EverCut') /\ (c.call = "data_partitioned" => EverCut')
      /\ \A r : PartSent(r) => PartSent(r)'
    BY AppStepForward, AppStepSeen
<1>3. PICK a, b, s \in Nat : /\ a = Len(all_data["app"]) /\ b = Len(all_data'["app"])
                             /\ s = Len(all_data["server"]) /\ a <= b
    <2>1. Len(all_data["app"]) <= Len(all_data'["app"])
        BY AppStepChanges
    <2> QED BY <1>1, <2>1, ListLengths, ListLengthsNext
<1>4. DataKeys("app") = 0..(a - 1)
    BY <1>3 DEF DataKeys
<1>5. Cut => s > 0
    BY <1>3 DEF Cut, DataKeys
<1>6. CASE c.call \in {"data", "child"} /\ e.call = "data_created" /\ e.args[1] = a
    <2>1. PICK p \in Int : p = c.args[1]
        BY <1>1, <1>6 DEF CallOK
    <2>2. ParentOf(e.args[1])' = p
        BY <1>1, <1>3, <1>6, <2>1 DEF AppStep, After, DataAfter, ParentOf, Cuts
    <2>3. GoodLinks(e)'
        BY <1>6 DEF GoodLinks
    <2>4. CASE t = Main
        <3>1. CASE c.call = "data"
            <4>1. p = None
                BY <1>1, <2>1, <2>4, <3>1 DEF Good, GoodOfMain
            <4>2. GoodOfMain(e)'
                BY <1>6, <2>2, <4>1 DEF GoodOfMain
            <4> QED BY <1>1, <2>3, <2>4, <4>2 DEF Good
        <3>2. CASE c.call = "child"
            <4>1. EverCut \/ Older(p, a)
                BY <1>1, <1>3, <2>1, <2>4, <3>2 DEF Good, GoodOfMain
            <4>2. EverCut' \/ Older(p, a)'
                BY <1>1, <1>2, <4>1, OlderStays
            <4>3. EverCut' \/ Older(ParentOf(e.args[1]), e.args[1])'
                BY <1>6, <2>2, <4>2 DEF Older
            <4>4. GoodOfMain(e)'
                BY <1>6, <4>3 DEF GoodOfMain
            <4> QED BY <1>1, <2>3, <2>4, <4>4 DEF Good
        <3> QED BY <1>6, <3>1, <3>2
    <2>5. CASE t = AppIo
        <3>1. CASE c.call = "data"
            <4>1. s > 0 /\ p < s
                BY <1>1, <1>3, <2>1, <2>5, <3>1 DEF Good, GoodOfIo
            <4>2. GoodOfIo(e)'
                BY <1>1, <1>3, <1>6, <2>2, <4>1 DEF GoodOfIo
            <4> QED BY <1>1, <2>3, <2>5, <4>2 DEF Good
        <3>2. CASE c.call = "child"
            <4>1. Cut
                BY <1>1, <2>5, <3>2 DEF Good, GoodOfIo
            <4>2. GoodOfIo(e)'
                BY <1>1, <1>3, <1>5, <1>6, <4>1 DEF GoodOfIo
            <4> QED BY <1>1, <2>3, <2>5, <4>2 DEF Good
        <3> QED BY <1>6, <3>1, <3>2
    <2> QED BY <1>1, <2>4, <2>5
<1>7. CASE e.call \in {"partition_defined", "assert_key"}
    BY <1>7 DEF Good, GoodLinks, GoodOfMain, GoodOfIo
<1>8. CASE c.call \in Links /\ e.call = "partition_cascaded" /\ e.args[1] = First(c)
    <2>1. PartSent(First(c))
        <3>1. CASE c.call = "set_next"
            BY <1>1, <3>1 DEF Good, GoodLinks, First
        <3>2. CASE c.call = "P.set_next"
            BY <1>1, <3>2, MineSent DEF AppStep, First
        <3> QED BY <1>8, <3>1, <3>2 DEF Links
    <2>2. PartSent(e.args[1])'
        <3>1. \A r : r = First(c) => PartSent(r)'
            BY <1>2, <2>1
        <3> QED BY <1>8, <3>1 DEF PartSent, ServerHasPart
    <2> QED BY <1>8, <2>2 DEF Good, GoodLinks, GoodOfMain, GoodOfIo
<1>9. CASE c.call \in Cuts /\ e.call \in {"child", "data_partitioned"} /\ e.args[1] = First(c)
    <2>1. PICK d \in 0..(a - 1) : d = First(c) /\ d = e.args[1]
        BY <1>1, <1>4, <1>9 DEF AppStep, After, CallsAfter
    <2>2. GoodLinks(e)'
        BY <1>9 DEF GoodLinks
    <2>3. CASE t = Main
        <3>1. EverCut \/ Older(d, a)
            <4>1. CASE c.call = "set_partition"
                BY <1>1, <2>3, <4>1 DEF Good, GoodOfMain
            <4>2. CASE c.call = "A.set_partition"
                <5>1. EverCut \/ Older(First(c), Len(all_data["app"]))
                    BY <4>2, FirstCut
                <5> QED BY <1>3, <2>1, <5>1
            <4> QED BY <1>9, <4>1, <4>2 DEF Cuts
        <3>2. EverCut' \/ Older(d, b)'
            BY <1>1, <1>2, <1>3, <3>1, OlderStays
        <3>3. GoodOfMain(e)'
            <4>1. EverCut' \/ Older(e.args[1], Len(all_data["app"]))'
                BY <1>3, <2>1, <3>2 DEF Older
            <4> QED BY <1>9, <4>1 DEF GoodOfMain
        <3> QED BY <1>1, <2>2, <2>3, <3>3 DEF Good
    <2>4. CASE t = AppIo
        <3>1. c.call = "set_partition"
            BY <1>1, <1>9, <2>4 DEF Cuts
        <3>2. Cut
            BY <1>1, <2>4, <3>1 DEF Good, GoodOfIo
        <3>3. GoodOfIo(e)'
            BY <1>1, <1>9, <3>2 DEF GoodOfIo
        <3> QED BY <1>1, <2>2, <2>4, <3>3 DEF Good
    <2> QED BY <1>1, <2>3, <2>4
<1>10. CASE /\ c.call = "data_partitioned" /\ e.call = "set_partition"
            /\ e.args[2] = At(part_list["app"], At(all_data["app"], c.args[1]).partitioner).next
    <2>1. PartSent(e.args[2])
        <3>1. At(all_data["app"], c.args[1]).partitioner \in PartKeys("app")
            BY <1>1, <1>10 DEF CallOK
        <3> QED BY <1>1, <1>10, <3>1 DEF LinksSent
    <2>2. GoodLinks(e)'
        <3>1. PartSent(e.args[2])'
            BY <1>2, <2>1
        <3> QED BY <1>10, <3>1 DEF GoodLinks
    <2>3. CASE t = Main
        <3>1. GoodOfMain(e)'
            BY <1>2, <1>10 DEF GoodOfMain
        <3> QED BY <1>1, <2>2, <2>3, <3>1 DEF Good
    <2>4. CASE t = AppIo
        <3>1. Cut
            BY <1>1, <1>10, <2>4 DEF Good, GoodOfIo
        <3>2. GoodOfIo(e)'
            BY <1>1, <1>10, <3>1 DEF GoodOfIo
        <3> QED BY <1>1, <2>2, <2>4, <3>2 DEF Good
    <2> QED BY <1>1, <2>3, <2>4
<1> QED BY <1>1, <1>3, <1>6, <1>7, <1>8, <1>9, <1>10 DEF Makes

\* And those that wait still do.
LEMMA AppStepGood ==
    ASSUME MQInv, MQInv', ServerInv, FirstCutEarly, NEW t, NEW c \in Calls,
           NEW calls \in Seq(Calls), AppStep(t, c, calls)
    PROVE  GoodCalls'
<1>1. /\ Typed /\ Typed' /\ CallsOK /\ GoodCalls /\ t \in {Main, AppIo} /\ t \in Threads
      /\ \A u \in {Main, AppIo} : u # t => todo'[u] = todo[u]
      /\ \A u \in {Main, AppIo} : u \in Threads /\ u[1] = "app"
    BY AppStepChanges, SideFacts DEF MQInv, ServerInv, AppStep
<1>2. Forward
    BY AppStepForward
<1>3. ASSUME NEW u \in {Main, AppIo}, NEW i \in DOMAIN todo[u], NEW e, e = todo[u][i]
      PROVE  Good(u, e)'
    <2>1. todo[u] \in Seq(Calls)
        BY <1>1 DEF Typed
    <2>2. e \in Calls /\ CallOK("app", e)
        BY <1>1, <1>3, <2>1 DEF CallsOK, OKCalls
    <2>3. Good(u, e)
        BY <1>1, <1>3 DEF GoodCalls
    <2> QED BY <1>2, <2>2, <2>3, GoodStays
<1>4. ASSUME NEW j \in DOMAIN calls, NEW e, e = calls[j] PROVE Good(t, e)'
    <2>1. e \in Calls /\ Makes(t, c, e)
        BY <1>4 DEF AppStep, After, CallsAfter
    <2> QED BY <2>1, AppStepMakes
<1>5. \A i \in DOMAIN todo'[t] :
          \/ \E j \in DOMAIN calls : todo'[t][i] = calls[j]
          \/ \E j \in 2..Len(todo[t]) : todo'[t][i] = todo[t][j]
    BY <1>1, CallsThen DEF AppStep, After
<1>6. ASSUME NEW u \in {Main, AppIo}, NEW i \in DOMAIN todo'[u], NEW e, e = todo'[u][i]
      PROVE  Good(u, e)'
    <2>1. CASE u # t
        <3>1. todo'[u] = todo[u]
            BY <1>1, <2>1
        <3> QED BY <1>3, <1>6, <3>1
    <2>2. CASE u = t
        <3>1. CASE \E j \in DOMAIN calls : e = calls[j]
            BY <1>4, <2>2, <3>1
        <3>2. CASE \E j \in 2..Len(todo[t]) : e = todo[t][j]
            <4>1. PICK j \in 2..Len(todo[t]) : e = todo[t][j]
                BY <3>2
            <4>2. j \in DOMAIN todo[t]
                <5>1. todo[t] \in Seq(Calls)
                    BY <1>1 DEF Typed
                <5> QED BY <5>1
            <4> QED BY <1>1, <1>3, <2>2, <4>1, <4>2
        <3> QED BY <1>5, <1>6, <2>2, <3>1, <3>2
    <2> QED BY <2>1, <2>2
<1> QED BY <1>6 DEF GoodCalls, Good, GoodLinks, GoodOfMain, GoodOfIo, Older, ParentOf,
                    PartSent, ServerHasPart, At

\* The program goes on: what is left of it is what it has not begun.
LEMMA ProgramGoesOn ==
    ASSUME MQInv, MQInv', ServerInv, NEW c \in Calls, NEW calls \in Seq(Calls),
           AppStep(Main, c, calls)
    PROVE  OfProgram'
<1>1. /\ Typed /\ Typed' /\ OfProgram /\ Main \in Threads /\ AppIo # Main
    BY SideFacts DEF MQInv, ServerInv
<1>2. PICK n \in Nat : HasMade(n)
    BY <1>1 DEF OfProgram
<1>3. PICK l, p, k \in Nat :
          /\ l = Len(todo[Main]) /\ DOMAIN todo[Main] = 1..l /\ l >= 1
          /\ p = Len(Program) /\ k = Len(calls) /\ DOMAIN calls = 1..k
          /\ Len(todo'[Main]) = (k + l) - 1 /\ DOMAIN todo'[Main] = 1..((k + l) - 1)
    <2>1. todo[Main] \in Seq(Calls) /\ todo[Main] # <<>> /\ todo'[Main] \in Seq(Calls)
        BY <1>1 DEF AppStep, Typed
    <2>2. Len(todo'[Main]) = Len(calls) + Len(todo[Main]) - 1
        BY DEF AppStep, After, TodoAfter
    <2>3. PICK l \in Nat : l = Len(todo[Main]) /\ l >= 1
        BY <2>1
    <2>4. PICK p \in Nat : p = Len(Program)
        BY ProgramAssumption
    <2>5. PICK k \in Nat : k = Len(calls)
        OBVIOUS
    <2>6. Len(todo'[Main]) = (k + l) - 1
        BY <2>2, <2>3, <2>5
    <2>7. DOMAIN todo[Main] = 1..l /\ DOMAIN calls = 1..k
        BY <2>1, <2>3, <2>5
    <2>8. DOMAIN todo'[Main] = 1..((k + l) - 1)
        BY <2>1, <2>6
    <2> QED BY <2>3, <2>4, <2>5, <2>6, <2>7, <2>8
<1>4. PICK b \in Nat : b = Begun(n) /\ b = l - (p - n) /\ n <= p
    <2>1. Begun(n) = l - (p - n) /\ Begun(n) >= 0 /\ n <= p
        BY <1>2, <1>3 DEF HasMade, Begun
    <2>2. PICK b \in Int : b = l - (p - n)
        OBVIOUS
    <2> QED BY <2>1, <2>2
<1>5. /\ todo[Main][1] = c /\ 1 \in 1..l
      /\ \A i \in 1..l : IF i <= b THEN todo[Main][i].call \notin ProgramNames
                         ELSE todo[Main][i] = Program[n + i - b]
      /\ Len(mine.data) = MadeBy(n)
      /\ (\E h \in 1..n : IsCut(h)) => EverCut \/ HasCall(Main, "data_partitioned")
    <2>1. todo[Main] \in Seq(Calls) /\ todo[Main] # <<>>
        BY <1>1 DEF AppStep, Typed
    <2>2. todo[Main][1] = c
        BY <2>1 DEF AppStep
    <2>3. 1 \in 1..l
        BY <1>3
    <2>4. \A i \in 1..l : IF i <= b THEN todo[Main][i].call \notin ProgramNames
                           ELSE todo[Main][i] = Program[n + i - b]
        <3>1. \A i \in DOMAIN todo[Main] :
                  IF i <= Begun(n) THEN todo[Main][i].call \notin ProgramNames
                  ELSE todo[Main][i] = Program[n + i - Begun(n)]
            BY <1>2 DEF HasMade
        <3> QED BY <1>3, <1>4, <3>1
    <2>5. /\ Len(mine.data) = MadeBy(n)
          /\ (\E h \in 1..n : IsCut(h)) => EverCut \/ HasCall(Main, "data_partitioned")
        BY <1>2 DEF HasMade
    <2> QED BY <2>2, <2>3, <2>4, <2>5
<1>6. /\ \A i \in 1..k : todo'[Main][i] = calls[i] /\ calls[i].call \notin ProgramNames
      /\ \A i \in 2..l : todo'[Main][k + i - 1] = todo[Main][i]
    <2>1. \A i \in 1..k : calls[i].call \notin ProgramNames
        BY <1>3 DEF AppStep, After, CallsAfter, Makes, ProgramNames
    <2> QED BY <1>3, <2>1 DEF AppStep, After, TodoAfter
<1>7. \A i \in (k + 1)..((k + l) - 1) :
          /\ i - k + 1 \in 2..l /\ todo'[Main][i] = todo[Main][i - k + 1]
    <2> TAKE i \in (k + 1)..((k + l) - 1)
    <2>1. PICK j \in Int : j = i - k + 1
        OBVIOUS
    <2>2. j \in 2..l /\ k + j - 1 = i
        BY <2>1
    <2> QED BY <1>6, <2>1, <2>2
<1>8. (EverCut => EverCut') /\ (c.call = "data_partitioned" => EverCut')
    BY AppStepSeen
<1>9. HasCall(Main, "data_partitioned") =>
          EverCut' \/ HasCall(Main, "data_partitioned")'
    <2> SUFFICES ASSUME HasCall(Main, "data_partitioned"), c.call # "data_partitioned"
                 PROVE  HasCall(Main, "data_partitioned")'
        BY <1>8
    <2>1. PICK i \in 1..l : todo[Main][i].call = "data_partitioned"
        BY <1>3 DEF HasCall
    <2>2. i \in 2..l
        BY <1>5, <2>1
    <2>3. PICK j \in 1..((k + l) - 1) : todo'[Main][j] = todo[Main][i]
        <3>1. k + i - 1 \in 1..((k + l) - 1)
            BY <2>2
        <3> QED BY <1>6, <2>2, <3>1
    <2> QED BY <1>3, <2>1, <2>3 DEF HasCall
<1>10. mine'.data = IF c.call = "data" THEN Append(mine.data, Len(all_data["app"]))
                    ELSE mine.data
    BY DEF AppStep, After, MineAfter
<1>11. CASE b >= 1
    <2>1. c.call \notin ProgramNames
        BY <1>5, <1>11
    <2>2. PICK d \in Nat : d = (b + k) - 1
        <3>1. (b + k) - 1 \in Nat
            BY <1>11
        <3> QED BY <3>1
    <2>3. Begun(n)' = d
        <3>1. Begun(n)' = ((k + l) - 1) - (p - n)
            BY <1>3 DEF Begun
        <3> QED BY <1>4, <2>2, <3>1
    <2>4. ASSUME NEW i \in 1..((k + l) - 1)
          PROVE  IF i <= d THEN todo'[Main][i].call \notin ProgramNames
                 ELSE todo'[Main][i] = Program[n + i - d]
        <3>1. CASE i <= k
            <4>1. i \in 1..k /\ i <= d
                BY <1>11, <2>2, <3>1
            <4> QED BY <1>6, <4>1
        <3>2. CASE i > k
            <4>1. PICK j \in 2..l : j = i - k + 1 /\ todo'[Main][i] = todo[Main][j]
                <5>1. i \in (k + 1)..((k + l) - 1)
                    BY <3>2
                <5> QED BY <1>7, <5>1
            <4>2. (i <= d <=> j <= b) /\ n + i - d = n + j - b /\ j \in 1..l
                BY <2>2, <4>1
            <4> QED BY <1>5, <4>1, <4>2
        <3> QED BY <3>1, <3>2
    <2>5. Len(mine'.data) = MadeBy(n)
        BY <1>5, <1>10, <2>1 DEF ProgramNames
    <2>6. HasMade(n)'
        <3>1. n \in 0..Len(Program)
            BY <1>3, <1>4
        <3>2. (\E h \in 1..n : IsCut(h)) => EverCut' \/ HasCall(Main, "data_partitioned")'
            BY <1>5, <1>8, <1>9
        <3>3. Begun(n)' >= 0
            BY <2>3
        <3>4. \A i \in DOMAIN todo'[Main] :
                  IF i <= Begun(n)' THEN todo'[Main][i].call \notin ProgramNames
                  ELSE todo'[Main][i] = Program[n + i - Begun(n)']
            BY <1>3, <2>3, <2>4
        <3> QED BY <2>5, <3>1, <3>2, <3>3, <3>4 DEF HasMade
    <2> QED BY <2>6 DEF OfProgram
<1>12. CASE b = 0
    <2>1. c = Program[n + 1]
        BY <1>5, <1>12
    <2>2. PICK d \in Nat : d = n + 1 /\ d <= p /\ l = p - n
        <3>1. n + 1 \in Nat /\ n + 1 <= p
            BY <1>3, <1>4, <1>12
        <3> QED BY <1>4, <1>12, <3>1
    <2>3. Begun(d)' = k
        <3>1. Begun(d)' = ((k + l) - 1) - (p - d)
            BY <1>3 DEF Begun
        <3> QED BY <2>2, <3>1
    <2>4. ASSUME NEW i \in 1..((k + l) - 1)
          PROVE  IF i <= k THEN todo'[Main][i].call \notin ProgramNames
                 ELSE todo'[Main][i] = Program[d + i - k]
        <3>1. CASE i <= k
            <4>1. i \in 1..k
                BY <3>1
            <4> QED BY <1>6, <3>1, <4>1
        <3>2. CASE i > k
            <4>1. PICK j \in 2..l : j = i - k + 1 /\ todo'[Main][i] = todo[Main][j]
                <5>1. i \in (k + 1)..((k + l) - 1)
                    BY <3>2
                <5> QED BY <1>7, <5>1
            <4>2. n + j - b = d + i - k
                <5>1. \A x, y, v, w \in Int :
                          v = y - x + 1 => n + v - 0 = (n + 1) + y - x
                    OBVIOUS
                <5>2. i \in Int /\ j \in Int
                    BY <4>1
                <5> QED BY <1>12, <2>2, <4>1, <5>1, <5>2
            <4>3. j \in 1..l /\ ~(j <= b) /\ ~(i <= k)
                BY <1>12, <3>2, <4>1
            <4> QED BY <1>5, <4>1, <4>2, <4>3
        <3> QED BY <3>1, <3>2
    <2>5. Len(mine'.data) = MadeBy(d)
        <3>1. MadeBy(d) = MadeBy(n) + OneIf(c.call = "data") /\ MadeBy(n) \in Nat
            BY <2>1, <2>2, MadeNext
        <3>2. mine.data \in Seq(Int) /\ Len(all_data["app"]) \in Int
            BY <1>1, ListLengths DEF Typed
        <3>3. CASE c.call = "data"
            <4>1. Len(Append(mine.data, Len(all_data["app"]))) = Len(mine.data) + 1
                BY <3>2
            <4> QED BY <1>5, <1>10, <3>1, <3>3, <4>1 DEF OneIf
        <3>4. CASE c.call # "data"
            BY <1>5, <1>10, <3>1, <3>4 DEF OneIf
        <3> QED BY <3>3, <3>4
    <2>6. (\E h \in 1..d : IsCut(h)) => EverCut' \/ HasCall(Main, "data_partitioned")'
        <3> SUFFICES ASSUME NEW h \in 1..d, IsCut(h)
                     PROVE  EverCut' \/ HasCall(Main, "data_partitioned")'
            OBVIOUS
        <3>1. CASE h = d
            <4>1. c.call \in Cuts
                BY <2>1, <2>2, <3>1 DEF IsCut, Cuts
            <4>2. PICK i \in 1..k : calls[i].call = "data_partitioned"
                BY <1>3, <4>1 DEF AppStep, After, CallsAfter
            <4>3. i \in 1..((k + l) - 1) /\ todo'[Main][i] = calls[i]
                BY <1>3, <1>6
            <4> QED BY <1>3, <4>2, <4>3 DEF HasCall
        <3>2. CASE h # d
            <4>1. h \in 1..n
                BY <2>2, <3>2
            <4> QED BY <1>5, <1>8, <1>9, <4>1
        <3> QED BY <3>1, <3>2
    <2>7. HasMade(d)'
        <3>1. d \in 0..Len(Program)
            BY <1>3, <2>2
        <3>2. Begun(d)' >= 0
            BY <2>3
        <3>3. \A i \in DOMAIN todo'[Main] :
                  IF i <= Begun(d)' THEN todo'[Main][i].call \notin ProgramNames
                  ELSE todo'[Main][i] = Program[d + i - Begun(d)']
            BY <1>3, <2>3, <2>4
        <3> QED BY <2>5, <2>6, <3>1, <3>2, <3>3 DEF HasMade
    <2> QED BY <2>7 DEF OfProgram
<1> QED BY <1>11, <1>12

\* A step of the application.
LEMMA AppActs ==
    ASSUME MQInv, MQInv', ServerInv, FirstCutEarly, NEW t \in {Main, AppIo}, Step(t)
    PROVE  ServerInv'
<1>1. CASE Stopped
    BY <1>1, StoppedStays
<1>2. ASSUME NEW c \in Calls, NEW calls \in Seq(Calls), AppStep(t, c, calls)
      PROVE  ServerInv'
    <2>1. Counted'
        BY <1>2, AppStepCounted
    <2>2. DataKnown' /\ PartsKnown'
        BY <1>2, AppStepKnown
    <2>3. LinksSent'
        BY <1>2, AppStepLinks
    <2>4. GoodCalls'
        BY <1>2, AppStepGood
    <2>5. Answers'
        BY <1>2, AppStepAnswers
    <2>6. FirstIsMine' /\ Increasing'
        BY <1>2, AppStepMine
    <2>7. OfProgram'
        <3>1. CASE t = Main
            BY <1>2, <3>1, ProgramGoesOn
        <3>2. CASE t # Main
            <4>1. todo'[Main] = todo[Main]
                BY <1>2, <3>2, AppStepChanges
            <4>2. mine'.data = mine.data
                BY <1>2, <3>2 DEF AppStep, After, MineAfter
            <4>3. EverCut => EverCut'
                BY <1>2, AppStepSeen
            <4> QED BY <4>1, <4>2, <4>3, ProgramStays DEF ServerInv
        <3> QED BY <3>1, <3>2
    <2> QED BY <2>1, <2>2, <2>3, <2>4, <2>5, <2>6, <2>7 DEF ServerInv
<1> QED BY <1>1, <1>2, AppStepOf

\* The application takes a message: it will do what the server has done.
LEMMA AppTakes ==
    ASSUME MQInv, MQInv', ServerInv, Receive("app")
    PROVE  ServerInv'
<1>1. Typed /\ Typed' /\ MessagesOK /\ CallsOK /\ Answers
    BY DEF MQInv, ServerInv
<1> DEFINE m == Head(queue["app"])
           S == [tag : Tags, body : Body]
<1>2. /\ queue["app"] \in Seq(S) /\ queue["app"] # <<>> /\ todo[AppIo] = <<>>
      /\ "server" \in Sides /\ "app" \in Sides
    BY <1>1, SideFacts DEF Typed, Receive, AppIo
<1>3. m \in S /\ m = queue["app"][1] /\ 1 \in DOMAIN queue["app"]
    <2> HIDE DEF S
    <2> QED BY <1>2
<1>4. MessageOK(m) /\ AnswerOK(m) /\ Resolves("app", m)
    <2>1. MessageOK(m) /\ AnswerOK(m)
        BY <1>1, <1>2, <1>3 DEF MessagesOK, Answers
    <2>2. KeysResolveAt("app")
        BY AppResolves DEF MQInv
    <2> QED BY <1>2, <2>1, <2>2 DEF KeysResolveAt, AppIo
<1> HIDE DEF m
<1>5. /\ ~Stops("app", m)
      /\ \/ CallsOf("app", m) = <<>>
         \/ \E c \in Calls : CallsOf("app", m) = <<c>> /\ Answering(m, c)
    BY <1>2, <1>3, <1>4, OneAnswer
<1>6. /\ queue' = [queue EXCEPT !["app"] = Tail(queue["app"])]
      /\ todo' = [todo EXCEPT ![AppIo] = CallsOf("app", m)]
      /\ UNCHANGED <<all_data, part_list, mine>>
    BY <1>5 DEF Receive, m, AppIo
<1>7. /\ queue'["app"] = Tail(queue["app"]) /\ queue'["server"] = queue["server"]
      /\ todo'[AppIo] = CallsOf("app", m)
      /\ todo'[Main] = todo[Main] /\ todo'[ServerIo] = todo[ServerIo]
    BY <1>1, <1>2, <1>6, SideFacts DEF Typed
<1>8. /\ ToServer' = ToServer /\ OnWay' = OnWay
      /\ Cut' = Cut /\ EverCut' = EverCut
      /\ \A n : ServerHas(n)' = ServerHas(n)
      /\ \A n, r : ServerHasPart(n, r)' = ServerHasPart(n, r)
      /\ \A r : PartSent(r)' = PartSent(r)
    BY <1>6, <1>7, UnseenByServer
<1>9. Forward
    <2>1. /\ Len(all_data["server"]) <= Len(all_data["server"])'
          /\ Len(part_list["server"]) <= Len(part_list["server"])'
          /\ Len(all_data["app"]) <= Len(all_data["app"])'
        BY <1>1, <1>6, ListLengths
    <2> QED BY <1>6, <1>8, <2>1 DEF Forward, ParentOf, At
<1>10. Counted'
    <2>1. ~HeadIs(AppIo, {"data_created"}) /\ ~HeadIs(AppIo, {"data_created"})'
        <3>1. ~HeadIs(AppIo, {"data_created"})
            BY <1>2 DEF HeadIs
        <3>2. ASSUME NEW c \in Calls, CallsOf("app", m) = <<c>>, Answering(m, c)
              PROVE  ~HeadIs(AppIo, {"data_created"})'
            <4>1. c.call # "data_created"
                BY <1>3, <3>2 DEF Answering, Tags
            <4>2. Head(todo'[AppIo]) = c
                BY <1>7, <3>2
            <4> QED BY <4>1, <4>2 DEF HeadIs
        <3>3. CallsOf("app", m) = <<>> => ~HeadIs(AppIo, {"data_created"})'
            BY <1>7 DEF HeadIs
        <3> QED BY <1>5, <3>1, <3>2, <3>3
    <2>2. HeadIs(Main, {"data_created"})' = HeadIs(Main, {"data_created"})
        BY <1>7 DEF HeadIs
    <2>3. Unsent' = Unsent
        <3>1. /\ HeadIs(AppIo, {"data_created"})' <=> HeadIs(AppIo, {"data_created"})
              /\ HeadIs(Main, {"data_created"})' <=> HeadIs(Main, {"data_created"})
            BY <2>1, <2>2
        <3>2. OneIf(HeadIs(AppIo, {"data_created"}))' = OneIf(HeadIs(AppIo, {"data_created"}))
            BY <3>1 DEF OneIf
        <3>3. OneIf(HeadIs(Main, {"data_created"}))' = OneIf(HeadIs(Main, {"data_created"}))
            BY <3>1 DEF OneIf
        <3> QED BY <3>2, <3>3 DEF Unsent
    <2>4. OneIf(EverCut)' = OneIf(EverCut) /\ ServerHas(OnWay)' = ServerHas(OnWay)
        BY <1>8 DEF OneIf, ServerHas
    <2>5. Counted
        BY DEF ServerInv
    <2>6. Len(all_data["app"])' = Len(all_data["app"])
        BY <1>6
    <2> QED BY <2>3, <2>4, <2>5, <2>6 DEF Counted
<1>11. DataKnown' /\ PartsKnown'
    BY <1>8 DEF ServerInv, DataKnown, PartsKnown, DatumOf, PartsOf
<1>12. LinksSent'
    <2>1. \A r : PartPending(r)' = PartPending(r)
        BY <1>7 DEF PartPending, HeadIs
    <2> QED BY <1>6, <1>8, <2>1 DEF ServerInv, LinksSent, PartKeys, DataKeys, At
<1>13. ASSUME NEW c \in Calls, CallsOf("app", m) = <<c>>, Answering(m, c)
       PROVE  Good(AppIo, c)
    <2>1. \A r \in PartsOf(m) : PartSent(r)
        BY <1>4 DEF AnswerOK, PartSent, ServerHasPart
    <2>2. m.tag \in Tags
        BY <1>3
    <2>3. CASE m.tag = "DATA_CREATED"
        <3>1. c.call = "data" /\ c.args[1] = DatumOf(m)
            BY <1>13, <2>3 DEF Answering, DatumOf
        <3>2. Len(all_data["server"]) > 0 /\ DatumOf(m) < Len(all_data["server"])
            BY <1>4, <2>3 DEF AnswerOK
        <3> QED BY <3>1, <3>2, SideFacts DEF Good, GoodLinks, GoodOfIo, Main, AppIo
    <2>4. CASE m.tag = "PARTITION_CREATED"
        <3>1. c.call = "partitioner"
            BY <1>13, <2>4 DEF Answering
        <3> QED BY <3>1 DEF Good, GoodLinks, GoodOfIo, Main, AppIo
    <2>5. CASE m.tag = "PARTITION_CASCADED"
        <3>1. /\ c.call = "set_next" /\ c.args[1] = m.body[1].val
              /\ c.args[2] = m.body[4].val
            BY <1>13, <2>5 DEF Answering
        <3>2. PartSent(c.args[1]) /\ PartSent(c.args[2])
            BY <2>1, <2>5, <3>1 DEF PartsOf
        <3> QED BY <3>1, <3>2 DEF Good, GoodLinks, GoodOfIo, Main, AppIo
    <2>6. CASE m.tag = "DATA_PARTITIONED"
        <3>1. c.call = "set_partition" /\ c.args[2] = m.body[8].val
            BY <1>13, <2>6 DEF Answering
        <3>2. PartSent(c.args[2]) /\ Cut
            BY <1>4, <2>1, <2>6, <3>1 DEF PartsOf, AnswerOK
        <3> QED BY <3>1, <3>2 DEF Good, GoodLinks, GoodOfIo, Main, AppIo
    <2> QED BY <2>2, <2>3, <2>4, <2>5, <2>6 DEF Tags
<1>14. GoodCalls'
    <2>1. ASSUME NEW t \in {Main, AppIo}, NEW i \in DOMAIN todo'[t], NEW e, e = todo'[t][i]
          PROVE  Good(t, e)'
        <3>1. CASE t = Main
            <4>1. /\ todo[Main] \in Seq(Calls) /\ Main \in Threads /\ Main[1] = "app"
                  /\ i \in DOMAIN todo[Main] /\ e = todo[Main][i]
                BY <1>1, <1>7, <2>1, <3>1, SideFacts DEF Typed
            <4>2. e \in Calls /\ CallOK("app", e) /\ Good(Main, e)
                BY <1>1, <4>1 DEF CallsOK, OKCalls, ServerInv, GoodCalls
            <4> QED BY <1>9, <3>1, <4>2, GoodStays
        <3>2. CASE t = AppIo
            <4>1. PICK c \in Calls : CallsOf("app", m) = <<c>> /\ Answering(m, c)
                BY <1>5, <1>7, <2>1, <3>2
            <4>2. i = 1 /\ e = c
                BY <1>7, <2>1, <3>2, <4>1
            <4>3. Good(AppIo, c)
                BY <1>13, <4>1
            <4>4. Good(AppIo, c)'
                BY <1>6, <1>8, <4>3 DEF Good, GoodLinks, GoodOfMain, GoodOfIo, ParentOf,
                                       Older, Main, AppIo
            <4> QED BY <3>2, <4>2, <4>4
        <3> QED BY <3>1, <3>2
    <2> QED BY <2>1 DEF GoodCalls, Good, GoodLinks, GoodOfMain, GoodOfIo, Older, ParentOf,
                       PartSent, ServerHasPart, At
<1>15. Answers'
    <2>1. \A i \in DOMAIN queue'["app"] :
              i + 1 \in DOMAIN queue["app"] /\ queue'["app"][i] = queue["app"][i + 1]
        <3> HIDE DEF S
        <3> QED BY <1>2, <1>7
    <2>2. ASSUME NEW i \in DOMAIN queue'["app"], NEW e, e = queue'["app"][i]
          PROVE  AnswerOK(e)'
        <3>1. MessageOK(e) /\ AnswerOK(e)
            BY <1>1, <1>2, <2>1, <2>2 DEF MessagesOK, Answers
        <3> QED BY <1>1, <1>9, <3>1, AnswerStays
    <2>3. \A i \in DOMAIN queue'["app"] : AnswerOK(queue["app"][i])'
        BY <2>2 DEF AnswerOK, DatumOf, PartsOf
    <2> QED BY <2>3 DEF Answers
<1>16. FirstIsMine' /\ Increasing'
    BY <1>6, <1>7, <1>8 DEF ServerInv, FirstIsMine, NoData, HasCall, Increasing
<1>17. OfProgram'
    BY <1>6, <1>7, <1>8, ProgramStays DEF ServerInv
<1> QED BY <1>10, <1>11, <1>12, <1>14, <1>15, <1>16, <1>17 DEF ServerInv

\* Nothing is made, and the program is all to do.
LEMMA InitServer == Init => ServerInv
<1> SUFFICES ASSUME Init PROVE ServerInv
    OBVIOUS
<1>1. /\ todo[Main] = Program /\ todo[AppIo] = <<>> /\ todo[ServerIo] = <<>>
      /\ all_data["app"] = <<>> /\ all_data["server"] = <<>>
      /\ part_list["app"] = <<>> /\ part_list["server"] = <<>>
      /\ queue["app"] = <<>> /\ queue["server"] = <<>>
      /\ mine.data = <<>> /\ mine.part = <<>>
    BY SideFacts DEF Init
<1>2. ASSUME NEW i \in DOMAIN Program
      PROVE  /\ Program[i].call \in ProgramNames
             /\ Program[i].call = "data" => Program[i].args[1] = None
    <2>1. Program[i] \in ProgramCalls
        BY ProgramAssumption
    <2> QED BY <2>1 DEF ProgramCalls, ProgramNames
<1>3. PICK p \in Nat : p = Len(Program) /\ DOMAIN Program = 1..p
    BY ProgramAssumption
<1>4. ~Cut /\ ~EverCut
    BY <1>1 DEF Cut, EverCut, CutsBy, HasCall, ToServer, OnWay, DataKeys
<1>5. Counted
    <2>1. \A names : ~HeadIs(AppIo, names)
        BY <1>1 DEF HeadIs
    <2>2. ~HeadIs(Main, {"data_created"})
        <3> SUFFICES ASSUME todo[Main] # <<>> PROVE Head(todo[Main]).call # "data_created"
            BY DEF HeadIs
        <3>1. 1 \in DOMAIN Program /\ Head(todo[Main]) = Program[1]
            BY <1>1, ProgramAssumption
        <3> QED BY <1>2, <3>1 DEF ProgramNames
    <2>3. Unsent = 0 /\ OneIf(EverCut) = 0
        BY <1>4, <2>1, <2>2 DEF Unsent, OneIf
    <2>4. ServerHas(OnWay) = 0
        <3>1. OnWay = 0 /\ CreatedIn(ToServer, 0) = 0
            BY <1>1, CreatedNext DEF OnWay, ToServer
        <3>2. OneIf(HeadIs(ServerIo, {"data", "child"})) = 0 /\ OneIf(~Cut /\ CutsBy(0)) = 0
            BY <1>1, <1>4, <3>1 DEF HeadIs, OneIf, EverCut
        <3>3. Len(all_data["server"]) = 0
            BY <1>1
        <3> QED BY <3>1, <3>2, <3>3 DEF ServerHas
    <2>5. Len(all_data["app"]) = 0
        BY <1>1
    <2> QED BY <2>3, <2>4, <2>5 DEF Counted
<1>6. DataKnown /\ PartsKnown /\ Answers
    BY <1>1 DEF DataKnown, PartsKnown, Answers, ToServer
<1>7. LinksSent
    BY <1>1 DEF LinksSent, PartKeys, DataKeys
<1>8. GoodCalls
    <2> SUFFICES ASSUME NEW i \in DOMAIN Program PROVE Good(Main, Program[i])
        BY <1>1 DEF GoodCalls
    <2> QED BY <1>2, SideFacts DEF Good, GoodLinks, GoodOfMain, ProgramNames
<1>9. FirstIsMine /\ Increasing
    BY <1>1 DEF FirstIsMine, Increasing, NoData, HasCall, ToServer
<1>10. HasMade(0)
    <2>1. Begun(0) = 0
        BY <1>1, <1>3 DEF Begun
    <2>2. \A i \in 1..p : ~(i <= 0) /\ 0 + i - 0 = i
        OBVIOUS
    <2>3. \A i \in DOMAIN todo[Main] :
              IF i <= Begun(0) THEN todo[Main][i].call \notin ProgramNames
              ELSE todo[Main][i] = Program[0 + i - Begun(0)]
        BY <1>1, <1>3, <2>1, <2>2
    <2>4. Len(mine.data) = MadeBy(0)
        BY <1>1, MadeNext
    <2>5. 0 \in 0..Len(Program) /\ ~\E h \in 1..0 : IsCut(h)
        BY <1>3
    <2> QED BY <2>1, <2>3, <2>4, <2>5 DEF HasMade
<1> QED BY <1>5, <1>6, <1>7, <1>8, <1>9, <1>10 DEF ServerInv, OfProgram

\* Every step keeps what the server is told within what it will have.
LEMMA ServerInvKept ==
    ASSUME FirstCutEarly, MQInv, MQInv', ServerInv, [Next]_vars
    PROVE  ServerInv'
<1>1. ASSUME NEW t \in Threads, Step(t) PROVE ServerInv'
    <2>1. t \in {Main, AppIo} \/ t = ServerIo
        BY SideFacts
    <2> QED BY <1>1, <2>1, AppActs, ServerActs
<1>2. ASSUME NEW s \in Sides, Receive(s) PROVE ServerInv'
    <2>1. s = "app" \/ s = "server"
        BY DEF Sides
    <2> QED BY <1>2, <2>1, AppTakes, ServerTakes
<1>3. CASE UNCHANGED vars
    BY <1>3, StoppedStays DEF Stopped, vars
<1> QED BY <1>1, <1>2, <1>3 DEF Next

\* No message names a key its receiver does not have, at either process, for every
\* program whose first cut is of the first datum or of one after which another has
\* been made: the server makes at least one datum for each the application broadcasts
\* and one more when it first cuts one, which is as many as the application has made
\* and not broadcast when its other thread broadcasts first.
THEOREM KeysCorrect == ASSUME FirstCutEarly PROVE Spec => []KeysResolve
<1>1. Init => ServerInv
    BY InitServer
<1>2. MQInv /\ MQInv' /\ ServerInv /\ [Next]_vars => ServerInv'
    BY ServerInvKept
<1>3. MQInv /\ ServerInv => KeysResolve
    BY AppResolves, ServerResolves DEF MQInv, ServerInv, KeysResolve, Sides
<1> QED BY <1>1, <1>2, <1>3, MQInductive, PTL DEF Spec
===============================================================================
