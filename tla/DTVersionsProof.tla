--------------------------- MODULE DTVersionsProof ---------------------------
(***************************************************************************)
(* Why the versions of DuctTeip's data order the tasks, for any program    *)
(* and any number of ranks.                                                *)
(*                                                                         *)
(* A version is a count of accesses.  The read version of d counts the     *)
(* accesses of the tasks built so far, its run-time read version those of  *)
(* the finished tasks; a write version counts up to the last writer.  When *)
(* a required version is met, two such sets of accesses, one inside the    *)
(* other, have the same size: the finished tasks are those of the program  *)
(* the task has to wait for.                                               *)
(***************************************************************************)
EXTENDS DTVersions, FiniteSetTheorems, WellFoundedInduction, TLAPS

\* The accesses of d by the tasks of T, and their number.
AccessesOf(T, d) ==
    {a \in Tasks \X Nat : /\ a[1] \in T
                          /\ a[2] \in DOMAIN Args[a[1]]
                          /\ Args[a[1]][a[2]].data = d}
Count(T, d) == Cardinality(AccessesOf(T, d))

\* Task q writes d; the tasks up to the last one of T that does.
IsWriter(q, d) == \E j \in DOMAIN Args[q] : Args[q][j].data = d /\ Args[q][j].axs = InOut
UpToWrite(T, d) == {p \in Tasks : \E q \in T : IsWriter(q, d) /\ p <= q}
CountToWrite(T, d) == Count(UpToWrite(T, d), d)

FinishedTasks == {p \in Tasks : status[p] = "finished"}
Started(p) == status[p] \in {"running", "finished"}

\* What the versions stand for, and the order they keep.
BuiltVersions ==
    \A r \in Ranks, d \in Data :
        /\ readVersion[r][d] = Count(1..built[r], d)
        /\ writeVersion[r][d] = CountToWrite(1..built[r], d)

RunTimeVersions ==
    \A d \in Data :
        /\ rtRead[d] = Count(FinishedTasks, d)
        /\ rtWrite[d] = CountToWrite(FinishedTasks, d)

VersionsOf(p) ==
    [i \in DOMAIN Args[p] |->
        IF Args[p][i].axs = In THEN CountToWrite(1..(p - 1), Args[p][i].data)
                               ELSE Count(1..(p - 1), Args[p][i].data)]

Registered ==
    \A p \in Tasks :
        /\ status[p] # "new" <=> p <= built[Host(p)]
        /\ status[p] # "new" => required[p] = VersionsOf(p)

Ordered == \A e \in Conflict : Started(e[2]) => status[e[1]] = "finished"

DTInv ==
    /\ TypeOK
    /\ BuiltVersions
    /\ RunTimeVersions
    /\ Registered
    /\ Ordered
-------------------------------------------------------------------------------
(* The program *)

\* Numbers of tasks, and what an argument is.
LEMMA Numbers == NTasks \in Nat /\ Tasks \subseteq Nat \ {0} /\ IsFiniteSet(Tasks)
<1>1. NTasks \in Nat
    BY DTVersionsAssumption
<1>2. IsFiniteSet(1..NTasks)
    BY <1>1, FS_Interval
<1> QED BY <1>1, <1>2 DEF Tasks

\* A task has arguments: data, each read or written.
LEMMA ArgTypes ==
    ASSUME NEW p \in Tasks
    PROVE  /\ Len(Args[p]) \in Nat \ {0}
           /\ DOMAIN Args[p] = 1..Len(Args[p])
           /\ \A i \in DOMAIN Args[p] :
                 Args[p][i].data \in Data /\ Args[p][i].axs \in {In, InOut}
<1> DEFINE Arg == [data : Data, axs : {In, InOut}]
<1>1. Args[p] \in Seq(Arg) /\ Args[p] # <<>>
    BY DTVersionsAssumption
<1>2. \A a \in Arg : a.data \in Data /\ a.axs \in {In, InOut}
    OBVIOUS
<1>3. /\ Len(Args[p]) \in Nat \ {0}
      /\ DOMAIN Args[p] = 1..Len(Args[p])
      /\ \A i \in DOMAIN Args[p] : Args[p][i] \in Arg
  <2> HIDE DEF Arg
  <2> QED BY <1>1
<1> QED BY <1>2, <1>3

\* A bounded set of natural numbers that is not empty has a greatest element.
LEMMA GreatestOf ==
    ASSUME NEW n \in Nat, NEW S \in SUBSET Nat, S # {}, \A i \in S : i <= n
    PROVE  \E i \in S : \A j \in S : j <= i
<1> DEFINE D == {n - i : i \in S}
<1>1. D \subseteq Nat /\ D # {}
  <2>1. \A i \in S : n - i \in Nat
      OBVIOUS
  <2> QED BY <2>1
<1>2. \E x \in D : \A y \in D : ~ <<y, x>> \in OpToRel(<, Nat)
  <2> HIDE DEF D
  <2> QED BY <1>1, NatLessThanWellFounded, WFMin
<1>3. PICK i \in S : \A y \in D : ~ <<y, n - i>> \in OpToRel(<, Nat)
    BY <1>2
<1>4. \A j \in S : ~ (n - j < n - i)
    BY <1>1, <1>3 DEF OpToRel
<1> QED BY <1>4

\* The host of a task is a rank.
LEMMA HostIsRank == ASSUME NEW p \in Tasks PROVE Host(p) \in Ranks
<1> DEFINE args == Args[p]
           W == {i \in DOMAIN args : args[i].axs = InOut}
           S == IF W # {} THEN W ELSE DOMAIN args
<1>0. /\ Len(args) \in Nat \ {0}
      /\ DOMAIN args = 1..Len(args)
    BY ArgTypes
<1>1. /\ S \in SUBSET Nat /\ S # {} /\ S \subseteq DOMAIN args /\ Len(args) \in Nat
      /\ \A i \in S : i <= Len(args)
  <2> HIDE DEF args
  <2> QED BY <1>0
<1>2. \E i \in S : \A j \in S : j <= i
  <2> HIDE DEF S
  <2> QED BY <1>1, GreatestOf
<1>3. HostData(args) \in Data
  <2>1. HostData(args) = args[CHOOSE i \in S : \A j \in S : j <= i].data
      BY DEF HostData
  <2>2. (CHOOSE i \in S : \A j \in S : j <= i) \in DOMAIN args
    <3> HIDE DEF S
    <3> QED BY <1>1, <1>2
  <2> HIDE DEF S
  <2> QED BY <2>1, <2>2, ArgTypes
<1> QED BY <1>3, DTVersionsAssumption DEF Host

\* A task that writes a datum accesses it once.
LEMMA WriterAccessesOnce ==
    ASSUME NEW p \in Tasks, NEW i \in DOMAIN Args[p], NEW j \in DOMAIN Args[p],
           Args[p][i].data = Args[p][j].data, Args[p][i].axs = InOut
    PROVE  i = j
BY NoAliasAssumption DEF In, InOut
-------------------------------------------------------------------------------
(* Counts of accesses *)

\* The accesses of tasks are finitely many.
LEMMA AccessesFinite ==
    ASSUME NEW T, NEW d
    PROVE  IsFiniteSet(AccessesOf(T, d)) /\ Count(T, d) \in Nat
<1> DEFINE f == [p \in Tasks |-> {p} \X (1..Len(Args[p]))]
           S == {f[p] : p \in Tasks}
<1>1. IsFiniteSet(S)
  <2>1. f \in Surjection(Tasks, S)
      BY DEF Surjection
  <2> HIDE DEF f, S
  <2> QED BY <2>1, Numbers, FS_Surjection
<1>2. \A s \in S : IsFiniteSet(s)
  <2> SUFFICES ASSUME NEW p \in Tasks PROVE IsFiniteSet({p} \X (1..Len(Args[p])))
      OBVIOUS
  <2>1. IsFiniteSet({p})
      BY FS_Singleton
  <2>2. IsFiniteSet(1..Len(Args[p]))
      BY ArgTypes, FS_Interval
  <2> QED BY <2>1, <2>2, FS_Product
<1>3. IsFiniteSet(UNION S)
  <2> HIDE DEF S
  <2> QED BY <1>1, <1>2, FS_UNION
<1>4. AccessesOf(T, d) \subseteq UNION S
    BY ArgTypes DEF AccessesOf
<1>5. IsFiniteSet(AccessesOf(T, d))
  <2> HIDE DEF S
  <2> QED BY <1>3, <1>4, FS_Subset
<1> QED BY <1>5, FS_CardinalityType DEF Count

\* What the loop of the constructor counts for one task is a count of its
\* accesses.
LEMMA CountOfOne ==
    ASSUME NEW p \in Tasks, NEW d
    PROVE  Cardinality(Accesses(Args[p], Len(Args[p]), d)) = Count({p}, d)
<1> DEFINE A == Accesses(Args[p], Len(Args[p]), d)
           f == [i \in A |-> <<p, i>>]
<1>1. A \subseteq 1..Len(Args[p])
    BY DEF Accesses
<1>2. IsFiniteSet(A)
  <2>1. IsFiniteSet(1..Len(Args[p]))
      BY ArgTypes, FS_Interval
  <2> HIDE DEF A
  <2> QED BY <1>1, <2>1, FS_Subset
<1>3. AccessesOf({p}, d) = {<<p, i>> : i \in A}
    BY ArgTypes DEF AccessesOf, Accesses
<1>4. f \in Bijection(A, AccessesOf({p}, d))
  <2> HIDE DEF A
  <2> QED BY <1>3 DEF Bijection, Injection, Surjection, IsInjective
<1>5. ExistsBijection(A, AccessesOf({p}, d))
  <2> HIDE DEF A, f
  <2> QED BY <1>4 DEF ExistsBijection
<1> QED BY <1>2, <1>5, FS_Bijection DEF Count

\* One more task adds its accesses.
LEMMA CountAdd ==
    ASSUME NEW T, NEW p \in Tasks, p \notin T, NEW d
    PROVE  Count(T \cup {p}, d) = Count(T, d) + Count({p}, d)
<1>1. AccessesOf(T \cup {p}, d) = AccessesOf(T, d) \cup AccessesOf({p}, d)
    BY DEF AccessesOf
<1>2. AccessesOf(T, d) \cap AccessesOf({p}, d) = {}
    BY DEF AccessesOf
<1> DEFINE A == AccessesOf(T, d)
           B == AccessesOf({p}, d)
<1>3. IsFiniteSet(A) /\ IsFiniteSet(B) /\ Cardinality(A) \in Nat /\ Cardinality(B) \in Nat
    BY AccessesFinite DEF Count
<1>4. Cardinality(A \cup B) = Cardinality(A) + Cardinality(B) - Cardinality(A \cap B)
  <2> HIDE DEF A, B
  <2> QED BY <1>3, FS_Union
<1>5. Cardinality(A \cap B) = 0
    BY <1>2, FS_EmptySet
<1>6. /\ Count(T \cup {p}, d) = Cardinality(A \cup B)
      /\ Count(T, d) = Cardinality(A) /\ Count({p}, d) = Cardinality(B)
    BY <1>1 DEF Count
<1> HIDE DEF A, B
<1> QED BY <1>3, <1>4, <1>5, <1>6

\* The tasks that count are those that access the datum.
LEMMA CountSame ==
    ASSUME NEW T, NEW U, NEW d, AccessesOf(T, d) = AccessesOf(U, d)
    PROVE  Count(T, d) = Count(U, d)
BY DEF Count

\* The version of a datum nobody has accessed is zero.
LEMMA CountNone == ASSUME NEW d PROVE Count({}, d) = 0 /\ CountToWrite({}, d) = 0
<1>1. AccessesOf({}, d) = {} /\ UpToWrite({}, d) = {}
    BY DEF AccessesOf, UpToWrite
<1> QED BY <1>1, FS_EmptySet DEF Count, CountToWrite
-------------------------------------------------------------------------------
(* The constructor's loop and the run-time versions *)

\* A task that writes d reaches it by one access.
LEMMA OneAccess ==
    ASSUME NEW p \in Tasks, NEW j \in DOMAIN Args[p], Args[p][j].axs = InOut
    PROVE  LET d == Args[p][j].data IN
           /\ Accesses(Args[p], Len(Args[p]), d) = {j}
           /\ Writes(Args[p], Len(Args[p]), d) = {j}
           /\ Accesses(Args[p], j, d) = {j}
           /\ Count({p}, d) = 1
<1> DEFINE d == Args[p][j].data
<1>1. \A i \in DOMAIN Args[p] : Args[p][i].data = d => i = j
    BY WriterAccessesOnce
<1>2. /\ Accesses(Args[p], Len(Args[p]), d) = {j}
      /\ Accesses(Args[p], j, d) = {j}
    BY <1>1, ArgTypes DEF Accesses
<1>3. Writes(Args[p], Len(Args[p]), d) = {j}
    BY <1>2 DEF Writes
<1>4. Count({p}, d) = 1
    BY <1>2, CountOfOne, FS_Singleton
<1> QED BY <1>2, <1>3, <1>4

\* What one task does to the versions: its accesses are added to the read
\* version, and a write brings the write version up to it.
ReadBy(p, read, d) == ReadAfter(Args[p], Len(Args[p]), read, d)
WriteBy(p, read, write, d) == WriteAfter(Args[p], Len(Args[p]), read, write, d)

\* DTTask's constructor moves the read version by the task's own accesses.
LEMMA ReadAfterTask ==
    ASSUME NEW p \in Tasks, NEW read, NEW d
    PROVE  ReadBy(p, read, d) = read[d] + Count({p}, d)
BY CountOfOne DEF ReadAfter, ReadBy

\* It brings the write version of what the task writes up to the read version.
LEMMA WriteAfterTask ==
    ASSUME NEW p \in Tasks, NEW read, NEW write, NEW d
    PROVE  WriteBy(p, read, write, d) =
               IF IsWriter(p, d) THEN ReadBy(p, read, d) ELSE write[d]
<1>1. CASE ~IsWriter(p, d)
  <2>1. Writes(Args[p], Len(Args[p]), d) = {}
      BY <1>1, ArgTypes DEF Writes, Accesses, IsWriter
  <2> QED BY <1>1, <2>1 DEF WriteAfter, WriteBy
<1>2. CASE IsWriter(p, d)
  <2>1. PICK j \in DOMAIN Args[p] : Args[p][j].data = d /\ Args[p][j].axs = InOut
      BY <1>2 DEF IsWriter
  <2>2. /\ Writes(Args[p], Len(Args[p]), d) = {j}
        /\ Accesses(Args[p], j, d) = {j}
      BY <2>1, OneAccess
  <2>3. (CHOOSE i \in {j} : \A k \in {j} : k <= i) = j
      BY ArgTypes
  <2>4. ReadAfter(Args[p], j, read, d) = ReadBy(p, read, d)
      BY <2>1, <2>2, OneAccess DEF ReadAfter, ReadBy
  <2>5. WriteBy(p, read, write, d) = ReadAfter(Args[p], j, read, d)
      BY <2>2, <2>3 DEF WriteAfter, WriteBy
  <2> QED BY <1>2, <2>4, <2>5
<1> QED BY <1>1, <1>2

\* So the counts move in the same way, when the tasks of T that access what p
\* writes are the earlier ones that do.
LEMMA CountToWriteAdd ==
    ASSUME NEW T \in SUBSET Tasks, NEW p \in Tasks, p \notin T, NEW d,
           IsWriter(p, d) =>
               \A q \in Tasks : \A i \in DOMAIN Args[q] :
                   Args[q][i].data = d => (q \in T <=> q < p)
    PROVE  CountToWrite(T \cup {p}, d) =
               IF IsWriter(p, d) THEN Count(T, d) + 1 ELSE CountToWrite(T, d)
<1>1. CASE ~IsWriter(p, d)
  <2>1. UpToWrite(T \cup {p}, d) = UpToWrite(T, d)
      BY <1>1 DEF UpToWrite
  <2> QED BY <1>1, <2>1 DEF CountToWrite
<1>2. CASE IsWriter(p, d)
  <2>1. \A q \in Tasks : \A i \in DOMAIN Args[q] : Args[q][i].data = d => (q \in T <=> q < p)
      BY <1>2
  <2>2. Count(T \cup {p}, d) = Count(T, d) + 1
    <3>1. Count(T \cup {p}, d) = Count(T, d) + Count({p}, d)
        BY CountAdd
    <3>2. Count({p}, d) = 1
        BY <1>2, OneAccess DEF IsWriter
    <3> QED BY <3>1, <3>2
  <2>3. AccessesOf(UpToWrite(T \cup {p}, d), d) = AccessesOf(T \cup {p}, d)
    <3>1. ASSUME NEW a \in AccessesOf(UpToWrite(T \cup {p}, d), d)
          PROVE  a[1] \in T \cup {p}
      <4>1. PICK q \in T \cup {p} : IsWriter(q, d) /\ a[1] <= q
          BY <3>1 DEF AccessesOf, UpToWrite
      <4>2. q = p \/ q < p
          BY <2>1, <4>1 DEF IsWriter
      <4>3. a[1] = p \/ a[1] < p
        <5>1. a[1] \in Nat /\ q \in Nat /\ p \in Nat
            BY <3>1, Numbers DEF AccessesOf
        <5> QED BY <4>1, <4>2, <5>1
      <4> QED BY <2>1, <4>3, <3>1 DEF AccessesOf
    <3>2. ASSUME NEW a \in AccessesOf(T \cup {p}, d)
          PROVE  a[1] \in UpToWrite(T \cup {p}, d)
      <4>1. a[1] = p \/ a[1] < p
        <5>1. /\ a[1] \in Tasks /\ a[2] \in DOMAIN Args[a[1]]
              /\ Args[a[1]][a[2]].data = d /\ (a[1] \in T \/ a[1] = p)
            BY <3>2 DEF AccessesOf
        <5> QED BY <2>1, <5>1
      <4>2. a[1] \in Tasks /\ a[1] <= p
        <5>1. a[1] \in Tasks /\ a[1] \in Nat /\ p \in Nat
            BY <3>2, Numbers DEF AccessesOf
        <5> QED BY <4>1, <5>1
      <4> QED BY <1>2, <4>2 DEF UpToWrite
    <3> QED BY <3>1, <3>2 DEF AccessesOf
  <2> QED BY <1>2, <2>2, <2>3, CountSame DEF CountToWrite
<1> QED BY <1>1, <1>2

\* An access requires the version the tasks before have left: the accesses of
\* the task itself do not move it.
LEMMA VersionRequired ==
    ASSUME NEW p \in Tasks, NEW read, NEW write, NEW i \in DOMAIN Args[p],
           read[Args[p][i].data] \in Nat
    PROVE  RequiredVersions(Args[p], read, write)[i] =
               IF Args[p][i].axs = In THEN write[Args[p][i].data]
                                      ELSE read[Args[p][i].data]
<1> DEFINE d == Args[p][i].data
<1>1. CASE Args[p][i].axs = In
  <2>1. Writes(Args[p], i - 1, d) = {}
    <3> SUFFICES ASSUME NEW j \in 1..(i - 1), Args[p][j].data = d, Args[p][j].axs = InOut
                 PROVE  FALSE
        BY DEF Writes, Accesses
    <3>1. j \in DOMAIN Args[p] /\ j # i
        BY ArgTypes
    <3> QED BY <3>1, WriterAccessesOnce
  <2> QED BY <1>1, <2>1 DEF RequiredVersions, WriteAfter
<1>2. CASE Args[p][i].axs = InOut
  <2>1. Accesses(Args[p], i - 1, d) = {}
    <3> SUFFICES ASSUME NEW j \in 1..(i - 1), Args[p][j].data = d
                 PROVE  FALSE
        BY DEF Accesses
    <3>1. j \in DOMAIN Args[p] /\ j # i
        BY ArgTypes
    <3> QED BY <1>2, <3>1, WriterAccessesOnce
  <2>2. ReadAfter(Args[p], i - 1, read, d) = read[d]
      BY <2>1, FS_EmptySet DEF ReadAfter
  <2>3. Args[p][i].axs # In
      BY <1>2 DEF In, InOut
  <2> QED BY <2>2, <2>3 DEF RequiredVersions
<1> QED BY <1>1, <1>2, ArgTypes
-------------------------------------------------------------------------------
(* What a task that is registered waits for *)

\* Two accesses of one datum, one of them a write, are a conflict.
LEMMA ConflictOf ==
    ASSUME NEW q \in Tasks, NEW p \in Tasks, q < p,
           NEW i \in DOMAIN Args[q], NEW j \in DOMAIN Args[p],
           Args[q][i].data = Args[p][j].data,
           Args[q][i].axs = InOut \/ Args[p][j].axs = InOut
    PROVE  <<q, p>> \in Conflict
BY DEF Conflict

\* The finished accesses that a task's required version counts are accesses of
\* the tasks before it: a later task in conflict with it has not started.
LEMMA ReadsBehind ==
    ASSUME Ordered, NEW p \in Tasks, status[p] = "registered",
           NEW i \in DOMAIN Args[p], Args[p][i].axs = InOut
    PROVE  AccessesOf(FinishedTasks, Args[p][i].data)
               \subseteq AccessesOf(1..(p - 1), Args[p][i].data)
<1> DEFINE d == Args[p][i].data
<1>0. \A q \in Tasks : q < p => q \in 1..(p - 1)
    BY Numbers
<1> SUFFICES ASSUME NEW a \in AccessesOf(FinishedTasks, d) PROVE a[1] < p
    BY <1>0 DEF AccessesOf
<1>1. /\ a[1] \in Tasks /\ status[a[1]] = "finished"
      /\ a[2] \in DOMAIN Args[a[1]] /\ Args[a[1]][a[2]].data = d
    BY DEF AccessesOf, FinishedTasks
<1>2. CASE p < a[1]
  <2>1. <<p, a[1]>> \in Conflict
      BY <1>1, <1>2, ConflictOf
  <2> QED BY <1>1, <2>1 DEF Ordered, Started
<1>3. a[1] # p
    BY <1>1
<1> QED BY <1>1, <1>2, <1>3, Numbers

\* The accesses up to the last write by a finished task are among those a
\* registered task counts.
LEMMA WritesBehind ==
    ASSUME Ordered, NEW p \in Tasks, status[p] = "registered", NEW i \in DOMAIN Args[p]
    PROVE  AccessesOf(UpToWrite(FinishedTasks, Args[p][i].data), Args[p][i].data)
               \subseteq AccessesOf(UpToWrite(1..(p - 1), Args[p][i].data), Args[p][i].data)
<1> DEFINE d == Args[p][i].data
<1> SUFFICES ASSUME NEW q \in FinishedTasks, IsWriter(q, d) PROVE q \in 1..(p - 1)
    BY DEF AccessesOf, UpToWrite
<1>1. q \in Tasks /\ status[q] = "finished" /\ q # p
    BY DEF FinishedTasks
<1>2. PICK j \in DOMAIN Args[q] : Args[q][j].data = d /\ Args[q][j].axs = InOut
    BY DEF IsWriter
<1>3. CASE p < q
  <2>1. <<p, q>> \in Conflict
      BY <1>1, <1>2, <1>3, ConflictOf
  <2> QED BY <1>1, <2>1 DEF Ordered, Started
<1> QED BY <1>1, <1>3, Numbers

\* When the versions it requires are there, the earlier tasks it conflicts with
\* are finished: an equal count of accesses is the same accesses.
THEOREM ReadyInOrder ==
    ASSUME DTInv, NEW p \in Tasks, status[p] = "registered", DataReady(p),
           NEW q \in Tasks, <<q, p>> \in Conflict
    PROVE  status[q] = "finished"
<1>1. PICK i \in DOMAIN Args[q], j \in DOMAIN Args[p] :
          /\ Args[q][i].data = Args[p][j].data
          /\ InOut \in {Args[q][i].axs, Args[p][j].axs}
    BY DEF Conflict
<1>2. q < p
    BY DEF Conflict
<1> DEFINE d == Args[p][j].data
<1>3. /\ rtRead[d] = Count(FinishedTasks, d) /\ rtWrite[d] = CountToWrite(FinishedTasks, d)
      /\ required[p] = VersionsOf(p)
    BY ArgTypes DEF DTInv, RunTimeVersions, Registered
<1>4. required[p][j] = IF Args[p][j].axs = In THEN rtWrite[d] ELSE rtRead[d]
    BY DEF DataReady
<1>5. CASE Args[p][j].axs = InOut
  <2>1. Args[p][j].axs # In
      BY <1>5 DEF In, InOut
  <2>2. Count(FinishedTasks, d) = Count(1..(p - 1), d)
      BY <1>3, <1>4, <2>1 DEF VersionsOf
  <2>3. AccessesOf(FinishedTasks, d) = AccessesOf(1..(p - 1), d)
    <3>1. AccessesOf(FinishedTasks, d) \subseteq AccessesOf(1..(p - 1), d)
        BY <1>5, ReadsBehind DEF DTInv
    <3>2. IsFiniteSet(AccessesOf(1..(p - 1), d))
        BY AccessesFinite
    <3> QED BY <2>2, <3>1, <3>2, FS_Subset DEF Count
  <2>4. <<q, i>> \in AccessesOf(1..(p - 1), d)
      BY <1>1, <1>2, Numbers, ArgTypes DEF AccessesOf
  <2> QED BY <2>3, <2>4 DEF AccessesOf, FinishedTasks
<1>6. CASE Args[p][j].axs = In
  <2> DEFINE F == UpToWrite(FinishedTasks, d)
             U == UpToWrite(1..(p - 1), d)
  <2>1. Args[q][i].axs = InOut
      BY <1>1, <1>6 DEF In, InOut
  <2>2. Count(F, d) = Count(U, d)
      BY <1>3, <1>4, <1>6 DEF VersionsOf, CountToWrite
  <2>3. AccessesOf(F, d) = AccessesOf(U, d)
    <3>1. AccessesOf(F, d) \subseteq AccessesOf(U, d)
        BY WritesBehind DEF DTInv
    <3>2. IsFiniteSet(AccessesOf(U, d))
        BY AccessesFinite
    <3> HIDE DEF F, U
    <3> QED BY <2>2, <3>1, <3>2, FS_Subset DEF Count
  <2>4. q \in 1..(p - 1) /\ IsWriter(q, d)
      BY <1>1, <1>2, <2>1, Numbers DEF IsWriter
  <2>5. <<q, i>> \in AccessesOf(U, d)
      BY <1>1, <2>4, Numbers, ArgTypes DEF AccessesOf, UpToWrite
  <2>6. PICK w \in FinishedTasks : IsWriter(w, d) /\ q <= w
      BY <2>3, <2>5 DEF AccessesOf, UpToWrite
  <2>7. CASE q < w
    <3>1. <<q, w>> \in Conflict
        BY <1>1, <2>6, <2>7, ConflictOf DEF IsWriter, FinishedTasks
    <3> QED BY <2>6, <3>1 DEF DTInv, Ordered, Started, FinishedTasks
  <2> QED BY <2>6, <2>7, Numbers DEF FinishedTasks
<1> QED BY <1>5, <1>6, ArgTypes

\* The versions a task requires are natural numbers.
LEMMA VersionsInSeq == ASSUME NEW p \in Tasks PROVE VersionsOf(p) \in Seq(Nat)
<1> DEFINE V == VersionsOf(p)
           n == Len(Args[p])
<1>1. \A d : Count(1..(p - 1), d) \in Nat /\ CountToWrite(1..(p - 1), d) \in Nat
    BY AccessesFinite DEF CountToWrite
<1>2. \A i \in DOMAIN V : V[i] \in Nat
    BY <1>1 DEF VersionsOf
<1>3. n \in Nat /\ V \in [1..n -> Nat]
    BY <1>2, ArgTypes DEF VersionsOf
<1>4. ASSUME NEW m \in Nat, NEW f \in [1..m -> Nat] PROVE f \in Seq(Nat)
    BY <1>4
<1> QED BY <1>3, <1>4
-------------------------------------------------------------------------------
(* The steps *)

\* Nothing is built at first.
LEMMA VersionsInit == Init => DTInv
<1> SUFFICES ASSUME Init PROVE DTInv
    OBVIOUS
<1>1. FinishedTasks = {} /\ \A r \in Ranks : 1..built[r] = {}
    BY DEF Init, FinishedTasks
<1>2. TypeOK
    BY Numbers DEF Init, TypeOK
<1>3. BuiltVersions /\ RunTimeVersions
    BY <1>1, CountNone DEF Init, BuiltVersions, RunTimeVersions
<1>4. Registered
    BY HostIsRank, Numbers DEF Init, Registered
<1>5. Ordered
    BY DEF Init, Ordered, Conflict, Started
<1> QED BY <1>2, <1>3, <1>4, <1>5 DEF DTInv

\* The constructor of DTTask, on any rank.
LEMMA NewDTTaskKeeps ==
    ASSUME DTInv, NEW r \in Ranks, NewDTTask(r)
    PROVE  DTInv'
<1> USE DEF DTInv
<1> DEFINE p == built[r] + 1
           args == Args[p]
           T == 1..built[r]
<1>1. /\ p \in Tasks /\ p \notin T /\ 1..p = T \cup {p} /\ T \subseteq Tasks
      /\ built[r] \in Nat /\ built[r] = p - 1
    BY Numbers DEF NewDTTask, TypeOK, Tasks
<1>2. /\ built' = [built EXCEPT ![r] = p]
      /\ rtRead' = rtRead /\ rtWrite' = rtWrite
    BY DEF NewDTTask
<1>3. \A d \in Data :
          /\ readVersion'[r][d] = Count(T \cup {p}, d)
          /\ writeVersion'[r][d] = CountToWrite(T \cup {p}, d)
  <2> TAKE d \in Data
  <2>1. /\ readVersion'[r][d] = ReadBy(p, readVersion[r], d)
        /\ writeVersion'[r][d] = WriteBy(p, readVersion[r], writeVersion[r], d)
      BY DEF NewDTTask, TypeOK, ReadBy, WriteBy
  <2>2. readVersion[r][d] = Count(T, d) /\ writeVersion[r][d] = CountToWrite(T, d)
      BY DEF BuiltVersions
  <2>3. \A q \in Tasks : q \in T <=> q < p
      BY <1>1, Numbers
  <2> HIDE DEF T, p
  <2>4. /\ Count(T \cup {p}, d) = Count(T, d) + Count({p}, d)
        /\ CountToWrite(T \cup {p}, d) =
               IF IsWriter(p, d) THEN Count(T, d) + 1 ELSE CountToWrite(T, d)
      BY <1>1, <2>3, CountAdd, CountToWriteAdd
  <2>5. /\ ReadBy(p, readVersion[r], d) = readVersion[r][d] + Count({p}, d)
        /\ WriteBy(p, readVersion[r], writeVersion[r], d) =
               IF IsWriter(p, d) THEN ReadBy(p, readVersion[r], d) ELSE writeVersion[r][d]
    <3>1. p \in Tasks
        BY <1>1
    <3>2. ReadBy(p, readVersion[r], d) = readVersion[r][d] + Count({p}, d)
        BY <3>1, ReadAfterTask
    <3>3. WriteBy(p, readVersion[r], writeVersion[r], d) =
               IF IsWriter(p, d) THEN ReadBy(p, readVersion[r], d) ELSE writeVersion[r][d]
        BY <3>1, WriteAfterTask
    <3> QED BY <3>2, <3>3
  <2>6. IsWriter(p, d) => Count({p}, d) = 1
      BY <1>1, OneAccess DEF IsWriter
  <2> QED BY <2>1, <2>2, <2>4, <2>5, <2>6
<1>4. \A s \in Ranks \ {r} :
          readVersion'[s] = readVersion[s] /\ writeVersion'[s] = writeVersion[s]
    BY DEF NewDTTask, TypeOK
<1>5. BuiltVersions'
    BY <1>1, <1>2, <1>3, <1>4 DEF BuiltVersions, TypeOK
<1>8. /\ readVersion' \in [Ranks -> [Data -> Nat]]
      /\ writeVersion' \in [Ranks -> [Data -> Nat]]
  <2>1. /\ readVersion' = [readVersion EXCEPT ![r] = [d \in Data |-> readVersion'[r][d]]]
        /\ writeVersion' = [writeVersion EXCEPT ![r] = [d \in Data |-> writeVersion'[r][d]]]
      BY DEF NewDTTask, TypeOK
  <2>2. \A d \in Data : readVersion'[r][d] \in Nat /\ writeVersion'[r][d] \in Nat
    <3> HIDE DEF T, p
    <3> QED BY <1>3, AccessesFinite DEF CountToWrite
  <2> QED BY <2>1, <2>2 DEF TypeOK
<1>6. CASE Host(p) = r
  <2>1. /\ required' = [required EXCEPT ![p] =
                           RequiredVersions(args, readVersion[r], writeVersion[r])]
        /\ status' = [status EXCEPT ![p] = "registered"]
      BY <1>6 DEF NewDTTask
  <2>2. RequiredVersions(args, readVersion[r], writeVersion[r]) = VersionsOf(p)
    <3>1. ASSUME NEW i \in DOMAIN args
          PROVE  RequiredVersions(args, readVersion[r], writeVersion[r])[i] = VersionsOf(p)[i]
      <4>1. args[i].data \in Data
          BY <1>1, ArgTypes
      <4>2. readVersion[r][args[i].data] = Count(T, args[i].data)
            /\ writeVersion[r][args[i].data] = CountToWrite(T, args[i].data)
          BY <4>1 DEF BuiltVersions
      <4>3. readVersion[r][args[i].data] \in Nat
          BY <4>1 DEF TypeOK
      <4>4. 1..(p - 1) = T
          BY <1>1
      <4> HIDE DEF p, T
      <4>5. RequiredVersions(args, readVersion[r], writeVersion[r])[i] =
                IF args[i].axs = In THEN writeVersion[r][args[i].data]
                                    ELSE readVersion[r][args[i].data]
          BY <1>1, <4>3, VersionRequired
      <4> QED BY <4>2, <4>4, <4>5 DEF VersionsOf
    <3> QED BY <3>1 DEF RequiredVersions, VersionsOf
  <2>3. Registered'
    <3>1. \A q \in Tasks : Host(q) \in Ranks
        BY HostIsRank
    <3> HIDE DEF p
    <3> QED BY <1>1, <1>2, <1>6, <2>1, <2>2, <3>1, Numbers
            DEF Registered, TypeOK, VersionsOf, CountToWrite, Count
  <2>4. TypeOK'
    <3>1. VersionsOf(p) \in Seq(Nat)
        BY <1>1, VersionsInSeq
    <3>2. built' \in [Ranks -> 0..NTasks]
        BY <1>1, <1>2, Numbers DEF TypeOK, Tasks
    <3> HIDE DEF p
    <3>3. required' \in [Tasks -> Seq(Nat)]
        BY <2>1, <2>2, <3>1 DEF TypeOK
    <3>4. status' \in [Tasks -> {"new", "registered", "running", "finished"}]
        BY <2>1 DEF TypeOK
    <3> QED BY <1>2, <1>8, <3>2, <3>3, <3>4 DEF TypeOK
  <2>5. status[p] = "new"
    <3>1. ~(p <= built[r])
        BY <1>1
    <3> HIDE DEF p
    <3> QED BY <1>1, <1>6, <3>1 DEF Registered
  <2>6. RunTimeVersions'
    <3>1. FinishedTasks' = FinishedTasks
      <4> HIDE DEF p
      <4> QED BY <1>1, <2>1, <2>5 DEF FinishedTasks, TypeOK
    <3> QED BY <1>2, <3>1 DEF RunTimeVersions
  <2>7. Ordered'
    <3> HIDE DEF p
    <3> QED BY <1>1, <2>1, <2>5 DEF Ordered, Started, TypeOK, Conflict
  <2> QED BY <1>5, <2>3, <2>4, <2>6, <2>7
<1>7. CASE Host(p) # r
  <2>1. required' = required /\ status' = status
      BY <1>7 DEF NewDTTask
  <2>2. Registered'
    <3>1. \A q \in Tasks : Host(q) \in Ranks
        BY HostIsRank
    <3> HIDE DEF p
    <3> QED BY <1>1, <1>2, <1>7, <2>1, <3>1, Numbers DEF Registered, TypeOK
  <2>3. TypeOK'
    <3>1. built' \in [Ranks -> 0..NTasks]
        BY <1>1, <1>2, Numbers DEF TypeOK, Tasks
    <3> QED BY <1>2, <1>8, <2>1, <3>1 DEF TypeOK
  <2>4. RunTimeVersions' /\ Ordered'
      BY <1>2, <2>1 DEF RunTimeVersions, FinishedTasks, Ordered, Started
  <2> QED BY <1>5, <2>2, <2>3, <2>4
<1> QED BY <1>6, <1>7

\* The engine runs a task whose versions are there.
LEMMA RunKeeps ==
    ASSUME DTInv, NEW p \in Tasks, Run(p)
    PROVE  DTInv'
<1> USE DEF DTInv
<1>1. /\ status[p] = "registered" /\ status' = [status EXCEPT ![p] = "running"]
      /\ UNCHANGED <<built, readVersion, writeVersion, required, rtRead, rtWrite>>
    BY DEF Run
<1>2. TypeOK'
    BY <1>1 DEF TypeOK
<1>3. BuiltVersions'
    BY <1>1 DEF BuiltVersions
<1>4. FinishedTasks' = FinishedTasks
    BY <1>1 DEF FinishedTasks, TypeOK
<1>5. RunTimeVersions'
    BY <1>1, <1>4 DEF RunTimeVersions
<1>6. Registered'
  <2>1. \A q \in Tasks : (status'[q] # "new") <=> (status[q] # "new")
      BY <1>1 DEF TypeOK
  <2> QED BY <1>1, <2>1 DEF Registered
<1>7. Ordered'
  <2> SUFFICES ASSUME NEW e \in Conflict, Started(e[2])' PROVE status'[e[1]] = "finished"
      BY DEF Ordered
  <2>1. e[1] \in Tasks /\ e[2] \in Tasks /\ e = <<e[1], e[2]>> /\ e[1] # e[2]
    <3>1. PICK q \in Tasks, t \in Tasks : e = <<q, t>>
        BY DEF Conflict
    <3>2. q < t /\ q \in Nat /\ t \in Nat
        BY <3>1, Numbers DEF Conflict
    <3> QED BY <3>1, <3>2
  <2>2. CASE e[2] = p
    <3>1. status[e[1]] = "finished"
        BY <1>1, <2>1, <2>2, ReadyInOrder DEF Run
    <3> QED BY <1>1, <2>1, <3>1 DEF TypeOK
  <2>3. CASE e[2] # p
    <3>1. Started(e[2])
        BY <1>1, <2>1, <2>3 DEF Started, TypeOK
    <3> QED BY <1>1, <2>1, <3>1 DEF Ordered, TypeOK
  <2> QED BY <2>2, <2>3
<1> QED BY <1>2, <1>3, <1>5, <1>6, <1>7

\* The end of a task advances the run-time versions by its accesses.  The tasks
\* that access what it writes and are finished are the earlier ones: those it
\* waited for, and none that waits for it.
LEMMA FinishKeeps ==
    ASSUME DTInv, NEW p \in Tasks, Finish(p)
    PROVE  DTInv'
<1> USE DEF DTInv
<1>1. /\ status[p] = "running" /\ status' = [status EXCEPT ![p] = "finished"]
      /\ UNCHANGED <<built, readVersion, writeVersion, required>>
    BY DEF Finish
<1>2. \A d \in Data : /\ rtRead'[d] = ReadBy(p, rtRead, d)
                      /\ rtWrite'[d] = WriteBy(p, rtRead, rtWrite, d)
    BY DEF Finish, ReadBy, WriteBy
<1>3. FinishedTasks' = FinishedTasks \cup {p} /\ p \notin FinishedTasks
    BY <1>1 DEF FinishedTasks, TypeOK
<1>4. ASSUME NEW d, IsWriter(p, d), NEW q \in Tasks, NEW i \in DOMAIN Args[q],
             Args[q][i].data = d
      PROVE  q \in FinishedTasks <=> q < p
  <2>1. PICK j \in DOMAIN Args[p] : Args[p][j].data = d /\ Args[p][j].axs = InOut
      BY <1>4 DEF IsWriter
  <2>2. CASE q < p
    <3>1. <<q, p>> \in Conflict
        BY <1>4, <2>1, <2>2, ConflictOf
    <3> QED BY <1>1, <2>2, <3>1 DEF Ordered, Started, FinishedTasks
  <2>3. CASE p < q
    <3>1. <<p, q>> \in Conflict
        BY <1>4, <2>1, <2>3, ConflictOf
    <3>2. status[q] # "finished"
        BY <1>1, <3>1 DEF Ordered, Started
    <3> QED BY <2>3, <3>2, Numbers DEF FinishedTasks
  <2>4. CASE q = p
      BY <1>3, <2>4, Numbers
  <2> QED BY <2>2, <2>3, <2>4, Numbers
<1>5. ASSUME NEW d \in Data
      PROVE  /\ rtRead'[d] = Count(FinishedTasks \cup {p}, d)
             /\ rtWrite'[d] = CountToWrite(FinishedTasks \cup {p}, d)
  <2>1. rtRead[d] = Count(FinishedTasks, d) /\ rtWrite[d] = CountToWrite(FinishedTasks, d)
      BY DEF RunTimeVersions
  <2>2. Count(FinishedTasks \cup {p}, d) = Count(FinishedTasks, d) + Count({p}, d)
      BY <1>3, CountAdd
  <2>3. CountToWrite(FinishedTasks \cup {p}, d) =
            IF IsWriter(p, d) THEN Count(FinishedTasks, d) + 1
                              ELSE CountToWrite(FinishedTasks, d)
    <3>1. FinishedTasks \in SUBSET Tasks
        BY DEF FinishedTasks
    <3> QED BY <1>3, <1>4, <3>1, CountToWriteAdd
  <2>4. ReadBy(p, rtRead, d) = rtRead[d] + Count({p}, d)
      BY ReadAfterTask
  <2>5. WriteBy(p, rtRead, rtWrite, d) =
            IF IsWriter(p, d) THEN ReadBy(p, rtRead, d) ELSE rtWrite[d]
      BY WriteAfterTask
  <2>6. IsWriter(p, d) => Count({p}, d) = 1
      BY OneAccess DEF IsWriter
  <2> QED BY <1>2, <2>1, <2>2, <2>3, <2>4, <2>5, <2>6
<1>6. TypeOK'
  <2>1. rtRead' \in [Data -> Nat] /\ rtWrite' \in [Data -> Nat]
    <3>1. \A d \in Data : rtRead'[d] \in Nat /\ rtWrite'[d] \in Nat
        BY <1>5, AccessesFinite DEF CountToWrite
    <3> QED BY <3>1 DEF Finish
  <2> QED BY <1>1, <2>1 DEF TypeOK
<1>7. BuiltVersions'
    BY <1>1 DEF BuiltVersions
<1>8. RunTimeVersions'
    BY <1>3, <1>5 DEF RunTimeVersions
<1>9. Registered'
  <2>1. \A q \in Tasks : (status'[q] # "new") <=> (status[q] # "new")
      BY <1>1 DEF TypeOK
  <2> QED BY <1>1, <2>1 DEF Registered
<1>10. Ordered'
  <2>1. \A q \in Tasks : Started(q)' <=> Started(q)
      BY <1>1 DEF Started, TypeOK
  <2>2. \A q \in Tasks : status[q] = "finished" => status'[q] = "finished"
      BY <1>1 DEF TypeOK
  <2> QED BY <2>1, <2>2 DEF Ordered, Conflict
<1> QED BY <1>6, <1>7, <1>8, <1>9, <1>10

\* What finished tasks have counted is within what a registered task requires,
\* so its version is still to come, or there.
LEMMA VersionsNotPassed == DTInv => NoVersionSkipped
<1> SUFFICES ASSUME DTInv, NEW p \in Tasks, status[p] = "registered",
                    NEW i \in DOMAIN Args[p]
             PROVE  IF Args[p][i].axs = In THEN rtWrite[Args[p][i].data] <= required[p][i]
                                           ELSE rtRead[Args[p][i].data] <= required[p][i]
  <2>1. ASSUME DTInv, NEW p \in Tasks, status[p] = "registered"
        PROVE  DOMAIN required[p] = DOMAIN Args[p]
      BY <2>1 DEF DTInv, Registered, VersionsOf
  <2> QED BY <2>1 DEF NoVersionSkipped
<1> DEFINE d == Args[p][i].data
<1>1. /\ rtRead[d] = Count(FinishedTasks, d) /\ rtWrite[d] = CountToWrite(FinishedTasks, d)
      /\ required[p] = VersionsOf(p)
    BY ArgTypes DEF DTInv, RunTimeVersions, Registered
<1>2. CASE Args[p][i].axs = In
  <2> DEFINE F == UpToWrite(FinishedTasks, d)
             U == UpToWrite(1..(p - 1), d)
  <2>1. required[p][i] = Count(U, d)
      BY <1>1, <1>2 DEF VersionsOf, CountToWrite
  <2>2. AccessesOf(F, d) \subseteq AccessesOf(U, d)
      BY WritesBehind DEF DTInv
  <2>3. Count(F, d) <= Count(U, d)
    <3> HIDE DEF F, U
    <3> QED BY <2>2, AccessesFinite, FS_Subset DEF Count
  <2> QED BY <1>1, <1>2, <2>1, <2>3 DEF CountToWrite
<1>3. CASE Args[p][i].axs # In
  <2>1. Args[p][i].axs = InOut
      BY <1>3, ArgTypes
  <2>2. required[p][i] = Count(1..(p - 1), d)
      BY <1>1, <1>3 DEF VersionsOf
  <2>3. AccessesOf(FinishedTasks, d) \subseteq AccessesOf(1..(p - 1), d)
      BY <2>1, ReadsBehind DEF DTInv
  <2>4. Count(FinishedTasks, d) <= Count(1..(p - 1), d)
      BY <2>3, AccessesFinite, FS_Subset DEF Count
  <2> QED BY <1>1, <1>3, <2>2, <2>4
<1> QED BY <1>2, <1>3
===============================================================================
