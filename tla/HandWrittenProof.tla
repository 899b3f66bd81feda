--------------------------- MODULE HandWrittenProof ---------------------------
(***************************************************************************)
(* Proofs about DynamicChain and HandWritten, for any number of tasks and  *)
(* workers, every configuration ChainAssumption allows and the products.   *)
(*                                                                         *)
(* HandInv has two halves.  One says why the kernels keep the order of the *)
(* program: it is about stage, run, the flags and what tasks wait for, and *)
(* is kept by what a step does to a task, whichever of the many handlers   *)
(* takes it.  The other says what the counts are, and there every handler  *)
(* that touches a count has a step of its own.                             *)
(***************************************************************************)
EXTENDS HandWritten, FiniteSetTheorems, TLAPS

\* What a program is that load made exit.
Blank ==
    /\ stage = [t \in Tasks |-> "none"]
    /\ run = [t \in Tasks |-> "idle"]
    /\ engine = NoTask
    /\ isFinished = [t \in Tops |-> FALSE]

Chains ==
    {<<"DuctTeip", "SuperGlue", "cpuBLAS">>, <<"DuctTeip", "cpuBLAS">>,
     <<"SuperGlue", "cpuBLAS">>} \cup
    {<<"DuctTeip", "SuperGlue", "cblas">>, <<"DuctTeip", "cblas">>,
     <<"SuperGlue", "cblas">>, <<"main", "cblas">>}

Started == IF prog = "exited" THEN Blank ELSE chain \in Chains

\* The tasks SuperGlue runs.
OfSG == IF chain[1] = "SuperGlue" THEN Tops ELSE IF Len(chain) = 3 THEN Subs ELSE {}

\* Sub-tasks are made, one after the other, by the operation of their parent.
Submission ==
    \A t \in Tasks : stage[t] # "none" =>
        /\ \A u \in Earlier(t) : stage[u] = "returned"
        /\ t \in Subs => Len(chain) = 3 /\ run[Parent(t)] \in {"operation", "over"}

SplitDone ==
    Len(chain) = 3 =>
        \A c \in Subs : run[Parent(c)] = "over" => stage[c] = "returned"

Accepted == \A t \in Tasks : run[t] # "idle" => stage[t] \in {"mapped", "returned"}

\* The engine is in one task at a time.
AtWork == IF Len(chain) = 3 THEN "operation" ELSE "kernel"
EngineAtWork ==
    IF chain[1] = "DuctTeip"
    THEN \A p \in Tops : /\ run[p] \in {"idle", AtWork, "over"}
                         /\ engine = p <=> run[p] = AtWork
    ELSE engine = NoTask

\* A flag is set too early only in a chain of three.
Flags ==
    \A p \in Tops : isFinished[p] =>
        chain[1] = "DuctTeip" /\ run[p] # "idle" /\ (Len(chain) = 3 \/ run[p] = "over")

FlagsInOrder ==
    chain[1] = "DuctTeip" =>
        \A u \in Tops : run[u] # "idle" =>
            \A t \in Earlier(u) : <<t, u>> \in registered => isFinished[t]

\* What a task of SuperGlue waits for, and what it found when it began.
Covered ==
    \A t, u \in OfSG :
        Before(t, u) /\ Ordered(t, u) /\ stage[u] \notin {"none", "built"}
            => run[t] = "over" \/ t \in waits[u]

KernelsInOrder ==
    \A t, u \in OfSG :
        Before(t, u) /\ Ordered(t, u) /\ run[u] # "idle" => run[t] = "over"

OneByOne ==
    chain[1] = "main" =>
        \A u \in Tops : stage[u] # "none" => \A t \in Earlier(u) : run[t] = "over"

Waited == prog = "done" /\ Len(chain) = 2 => \A t \in Programme : run[t] = "over"

OrderInv ==
    /\ Submission /\ SplitDone /\ Accepted /\ EngineAtWork
    /\ Flags /\ FlagsInOrder
    /\ Covered /\ KernelsInOrder
    /\ OneByOne /\ Waited

\* The sub-tasks of p that have stored the count.
Stored(p) == {c \in Subs : Parent(c) = p /\ run[c] \notin {"idle", "kernel", "count"}}

LockHeld == \A t \in Tasks : run[t] \in {"count", "stored"} <=> lock = t

\* The count, and what a worker has loaded of it, between the bounds.
LoadedNeverHigh ==
    \A c \in Subs : run[c] = "count" => loaded[c] <= Cardinality(Counted(Parent(c)))

NeverLow ==
    /\ \A p \in Tops : task_count[p] >= -Cardinality(Stored(p))
    /\ \A c \in Subs : run[c] = "count" => loaded[c] >= -Cardinality(Stored(Parent(c)))

\* As long as p is not flagged the count is not below one, save in the hands
\* of the worker that has just stored it.
NotFlagged(p) ==
    \/ task_count[p] = 0 /\ \A c \in Subs : Parent(c) = p => stage[c] = "none"
    \/ task_count[p] >= 0 /\ \E c \in Subs : Parent(c) = p /\ run[c] = "stored"
    \/ /\ task_count[p] >= 1
       /\ \A c \in Subs : Parent(c) = p /\ run[c] = "count" => loaded[c] >= 1

CountInv ==
    /\ CountNeverHigh
    /\ LoadedNeverHigh
    /\ NeverLow
    /\ \A p \in Tops : isFinished[p] \/ NotFlagged(p)

\* By hand: the zero is seen by the one who makes it.
HandCountInv ==
    /\ \A p \in Tops : task_count[p] = Cardinality(Alive(p))
    /\ \A c \in deleted : run[c] = "over"
    /\ \A c \in Subs : stage[c] # "none" /\ Alive(Parent(c)) = {} => isFinished[Parent(c)]

HandInv ==
    /\ AllTypeOK
    /\ Started
    /\ OrderInv
    /\ LockHeld
    /\ IF ByHand THEN HandCountInv ELSE CountInv
-------------------------------------------------------------------------------
(* The tasks *)

\* A task of the program is numbered by its place, a sub-task by its parent's and
\* its own; NoTask is neither.
LEMMA TaskFacts ==
    /\ NoTask \notin Tasks
    /\ \A t \in Tops : /\ t \in Tasks /\ t \notin Subs /\ Parent(t) = NoTask
                       /\ t[1] \in 1..NTop /\ t = <<t[1]>>
    /\ \A c \in Subs : /\ c \in Tasks /\ c \notin Tops /\ Parent(c) \in Tops
                       /\ c[1] \in 1..NTop /\ c[2] \in Nat \ {0}
                       /\ Parent(c) = <<c[1]>> /\ c[2] \in 1..Arity[c[1]]
                       /\ c = <<c[1], c[2]>>
    /\ \A p \in Tops : \E c \in Subs : Parent(c) = p
<1> USE ChainAssumption DEF Tops, Subs, Tasks, NoTask
<1>1. \A t \in Tops : /\ t \in Tasks /\ t \notin Subs
                      /\ t[1] \in 1..NTop /\ t = <<t[1]>>
    OBVIOUS
<1>2. \A c \in Subs : /\ c \in Tasks /\ c \notin Tops
                      /\ c[1] \in 1..NTop /\ c[2] \in 1..Arity[c[1]]
                      /\ c = <<c[1], c[2]>>
    OBVIOUS
<1>3. \A c \in Subs : c[2] \in Nat \ {0}
    BY <1>2
<1>4. \A c \in Subs : Parent(c) = <<c[1]>> /\ Parent(c) \in Tops
    BY <1>2 DEF Parent
<1>5. \A t \in Tops : Parent(t) = NoTask
    BY <1>1 DEF Parent
<1>6. \A p \in Tops : \E c \in Subs : Parent(c) = p
    <2> TAKE p \in Tops
    <2>1. p[1] \in 1..NTop /\ p = <<p[1]>> /\ 1 \in 1..Arity[p[1]]
        BY <1>1
    <2>2. <<p[1], 1>> \in Subs
        BY <2>1
    <2>3. <<p[1], 1>>[1] = p[1]
        OBVIOUS
    <2> QED BY <1>4, <2>1, <2>2, <2>3
<1>7. NoTask \notin Tasks
    BY <1>1, <1>2
<1> QED BY <1>1, <1>2, <1>3, <1>4, <1>5, <1>6, <1>7

\* A task is earlier than the next ones of its own level and parent only.
LEMMA EarlierFacts ==
    /\ \A t, u \in Tops : u \in Earlier(t) <=> u[1] < t[1]
    /\ \A c, d \in Subs : d \in Earlier(c) <=> Parent(d) = Parent(c) /\ d[2] < c[2]
    /\ \A t \in Tops : Earlier(t) \subseteq Tops
    /\ \A c \in Subs : Earlier(c) \subseteq Subs
<1> USE TaskFacts, ChainAssumption
<1>1. ASSUME NEW t \in Tops, NEW u \in Tops
      PROVE  u \in Earlier(t) <=> u[1] < t[1]
    <2>1. Earlier(t) = {<<q>> : q \in 1..t[1] - 1}
        BY DEF Earlier
    <2>2. u[1] \in 1..NTop /\ t[1] \in 1..NTop /\ u = <<u[1]>>
        OBVIOUS
    <2> QED BY <2>1, <2>2
<1>2. ASSUME NEW c \in Subs, NEW d \in Subs
      PROVE  d \in Earlier(c) <=> Parent(d) = Parent(c) /\ d[2] < c[2]
    <2>1. Earlier(c) = {c[1]} \X (1..c[2] - 1)
        BY DEF Earlier
    <2>2. /\ c[2] \in Nat \ {0} /\ d[2] \in Nat \ {0} /\ d = <<d[1], d[2]>>
          /\ Parent(c) = <<c[1]>> /\ Parent(d) = <<d[1]>>
        OBVIOUS
    <2>3. Parent(d) = Parent(c) <=> d[1] = c[1]
        BY <2>2
    <2> QED BY <2>1, <2>2, <2>3
<1>3. ASSUME NEW t \in Tops
      PROVE  Earlier(t) \subseteq Tops
    <2>1. Earlier(t) = {<<q>> : q \in 1..t[1] - 1}
        BY DEF Earlier
    <2>2. t[1] \in 1..NTop
        OBVIOUS
    <2> QED BY <2>1, <2>2 DEF Tops
<1>4. ASSUME NEW c \in Subs
      PROVE  Earlier(c) \subseteq Subs
    <2>1. Earlier(c) = {c[1]} \X (1..c[2] - 1)
        BY DEF Earlier
    <2>2. c[1] \in 1..NTop /\ c[2] \in 1..Arity[c[1]] /\ Arity[c[1]] \in Nat
        OBVIOUS
    <2>3. 1..c[2] - 1 \subseteq 1..Arity[c[1]]
        BY <2>2
    <2> QED BY <2>1, <2>2, <2>3 DEF Subs
<1> QED BY <1>1, <1>2, <1>3, <1>4

\* Before is the order in which the program comes to the tasks.
LEMMA BeforeFacts ==
    /\ \A t, u \in Tops : Before(t, u) <=> t \in Earlier(u)
    /\ \A c, d \in Subs :
          Before(c, d) <=> c \in Earlier(d) \/ Parent(c) \in Earlier(Parent(d))
<1>1. ASSUME NEW t \in Tops, NEW u \in Tops
      PROVE  Before(t, u) <=> t \in Earlier(u)
    BY TaskFacts, EarlierFacts DEF Before
<1>2. ASSUME NEW c \in Subs, NEW d \in Subs
      PROVE  Before(c, d) <=> c \in Earlier(d) \/ Parent(c) \in Earlier(Parent(d))
    <2>1. /\ Parent(c) \in Tops /\ Parent(d) \in Tops
          /\ Parent(c) = <<c[1]>> /\ Parent(d) = <<d[1]>>
        BY TaskFacts
    <2>2. Parent(c) \in Earlier(Parent(d)) <=> c[1] < d[1]
        <3>1. Parent(c)[1] = c[1] /\ Parent(d)[1] = d[1]
            BY <2>1
        <3> QED BY <2>1, <3>1, EarlierFacts
    <2>3. c \in Earlier(d) <=> c[1] = d[1] /\ c[2] < d[2]
        BY <2>1, EarlierFacts
    <2> QED BY <2>2, <2>3 DEF Before
<1> QED BY <1>1, <1>2

\* The operations make finitely many sub-tasks, so that they can be counted.
LEMMA SubsFinite == IsFiniteSet(Subs)
<1> DEFINE F == [p \in 1..NTop |-> {p} \X (1..Arity[p])]
           S == {{p} \X (1..Arity[p]) : p \in 1..NTop}
<1>1. IsFiniteSet(1..NTop)
    BY ChainAssumption, FS_Interval
<1>2. F \in Surjection(1..NTop, S)
    BY DEF Surjection
<1>3. IsFiniteSet(S)
    BY <1>1, <1>2, FS_Surjection
<1>4. ASSUME NEW T \in S
      PROVE  IsFiniteSet(T)
    <2>1. PICK p \in 1..NTop : T = {p} \X (1..Arity[p])
        OBVIOUS
    <2>2. Arity[p] \in Int
        BY ChainAssumption
    <2>3. IsFiniteSet(1..Arity[p])
        BY <2>2, FS_Interval
    <2>4. IsFiniteSet({p})
        BY FS_Singleton
    <2> QED BY <2>1, <2>3, <2>4, FS_Product
<1> QED BY <1>3, <1>4, FS_UNION DEF Subs

\* The first k tasks of the program are k.
LEMMA FirstTops ==
    ASSUME NEW k \in 0..NTop
    PROVE  /\ IsFiniteSet({<<q>> : q \in 1..k})
           /\ Cardinality({<<q>> : q \in 1..k}) = k
<1> DEFINE F == [q \in 1..k |-> <<q>>]
           S == {<<q>> : q \in 1..k}
<1>1. F \in Bijection(1..k, S)
    <2>1. F \in [1..k -> S]
        OBVIOUS
    <2>2. \A a, b \in 1..k : F[a] = F[b] => a = b
        OBVIOUS
    <2>3. \A t \in S : \E a \in 1..k : F[a] = t
        OBVIOUS
    <2> QED BY <2>1, <2>2, <2>3 DEF Bijection, Injection, Surjection, IsInjective
<1>2. IsFiniteSet(1..k) /\ Cardinality(1..k) = k
    <2>1. k \in Nat
        BY ChainAssumption
    <2>2. /\ IsFiniteSet(1..k)
          /\ Cardinality(1..k) = IF 1 > k THEN 0 ELSE k - 1 + 1
        BY <2>1, FS_Interval
    <2> QED BY <2>1, <2>2
<1>3. ExistsBijection(1..k, S)
    BY <1>1 DEF ExistsBijection
<1> QED BY <1>2, <1>3, FS_Bijection

-------------------------------------------------------------------------------
(* The chain *)

\* Who owns a task, and whether it runs a kernel, is told by its level.
LEMMA ChainFacts ==
    ASSUME chain \in Chains
    PROVE  /\ Len(chain) \in {2, 3}
           /\ chain[1] \in {"DuctTeip", "SuperGlue", "main"}
           /\ Len(chain) = 3 => chain[1] = "DuctTeip" /\ chain[2] = "SuperGlue"
           /\ Len(chain) = 2 => chain[2] \notin {"DuctTeip", "SuperGlue", "main"}
           /\ ~ByHand => chain[1] # "main"
           /\ \A t \in Tops : Owner(t) = chain[1] /\ (BeforeLast(t) <=> Len(chain) = 2)
           /\ \A c \in Subs : Owner(c) = chain[2] /\ (BeforeLast(c) <=> Len(chain) = 3)
           /\ \A t \in Tasks : Owner(t) = "SuperGlue" <=> t \in OfSG
<1>1. /\ Len(chain) \in {2, 3} /\ DOMAIN chain = 1..Len(chain)
      /\ chain[1] \in {"DuctTeip", "SuperGlue", "main"}
      /\ Len(chain) = 3 => chain[1] = "DuctTeip" /\ chain[2] = "SuperGlue"
      /\ Len(chain) = 2 => chain[2] \notin {"DuctTeip", "SuperGlue", "main"}
      /\ \A i, j \in 1..Len(chain) : chain[i] = chain[j] => i = j
    <2>1. CASE chain \in {<<"DuctTeip", "SuperGlue", "cpuBLAS">>,
                          <<"DuctTeip", "SuperGlue", "cblas">>}
        <3>1. PICK x \in {"cpuBLAS", "cblas"} : chain = <<"DuctTeip", "SuperGlue", x>>
            BY <2>1
        <3>2. Len(chain) = 3 /\ DOMAIN chain = 1..3
            BY <3>1
        <3>3. chain[1] = "DuctTeip" /\ chain[2] = "SuperGlue" /\ chain[3] = x
            BY <3>1
        <3>4. \A i \in 1..3 : i = 1 \/ i = 2 \/ i = 3
            OBVIOUS
        <3> QED BY <3>2, <3>3, <3>4
    <2>2. CASE \E x, y \in {"DuctTeip", "SuperGlue", "main", "cpuBLAS", "cblas"} :
                  /\ x \in {"DuctTeip", "SuperGlue", "main"}
                  /\ y \in {"cpuBLAS", "cblas"}
                  /\ chain = <<x, y>>
        <3>1. PICK x \in {"DuctTeip", "SuperGlue", "main"}, y \in {"cpuBLAS", "cblas"} :
                    chain = <<x, y>>
            BY <2>2
        <3>2. Len(chain) = 2 /\ DOMAIN chain = 1..2
            BY <3>1
        <3>3. chain[1] = x /\ chain[2] = y
            BY <3>1
        <3>4. \A i \in 1..2 : i = 1 \/ i = 2
            OBVIOUS
        <3> QED BY <3>1, <3>2, <3>3, <3>4
    <2> QED BY <2>1, <2>2 DEF Chains
<1>2. ~ByHand => chain[1] # "main"
    BY DEF Chains, ByHand
<1>3. Find(chain[1]) = 1
    <2>1. \A i \in 1..Len(chain) : chain[i] = chain[1] <=> i = 1
        BY <1>1
    <2> QED BY <1>1, <2>1 DEF Find
<1>4. Find(chain[2]) = 2
    <2>1. \A i \in 1..Len(chain) : chain[i] = chain[2] <=> i = 2
        BY <1>1
    <2> QED BY <1>1, <2>1 DEF Find
<1>5. \A t \in Tops : Owner(t) = chain[1]
    BY TaskFacts DEF Owner
<1>6. \A c \in Subs : Owner(c) = chain[2]
    <2>1. \A c \in Subs : Parent(c) # NoTask
        BY TaskFacts
    <2> QED BY <1>3, <2>1 DEF Owner
<1>7. \A t \in Tops : BeforeLast(t) <=> Len(chain) = 2
    BY <1>1, <1>3, <1>5 DEF BeforeLast
<1>8. \A c \in Subs : BeforeLast(c) <=> Len(chain) = 3
    BY <1>1, <1>4, <1>6 DEF BeforeLast
<1>9. \A t \in Tasks : Owner(t) = "SuperGlue" <=> t \in OfSG
    BY <1>1, <1>5, <1>6, TaskFacts DEF OfSG, Tasks
<1> QED BY <1>1, <1>2, <1>5, <1>6, <1>7, <1>8, <1>9

-------------------------------------------------------------------------------
(* What a step does to a task *)

\* It is handed over, as a whole or after it has been built.
Submits(t) ==
    /\ Submitting(t)
    /\ stage[t] \in {"none", "built"}
    /\ \E s \in Stages \ {"none"} : stage' = [stage EXCEPT ![t] = s]
    /\ IF t \in OfSG /\ stage'[t] # "built"
       THEN waits' = [waits EXCEPT ![t] = Blockers(t)] ELSE UNCHANGED waits
    /\ chain[1] = "main" => \A u \in Earlier(t) : run[u] = "over"
    /\ UNCHANGED <<prog, run, isFinished, engine>>

\* Its submission goes on while it may be running.
Passes(t) ==
    /\ \E s \in {"linked", "mapped", "returned"} :
          /\ stage[t] \in IF s = "returned" THEN {"mapped"} ELSE {"queued", "linked"}
          /\ stage' = [stage EXCEPT ![t] = s]
    /\ UNCHANGED <<prog, run, isFinished, engine, waits>>

EngineTakes(t) ==
    /\ engine = NoTask /\ chain[1] = "DuctTeip"
    /\ stage[t] \in {"mapped", "returned"}
    /\ run[t] = "idle" /\ DataReady(t)
    /\ engine' = t
    /\ run' = [run EXCEPT ![t] = AtWork]
    /\ UNCHANGED <<prog, stage, isFinished, waits>>

EngineLeaves(t) ==
    /\ engine = t /\ run[t] = AtWork /\ chain[1] = "DuctTeip"
    /\ IF Len(chain) = 3
       THEN /\ \A c \in Subs : Parent(c) = t => stage[c] = "returned"
            /\ UNCHANGED isFinished
       ELSE isFinished' = [isFinished EXCEPT ![t] = TRUE]
    /\ run' = [run EXCEPT ![t] = "over"]
    /\ engine' = NoTask
    /\ UNCHANGED <<prog, stage, waits>>

WorkerTakes(t) ==
    /\ stage[t] \in {"mapped", "returned"}
    /\ run[t] = "idle"
    /\ \A u \in waits[t] : run[u] = "over"
    /\ run' = [run EXCEPT ![t] = "kernel"]
    /\ UNCHANGED <<prog, stage, isFinished, engine, waits>>

\* The worker is further than the kernel, and may flag the parent; or the task
\* is destroyed, which may flag it as well.
WorkerGoesOn(t) ==
    /\ run[t] \notin {"idle", "operation"}
    /\ \E s \in {"count", "stored", "release", "over"} :
          /\ run[t] = "over" => s = "over"
          /\ run' = [run EXCEPT ![t] = s]
    /\ \/ UNCHANGED isFinished
       \/ t \in Subs /\ isFinished' = [isFinished EXCEPT ![Parent(t)] = TRUE]
    /\ UNCHANGED <<prog, stage, engine, waits>>

\* bo_gemm
MainRuns(t) ==
    /\ stage[t] = "returned" /\ run[t] # "over"
    /\ run' = [run EXCEPT ![t] = IF @ = "idle" THEN "kernel" ELSE "over"]
    /\ UNCHANGED <<prog, stage, isFinished, engine, waits>>

Ends ==
    /\ Finalize \/ FinalizeReturns
    /\ UNCHANGED <<stage, run, isFinished, engine, waits>>

Effect ==
    /\ \/ \E t \in Tasks : Submits(t) \/ Passes(t)
       \/ chain[1] = "DuctTeip" /\ \E t \in Tops : EngineTakes(t) \/ EngineLeaves(t)
       \/ \E t \in OfSG : WorkerTakes(t) \/ WorkerGoesOn(t)
       \/ chain[1] = "main" /\ \E t \in Tops : MainRuns(t)
       \/ Ends
    /\ UNCHANGED <<chain, registered, length>>
-------------------------------------------------------------------------------
(* The order is kept by each effect *)

\* The program submits tasks that have no parent.
LEMMA ProgrammeTops == ASSUME AllTypeOK PROVE Programme \subseteq Tops
BY ChainAssumption DEF AllTypeOK, TypeOK, Programme, Tops

\* A task handed to SuperGlue waits for the earlier ones it conflicts with, which
\* is all the order asks of a submission.
LEMMA SubmitsKeeps ==
    ASSUME AllTypeOK, chain \in Chains, OrderInv, UNCHANGED <<chain, registered, length>>,
           NEW t \in Tasks, Submits(t)
    PROVE  OrderInv'
<1> PICK s \in Stages \ {"none"} : stage' = [stage EXCEPT ![t] = s]
    BY DEF Submits
<1>1. /\ stage \in [Tasks -> Stages] /\ run \in [Tasks -> RunStates]
      /\ waits \in [Tasks -> SUBSET Tasks]
    BY DEF AllTypeOK, TypeOK
<1>2. /\ stage[t] \in {"none", "built"} /\ stage'[t] = s
      /\ \A u \in Tasks \ {t} : stage'[u] = stage[u]
      /\ UNCHANGED <<prog, run, isFinished, engine>>
      /\ \A u \in Earlier(t) : stage[u] = "returned"
    BY <1>1 DEF Submits, Submitting
<1>3. run[t] = "idle"
    BY <1>2 DEF OrderInv, Accepted
<1>4. OfSG' = OfSG /\ OfSG \subseteq Tasks /\ AtWork' = AtWork
    BY TaskFacts DEF OfSG, Tasks, AtWork
<1>5. \A u \in Tasks : stage[u] = "returned" => stage'[u] = "returned"
    BY <1>2
<1>6. Submission'
    <2>1. \A u \in Tasks : Earlier(u) \subseteq Tasks
        BY TaskFacts, EarlierFacts DEF Tasks
    <2>2. ASSUME t \in Subs
          PROVE  Len(chain) = 3 /\ run[Parent(t)] \in {"operation", "over"}
        <3>1. engine = Parent(t) /\ run[Parent(t)] = "operation" /\ Parent(t) \in Tops
            BY <2>2, TaskFacts DEF Submits, Submitting
        <3>2. chain[1] = "DuctTeip" /\ run[Parent(t)] = AtWork
            BY <3>1, TaskFacts DEF OrderInv, EngineAtWork, Tasks
        <3> QED BY <3>1, <3>2, ChainFacts DEF AtWork
    <2> QED BY <1>2, <1>5, <2>1, <2>2 DEF OrderInv, Submission
<1>7. SplitDone'
    BY <1>2, <1>5, TaskFacts DEF OrderInv, SplitDone, Tasks
<1>8. Accepted'
    BY <1>2, <1>3 DEF OrderInv, Accepted
<1>9. EngineAtWork' /\ Flags' /\ FlagsInOrder' /\ KernelsInOrder' /\ Waited'
    BY <1>2, <1>4
    DEF OrderInv, EngineAtWork, Flags, FlagsInOrder, KernelsInOrder, Ordered, Waited,
        Programme
<1>10. OneByOne'
    BY <1>2, TaskFacts DEF OrderInv, OneByOne, Submits
<1>11. Covered'
    <2> SUFFICES ASSUME NEW a \in OfSG, NEW b \in OfSG,
                        Before(a, b), Ordered(a, b),
                        stage'[b] \notin {"none", "built"}
                 PROVE  run[a] = "over" \/ a \in waits'[b]
        BY <1>2, <1>4 DEF Covered, Ordered
    <2>1. CASE b # t
        BY <1>1, <1>2, <1>4, <2>1 DEF OrderInv, Covered, Submits
    <2>2. CASE b = t
        <3>1. waits'[t] = Blockers(t)
            BY <1>1, <1>2, <1>4, <2>2 DEF Submits
        <3>2. stage[a] = "returned"
            <4>1. CASE a \in Earlier(t)
                BY <1>2, <4>1
            <4>2. CASE a \notin Earlier(t)
                <5>1. a \in Subs /\ t \in Subs /\ Parent(a) \in Earlier(Parent(t))
                    BY <2>2, <4>2, BeforeFacts DEF OfSG
                <5>2. /\ engine = Parent(t) /\ run[Parent(t)] = "operation"
                      /\ Parent(t) \in Tops /\ Parent(a) \in Tops
                      /\ Parent(a) # Parent(t)
                    BY <5>1, TaskFacts, EarlierFacts DEF Submits, Submitting
                <5>3. chain[1] = "DuctTeip" /\ run[Parent(t)] = AtWork
                    BY <5>2, TaskFacts DEF OrderInv, EngineAtWork, Tasks
                <5>4. Len(chain) = 3
                    BY <5>2, <5>3, ChainFacts DEF AtWork
                <5>5. <<Parent(a), Parent(t)>> \in registered
                    BY <2>2, <5>2 DEF Ordered
                <5>6. isFinished[Parent(a)]
                    BY <5>1, <5>2, <5>3, <5>5 DEF OrderInv, FlagsInOrder
                <5>7. run[Parent(a)] = "over"
                    BY <5>2, <5>3, <5>6 DEF OrderInv, Flags, EngineAtWork
                <5> QED BY <5>1, <5>4, <5>7 DEF OrderInv, SplitDone
            <4> QED BY <4>1, <4>2
        <3>3. Owner(a) = "SuperGlue"
            BY <1>4, ChainFacts
        <3> QED BY <1>4, <2>2, <3>1, <3>2, <3>3 DEF Blockers, Ordered
    <2> QED BY <2>1, <2>2
<1> QED BY <1>6, <1>7, <1>8, <1>9, <1>10, <1>11 DEF OrderInv

\* The rest of a submission, which a worker may overtake, disturbs no order.
LEMMA PassesKeeps ==
    ASSUME AllTypeOK, OrderInv, UNCHANGED <<chain, registered, length>>, NEW t \in Tasks, Passes(t)
    PROVE  OrderInv'
<1> PICK s \in {"linked", "mapped", "returned"} :
          /\ stage[t] \in IF s = "returned" THEN {"mapped"} ELSE {"queued", "linked"}
          /\ stage' = [stage EXCEPT ![t] = s]
    BY DEF Passes
<1>1. stage \in [Tasks -> Stages]
    BY DEF AllTypeOK, TypeOK
<1>2. /\ stage[t] \in {"queued", "linked", "mapped"} /\ stage'[t] = s
      /\ stage[t] = "mapped" => s = "returned"
      /\ \A u \in Tasks \ {t} : stage'[u] = stage[u]
      /\ UNCHANGED <<prog, run, isFinished, engine, waits>>
    BY <1>1 DEF Passes
<1>3. OfSG' = OfSG /\ OfSG \subseteq Tasks /\ AtWork' = AtWork
    BY TaskFacts DEF OfSG, Tasks, AtWork
<1>4. \A u \in Tasks : stage[u] = "returned" => stage'[u] = "returned"
    BY <1>2
<1>5. \A u \in Tasks : stage'[u] \notin {"none", "built"} <=> stage[u] \notin {"none", "built"}
    BY <1>2
<1>6. \A u \in Tasks : stage'[u] = "none" <=> stage[u] = "none"
    BY <1>2
<1>7. Submission'
    <2>1. \A u \in Tasks : Earlier(u) \subseteq Tasks
        BY TaskFacts, EarlierFacts DEF Tasks
    <2> QED BY <1>2, <1>4, <1>6, <2>1 DEF OrderInv, Submission
<1>8. SplitDone'
    BY <1>2, <1>4, TaskFacts DEF OrderInv, SplitDone
<1>9. Accepted'
    BY <1>2 DEF OrderInv, Accepted
<1>10. EngineAtWork' /\ Flags' /\ FlagsInOrder' /\ KernelsInOrder' /\ Waited'
    BY <1>2, <1>3
    DEF OrderInv, EngineAtWork, Flags, FlagsInOrder, KernelsInOrder, Ordered, Waited,
        Programme
<1>11. OneByOne'
    BY <1>2, <1>6, TaskFacts DEF OrderInv, OneByOne
<1>12. Covered'
    BY <1>2, <1>3, <1>5 DEF OrderInv, Covered, Ordered
<1> QED BY <1>7, <1>8, <1>9, <1>10, <1>11, <1>12 DEF OrderInv

\* The engine enters a task only when the earlier ones in conflict are flagged.
LEMMA EngineTakesKeeps ==
    ASSUME AllTypeOK, chain \in Chains, OrderInv, UNCHANGED <<chain, registered, length>>,
           NEW t \in Tops, EngineTakes(t)
    PROVE  OrderInv'
<1>1. run \in [Tasks -> RunStates] /\ t \in Tasks /\ t # NoTask
    BY TaskFacts DEF AllTypeOK, TypeOK
<1>2. /\ run[t] = "idle" /\ run'[t] = AtWork
      /\ \A u \in Tasks \ {t} : run'[u] = run[u]
      /\ UNCHANGED <<prog, stage, isFinished, waits>>
      /\ chain[1] = "DuctTeip" /\ engine = NoTask /\ engine' = t
      /\ stage[t] \in {"mapped", "returned"}
    BY <1>1 DEF EngineTakes
<1>3. /\ OfSG' = OfSG /\ OfSG \subseteq Subs /\ AtWork' = AtWork
      /\ AtWork \notin {"idle", "over"}
    BY <1>2, ChainFacts DEF OfSG, AtWork
<1>4. \A c \in Subs : c \in Tasks /\ c # t /\ run'[c] = run[c]
    BY <1>2, TaskFacts
<1>5. Submission'
    <2>1. \A c \in Subs : Parent(c) \in Tasks
        BY TaskFacts
    <2>2. \A u \in Tasks : run[u] \in {"operation", "over"} => run'[u] = run[u]
        BY <1>2
    <2> QED BY <1>2, <2>1, <2>2 DEF OrderInv, Submission
<1>6. SplitDone'
    BY <1>2, <1>3, TaskFacts DEF OrderInv, SplitDone
<1>7. Accepted'
    BY <1>2 DEF OrderInv, Accepted
<1>8. EngineAtWork'
    <2> SUFFICES ASSUME NEW p \in Tops
                 PROVE  run'[p] \in {"idle", AtWork, "over"} /\ (t = p <=> run'[p] = AtWork)
        BY <1>2, <1>3 DEF EngineAtWork
    <2>1. /\ run[p] \in {"idle", AtWork, "over"} /\ run[p] # AtWork
          /\ p \in Tasks
        BY <1>2, TaskFacts DEF OrderInv, EngineAtWork
    <2> QED BY <1>2, <1>3, <2>1
<1>9. Flags'
    <2>1. \A p \in Tops : p # t => run'[p] = run[p]
        BY <1>2, TaskFacts
    <2> QED BY <1>2, <1>3, <2>1 DEF OrderInv, Flags
<1>10. FlagsInOrder'
    <2>1. \A u \in Earlier(t) : <<u, t>> \in registered => isFinished[u]
        BY DEF EngineTakes, DataReady
    <2>2. \A p \in Tops : p # t => run'[p] = run[p]
        BY <1>2, TaskFacts
    <2> QED BY <1>2, <2>1, <2>2 DEF OrderInv, FlagsInOrder
<1>11. Covered' /\ KernelsInOrder'
    BY <1>2, <1>3, <1>4 DEF OrderInv, Covered, KernelsInOrder, Ordered
<1>12. OneByOne'
    BY <1>2 DEF OneByOne
<1>13. Waited'
    <2>1. \A u \in Tops : run[u] = "over" => run'[u] = "over"
        BY <1>2, TaskFacts
    <2> QED BY <1>2, <2>1, ProgrammeTops DEF OrderInv, Waited, Programme
<1> QED BY <1>5, <1>6, <1>7, <1>8, <1>9, <1>10, <1>11, <1>12, <1>13 DEF OrderInv

\* When the engine leaves an operation all its sub-tasks have been registered.
LEMMA EngineLeavesKeeps ==
    ASSUME AllTypeOK, chain \in Chains, OrderInv, UNCHANGED <<chain, registered, length>>,
           NEW t \in Tops, EngineLeaves(t)
    PROVE  OrderInv'
<1>1. /\ run \in [Tasks -> RunStates] /\ isFinished \in [Tops -> BOOLEAN]
      /\ t \in Tasks /\ t # NoTask
    BY TaskFacts DEF AllTypeOK, TypeOK
<1>2. /\ run[t] = AtWork /\ run'[t] = "over"
      /\ \A u \in Tasks \ {t} : run'[u] = run[u]
      /\ UNCHANGED <<prog, stage, waits>>
      /\ chain[1] = "DuctTeip" /\ engine = t /\ engine' = NoTask
    BY <1>1 DEF EngineLeaves
<1>3. /\ OfSG' = OfSG /\ OfSG \subseteq Subs /\ AtWork' = AtWork
      /\ AtWork \notin {"idle", "over"}
    BY <1>2, ChainFacts DEF OfSG, AtWork
<1>4. \A c \in Subs : c \in Tasks /\ c # t /\ run'[c] = run[c]
    BY <1>2, TaskFacts
<1>5. \A p \in Tops : /\ p \in Tasks
                      /\ isFinished[p] => isFinished'[p]
                      /\ isFinished'[p] => isFinished[p] \/ p = t
    BY <1>1, TaskFacts DEF EngineLeaves
<1>6. Submission'
    <2>1. \A c \in Subs : Parent(c) \in Tasks
        BY TaskFacts
    <2>2. \A u \in Tasks : run[u] \in {"operation", "over"}
                                => run'[u] \in {"operation", "over"}
        BY <1>2
    <2> QED BY <1>2, <2>1, <2>2 DEF OrderInv, Submission
<1>7. SplitDone'
    <2>1. Len(chain) = 3 => \A c \in Subs : Parent(c) = t => stage[c] = "returned"
        BY DEF EngineLeaves
    <2> QED BY <1>2, <2>1, TaskFacts DEF OrderInv, SplitDone
<1>8. Accepted'
    BY <1>2, <1>3 DEF OrderInv, Accepted
<1>9. EngineAtWork'
    <2> SUFFICES ASSUME NEW p \in Tops
                 PROVE  run'[p] \in {"idle", AtWork, "over"} /\ run'[p] # AtWork
        BY <1>2, <1>3, TaskFacts DEF EngineAtWork
    <2>1. run[p] \in {"idle", AtWork, "over"} /\ (p # t => run[p] # AtWork)
        BY <1>2 DEF OrderInv, EngineAtWork
    <2> QED BY <1>2, <1>3, <1>5, <2>1
<1>10. Flags'
    BY <1>2, <1>5 DEF OrderInv, Flags
<1>11. FlagsInOrder'
    <2>1. \A u \in Tops : run'[u] # "idle" => run[u] # "idle"
        BY <1>2, <1>3, <1>5
    <2> QED BY <1>2, <1>5, <2>1, EarlierFacts DEF OrderInv, FlagsInOrder
<1>12. Covered' /\ KernelsInOrder'
    BY <1>2, <1>3, <1>4 DEF OrderInv, Covered, KernelsInOrder, Ordered
<1>13. OneByOne'
    BY <1>2 DEF OneByOne
<1>14. Waited'
    <2>1. \A u \in Tops : run[u] = "over" => run'[u] = "over"
        BY <1>2, <1>5
    <2> QED BY <1>2, <2>1, ProgrammeTops DEF OrderInv, Waited, Programme
<1> QED BY <1>6, <1>7, <1>8, <1>9, <1>10, <1>11, <1>12, <1>13, <1>14 DEF OrderInv

\* A worker touches no run but that of its task.
LEMMA WorkerTakesKeeps ==
    ASSUME AllTypeOK, chain \in Chains, OrderInv, UNCHANGED <<chain, registered, length>>,
           NEW t \in OfSG, WorkerTakes(t)
    PROVE  OrderInv'
<1>1. run \in [Tasks -> RunStates] /\ t \in Tasks
    BY TaskFacts DEF AllTypeOK, TypeOK, OfSG, Tasks
<1>2. /\ run[t] = "idle" /\ run'[t] = "kernel"
      /\ \A u \in Tasks \ {t} : run'[u] = run[u]
      /\ UNCHANGED <<prog, stage, isFinished, engine, waits>>
      /\ stage[t] \in {"mapped", "returned"}
      /\ \A u \in waits[t] : run[u] = "over"
    BY <1>1 DEF WorkerTakes
<1>3. /\ OfSG' = OfSG /\ OfSG \subseteq Tasks /\ AtWork' = AtWork
      /\ chain[1] # "main"
      /\ chain[1] = "DuctTeip" => t \notin Tops
    BY ChainFacts, TaskFacts DEF OfSG, AtWork, Tasks
<1>4. \A p \in Tops : /\ p \in Tasks
                      /\ chain[1] = "DuctTeip" => p # t /\ run'[p] = run[p]
    BY <1>2, <1>3, TaskFacts
<1>5. \A u \in Tasks : run[u] = "over" => run'[u] = "over"
    BY <1>2
<1>6. Submission'
    <2>1. \A c \in Subs : Parent(c) \in Tasks
        BY TaskFacts
    <2>2. \A u \in Tasks : run[u] \in {"operation", "over"} => run'[u] = run[u]
        BY <1>2
    <2> QED BY <1>2, <2>1, <2>2 DEF OrderInv, Submission
<1>7. SplitDone'
    BY <1>2, <1>4, ChainFacts, TaskFacts DEF OrderInv, SplitDone
<1>8. Accepted'
    BY <1>2 DEF OrderInv, Accepted
<1>9. EngineAtWork'
    BY <1>2, <1>3, <1>4 DEF OrderInv, EngineAtWork
<1>10. Flags' /\ FlagsInOrder'
    BY <1>2, <1>4 DEF OrderInv, Flags, FlagsInOrder
<1>11. Covered'
    BY <1>2, <1>3, <1>5 DEF OrderInv, Covered, Ordered
<1>12. KernelsInOrder'
    <2>1. \A a \in OfSG : Before(a, t) /\ Ordered(a, t) => run[a] = "over"
        BY <1>2 DEF OrderInv, Covered
    <2> QED BY <1>2, <1>3, <1>5, <2>1 DEF OrderInv, KernelsInOrder, Ordered
<1>13. OneByOne'
    BY <1>2, <1>3 DEF OneByOne
<1>14. Waited'
    BY <1>2, <1>4, <1>5, ProgrammeTops DEF OrderInv, Waited, Programme
<1> QED BY <1>6, <1>7, <1>8, <1>9, <1>10, <1>11, <1>12, <1>13, <1>14 DEF OrderInv

\* A flag set too early comes after the operation has begun.
LEMMA WorkerGoesOnKeeps ==
    ASSUME AllTypeOK, chain \in Chains, OrderInv, UNCHANGED <<chain, registered, length>>,
           NEW t \in OfSG, WorkerGoesOn(t)
    PROVE  OrderInv'
<1>1. /\ run \in [Tasks -> RunStates] /\ isFinished \in [Tops -> BOOLEAN] /\ t \in Tasks
    BY TaskFacts DEF AllTypeOK, TypeOK, OfSG, Tasks
<1>2. PICK s \in {"count", "stored", "release", "over"} :
          /\ run[t] = "over" => s = "over"
          /\ run' = [run EXCEPT ![t] = s]
    BY DEF WorkerGoesOn
<1>3. /\ run[t] \notin {"idle", "operation"} /\ run'[t] = s
      /\ \A u \in Tasks \ {t} : run'[u] = run[u]
      /\ UNCHANGED <<prog, stage, engine, waits>>
    BY <1>1, <1>2 DEF WorkerGoesOn
<1>4. /\ OfSG' = OfSG /\ OfSG \subseteq Tasks /\ AtWork' = AtWork
      /\ chain[1] # "main"
      /\ chain[1] = "DuctTeip" => t \notin Tops
      /\ t \in Subs => chain[1] = "DuctTeip" /\ Len(chain) = 3
    BY ChainFacts, TaskFacts DEF OfSG, AtWork, Tasks
<1>5. \A p \in Tops : /\ p \in Tasks
                      /\ chain[1] = "DuctTeip" => p # t /\ run'[p] = run[p]
    BY <1>3, <1>4, TaskFacts
<1>6. /\ \A u \in Tasks : run[u] = "over" => run'[u] = "over"
      /\ \A u \in Tasks : run'[u] # "idle" <=> run[u] # "idle"
    BY <1>2, <1>3
<1>7. \A p \in Tops : /\ isFinished[p] => isFinished'[p]
                      /\ isFinished'[p] => isFinished[p] \/ (t \in Subs /\ p = Parent(t))
    BY <1>1, TaskFacts DEF WorkerGoesOn
<1>8. Submission'
    <2>1. \A c \in Subs : Parent(c) \in Tasks
        BY TaskFacts
    <2>2. \A u \in Tasks : run[u] \in {"operation", "over"} => run'[u] = run[u]
        BY <1>2, <1>3
    <2> QED BY <1>3, <2>1, <2>2 DEF OrderInv, Submission
<1>9. SplitDone'
    BY <1>3, <1>5, ChainFacts, TaskFacts DEF OrderInv, SplitDone
<1>10. Accepted'
    BY <1>3, <1>6 DEF OrderInv, Accepted
<1>11. EngineAtWork'
    BY <1>3, <1>4, <1>5 DEF OrderInv, EngineAtWork
<1>12. Flags'
    <2>1. t \in Subs => run[Parent(t)] \in {"operation", "over"}
        BY <1>1, <1>3 DEF OrderInv, Accepted, Submission
    <2> QED BY <1>3, <1>4, <1>5, <1>6, <1>7, <2>1 DEF OrderInv, Flags
<1>13. FlagsInOrder'
    BY <1>5, <1>7, EarlierFacts DEF OrderInv, FlagsInOrder
<1>14. Covered' /\ KernelsInOrder'
    BY <1>3, <1>4, <1>6 DEF OrderInv, Covered, KernelsInOrder, Ordered
<1>15. OneByOne'
    BY <1>4 DEF OneByOne
<1>16. Waited'
    BY <1>3, <1>5, <1>6, ProgrammeTops DEF OrderInv, Waited, Programme
<1> QED BY <1>8, <1>9, <1>10, <1>11, <1>12, <1>13, <1>14, <1>15, <1>16 DEF OrderInv

\* bo_gemm runs each product before the next.
LEMMA MainRunsKeeps ==
    ASSUME AllTypeOK, chain \in Chains, OrderInv, UNCHANGED <<chain, registered, length>>,
           chain[1] = "main", NEW t \in Tops, MainRuns(t)
    PROVE  OrderInv'
<1>1. run \in [Tasks -> RunStates] /\ t \in Tasks
    BY TaskFacts DEF AllTypeOK, TypeOK
<1>2. /\ run'[t] \in {"kernel", "over"} /\ run[t] # "over" /\ stage[t] = "returned"
      /\ \A u \in Tasks \ {t} : run'[u] = run[u]
      /\ UNCHANGED <<prog, stage, isFinished, engine, waits>>
    BY <1>1 DEF MainRuns
<1>3. /\ Len(chain) = 2 /\ OfSG' = {} /\ AtWork' = AtWork
    BY ChainFacts DEF OfSG, AtWork
<1>4. \A u \in Tasks : run[u] = "over" => run'[u] = "over"
    BY <1>2
<1>5. Submission' /\ SplitDone'
    BY <1>2, <1>3 DEF OrderInv, Submission, SplitDone
<1>6. Accepted'
    BY <1>2 DEF OrderInv, Accepted
<1>7. EngineAtWork' /\ Flags' /\ FlagsInOrder'
    BY <1>2 DEF OrderInv, EngineAtWork, Flags, FlagsInOrder
<1>8. Covered' /\ KernelsInOrder'
    BY <1>3 DEF Covered, KernelsInOrder
<1>9. OneByOne'
    BY <1>2, <1>4, EarlierFacts, TaskFacts DEF OrderInv, OneByOne
<1>10. Waited'
    BY <1>2, <1>4, ProgrammeTops, TaskFacts DEF OrderInv, Waited, Programme
<1> QED BY <1>5, <1>6, <1>7, <1>8, <1>9, <1>10 DEF OrderInv

\* Waiting for the end changes no task.
LEMMA EndsKeeps ==
    ASSUME AllTypeOK, chain \in Chains, OrderInv, UNCHANGED <<chain, registered, length>>, Ends
    PROVE  OrderInv'
<1>1. UNCHANGED <<stage, run, isFinished, engine, waits>>
    BY DEF Ends
<1>2. OfSG' = OfSG /\ AtWork' = AtWork /\ Programme' = Programme
    BY DEF OfSG, AtWork, Programme
<1>3. Submission' /\ SplitDone' /\ Accepted' /\ EngineAtWork'
    BY <1>1, <1>2 DEF OrderInv, Submission, SplitDone, Accepted, EngineAtWork
<1>4. Flags' /\ FlagsInOrder' /\ Covered' /\ KernelsInOrder' /\ OneByOne'
    BY <1>1, <1>2
    DEF OrderInv, Flags, FlagsInOrder, Covered, KernelsInOrder, Ordered, OneByOne
<1>5. Waited'
    <2>1. CASE Finalize
        BY <2>1 DEF Finalize, Waited
    <2>2. CASE FinalizeReturns
        <3>1. IF chain[1] = "DuctTeip" THEN \A t \in Programme : isFinished[t]
              ELSE \A t \in Programme : run[t] = "over"
            BY <2>2 DEF FinalizeReturns
        <3> QED BY <1>1, <1>2, <3>1, ProgrammeTops DEF OrderInv, Flags, Waited
    <2> QED BY <2>1, <2>2 DEF Ends
<1> QED BY <1>3, <1>4, <1>5 DEF OrderInv

\* Whatever a step does to a task, the order is kept.
LEMMA EffectKeeps ==
    ASSUME AllTypeOK, chain \in Chains, OrderInv, Effect
    PROVE  OrderInv'
BY SubmitsKeeps, PassesKeeps, EngineTakesKeeps, EngineLeavesKeeps, WorkerTakesKeeps,
   WorkerGoesOnKeeps, MainRunsKeeps, EndsKeeps DEF Effect

-------------------------------------------------------------------------------
(* Every step has one of the effects *)

\* Who makes sub-tasks is DuctTeip's engine in a chain of three, and only their
\* workers count.
LEMMA Places ==
    ASSUME AllTypeOK, chain \in Chains, OrderInv
    PROVE  /\ engine # NoTask => chain[1] = "DuctTeip" /\ engine \in Tops
                                 /\ run[engine] = AtWork
           /\ \A c \in Subs : Submitting(c) => c \in OfSG /\ chain[1] = "DuctTeip"
           /\ \A c \in Subs : stage[c] # "none" => c \in OfSG
           /\ \A t \in Tasks : run[t] = "release" => t \in OfSG \/ chain[1] = "main"
<1>1. ASSUME engine # NoTask
      PROVE  chain[1] = "DuctTeip" /\ engine \in Tops /\ run[engine] = AtWork
    BY <1>1 DEF AllTypeOK, TypeOK, OrderInv, EngineAtWork
<1>2. Len(chain) = 3 => Subs \subseteq OfSG
    BY ChainFacts DEF OfSG
<1>3. ASSUME NEW c \in Subs, Submitting(c)
      PROVE  c \in OfSG /\ chain[1] = "DuctTeip"
    <2>1. engine = Parent(c) /\ run[engine] = "operation" /\ engine # NoTask
        BY <1>3, TaskFacts DEF Submitting, Tasks
    <2>2. Len(chain) = 3
        BY <1>1, <2>1 DEF AtWork
    <2> QED BY <1>1, <1>2, <2>1, <2>2
<1>4. ASSUME NEW c \in Subs, stage[c] # "none"
      PROVE  c \in OfSG
    BY <1>2, <1>4, TaskFacts DEF OrderInv, Submission
<1>5. ASSUME NEW t \in Tasks, run[t] = "release"
      PROVE  t \in OfSG \/ chain[1] = "main"
    <2>1. stage[t] # "none"
        BY <1>5 DEF OrderInv, Accepted
    <2>2. CASE t \in Subs
        BY <1>4, <2>1, <2>2
    <2>3. CASE t \in Tops
        <3>1. chain[1] # "DuctTeip"
            BY <1>5, <2>3 DEF OrderInv, EngineAtWork, AtWork
        <3> QED BY <2>3, <3>1, ChainFacts DEF OfSG
    <2> QED BY <2>2, <2>3 DEF Tasks
<1> QED BY <1>1, <1>3, <1>4, <1>5

\* The steps of Dispatcher::submit_task and of the wrappers' submitTask.
LEMMA SubmitStepEffect ==
    ASSUME AllTypeOK, chain \in Chains, OrderInv, ~ByHand,
           NEW t \in Tasks, SubmitStep(t)
    PROVE  Submits(t) \/ Passes(t)
<1> USE DEF Stages
<1>0. stage \in [Tasks -> Stages]
    BY DEF AllTypeOK, TypeOK
<1>1. chain[1] # "main"
    BY ChainFacts
<1>2. t \in Tops /\ Owner(t) = "DuctTeip" => t \notin OfSG
    BY ChainFacts, TaskFacts DEF OfSG
<1>3. t \in Subs => Owner(t) # "DuctTeip"
    BY ChainFacts
<1>4. CASE NewTask(t)
    <2>1. /\ Submitting(t) /\ stage[t] = "none"
          /\ stage' = [stage EXCEPT ![t] = "built"]
          /\ UNCHANGED <<prog, run, isFinished, engine, waits>>
        BY <1>4 DEF NewTask, Construct
    <2> QED BY <1>0, <1>1, <2>1 DEF Submits
<1>5. CASE SubmitToSuperGlue(t)
    <2>1. t \in OfSG
        BY <1>5, ChainFacts DEF SubmitToSuperGlue
    <2>2. /\ Submitting(t) /\ stage[t] = "built"
          /\ stage' = [stage EXCEPT ![t] = "mapped"]
          /\ waits' = [waits EXCEPT ![t] = Blockers(t)]
          /\ UNCHANGED <<prog, run, isFinished, engine>>
        BY <1>5 DEF SubmitToSuperGlue
    <2> QED BY <1>1, <1>0, <2>1, <2>2 DEF Submits
<1>6. CASE AddTask(t)
    <2>1. t \notin OfSG
        BY <1>2, <1>3, <1>6 DEF AddTask, Tasks
    <2> QED BY <1>1, <1>6, <2>1 DEF AddTask, Submits
<1>7. CASE SetGuests(t)
    BY <1>7 DEF SetGuests, Passes
<1>8. CASE SetAttributes(t)
    BY <1>8 DEF SetAttributes, Passes
<1> QED BY <1>4, <1>5, <1>6, <1>7, <1>8 DEF SubmitStep

\* The steps of a worker from SGTask::run to the release of the handles.
LEMMA WorkerStepEffect ==
    ASSUME AllTypeOK, chain \in Chains, OrderInv, LockHeld, ~ByHand,
           NEW t \in Tasks, WorkerStep(t)
    PROVE  t \in OfSG /\ (WorkerTakes(t) \/ WorkerGoesOn(t))
<1>1. isFinished \in [Tops -> BOOLEAN] /\ lock \in Subs \cup {NoTask} /\ t # NoTask
    BY TaskFacts DEF AllTypeOK, TypeOK
<1>2. run[t] \in {"count", "stored"} => t \in Subs /\ t \in OfSG
    <2>1. ASSUME run[t] \in {"count", "stored"}
          PROVE  t \in Subs /\ stage[t] # "none"
        BY <1>1, <2>1 DEF LockHeld, OrderInv, Accepted
    <2> QED BY <2>1, Places
<1>3. CASE RunOnWorker(t)
    BY <1>3, ChainFacts DEF RunOnWorker, WorkerTakes
<1>4. CASE LoadCount(t)
    <2>1. t \in OfSG
        BY <1>4, ChainFacts DEF LoadCount
    <2>2. \/ run' = [run EXCEPT ![t] = "release"]
          \/ run' = [run EXCEPT ![t] = "count"]
        BY <1>4 DEF LoadCount
    <2> QED BY <1>4, <2>1, <2>2 DEF LoadCount, WorkerGoesOn
<1>5. CASE StoreCount(t)
    BY <1>2, <1>5 DEF StoreCount, WorkerGoesOn
<1>6. CASE TestCount(t)
    BY <1>2, <1>6 DEF TestCount, WorkerGoesOn
<1>7. CASE Release(t)
    BY <1>7, Places, ChainFacts DEF Release, WorkerGoesOn
<1> QED BY <1>3, <1>4, <1>5, <1>6, <1>7 DEF WorkerStep

\* The steps of DuctTeip's engine, in the framework and in the products.
LEMMA EngineStepEffect ==
    ASSUME AllTypeOK, chain \in Chains, OrderInv, NEW t \in Tops,
           \/ RunKernels(t) \/ GEMM_kernel(t) \/ GEMM_kernel_dgemm(t)
           \/ ReturnOperation(t) \/ FinishMine(t)
    PROVE  chain[1] = "DuctTeip" /\ (EngineTakes(t) \/ EngineLeaves(t))
<1>1. /\ Owner(t) = chain[1] /\ (BeforeLast(t) <=> Len(chain) = 2)
      /\ Len(chain) \in {2, 3}
    BY ChainFacts
<1>2. AtWork = IF BeforeLast(t) THEN "kernel" ELSE "operation"
    BY <1>1 DEF AtWork
<1>3. CASE RunKernels(t)
    BY <1>1, <1>2, <1>3 DEF RunKernels, EngineTakes
<1>4. CASE GEMM_kernel(t)
    BY <1>1, <1>2, <1>4 DEF GEMM_kernel, runKernels, EngineTakes
<1>5. CASE GEMM_kernel_dgemm(t)
    BY <1>1, <1>2, <1>5 DEF GEMM_kernel_dgemm, runKernels, EngineTakes
<1>6. CASE ReturnOperation(t) \/ FinishMine(t)
    <2>1. engine = t /\ engine # NoTask
        BY <1>6, TaskFacts DEF ReturnOperation, FinishMine
    <2>2. chain[1] = "DuctTeip" /\ run[t] = AtWork
        BY <2>1, Places
    <2>3. CASE ReturnOperation(t)
        <3>1. Len(chain) = 3
            BY <2>2, <2>3 DEF ReturnOperation, AtWork
        <3> QED BY <2>2, <2>3, <3>1 DEF ReturnOperation, EngineLeaves
    <2>4. CASE FinishMine(t)
        <3>1. Len(chain) # 3
            BY <2>2, <2>4 DEF FinishMine, AtWork
        <3> QED BY <2>2, <2>4, <3>1 DEF FinishMine, EngineLeaves
    <2> QED BY <1>6, <2>3, <2>4
<1> QED BY <1>3, <1>4, <1>5, <1>6

\* The submissions of the products; bo_gemm's run the kernel as well.
LEMMA HandSubmitEffect ==
    ASSUME AllTypeOK, chain \in Chains, OrderInv, NEW t \in Tasks, HandSubmit(t)
    PROVE  Submits(t) \/ (chain[1] = "main" /\ t \in Tops /\ MainRuns(t))
<1> USE DEF Stages
<1>0. stage \in [Tasks -> Stages]
    BY DEF AllTypeOK, TypeOK
<1>1. CASE addTask(t)
    <2>1. chain[1] = "DuctTeip" /\ t \notin OfSG
        BY <1>1, ChainFacts, TaskFacts DEF addTask, Tasks, OfSG
    <2> QED BY <1>1, <2>1 DEF addTask, Submits
<1>2. CASE NewGemmTask(t)
    <2>1. chain[1] # "main"
        <3>1. Submitting(t) /\ t \in Subs
            BY <1>2 DEF NewGemmTask
        <3> QED BY <3>1, Places
    <2>2. /\ Submitting(t) /\ stage[t] = "none"
          /\ stage' = [stage EXCEPT ![t] = "built"]
          /\ UNCHANGED <<prog, run, isFinished, engine, waits>>
        BY <1>2 DEF NewGemmTask
    <2> QED BY <1>0, <2>1, <2>2 DEF Submits
<1>3. CASE SubmitGemm(t)
    <2>1. Submitting(t) /\ t \in Subs
        BY <1>3 DEF SubmitGemm
    <2>2. chain[1] # "main" /\ t \in OfSG
        BY <2>1, Places
    <2>3. /\ stage[t] = "built"
          /\ stage' = [stage EXCEPT ![t] = "returned"]
          /\ waits' = [waits EXCEPT ![t] = Blockers(t)]
          /\ UNCHANGED <<prog, run, isFinished, engine>>
        BY <1>3 DEF SubmitGemm
    <2> QED BY <1>0, <2>1, <2>2, <2>3 DEF Submits
<1>4. CASE matmul(t)
    <2>1. chain[1] # "main" /\ t \in OfSG
        BY <1>4, ChainFacts DEF matmul
    <2>2. /\ Submitting(t) /\ stage[t] = "none"
          /\ stage' = [stage EXCEPT ![t] = "returned"]
          /\ waits' = [waits EXCEPT ![t] = Blockers(t)]
          /\ UNCHANGED <<prog, run, isFinished, engine>>
        BY <1>4 DEF matmul, gemm
    <2> QED BY <1>0, <2>1, <2>2 DEF Submits
<1>5. CASE gemm_block(t)
    <2>1. t \notin OfSG
        BY <1>5, ChainFacts, TaskFacts DEF gemm_block, OfSG
    <2> QED BY <1>5, <2>1 DEF gemm_block, Submits
<1>6. CASE gemm_of_blocks(t)
    BY <1>6, ChainFacts DEF gemm_of_blocks, MainRuns
<1> QED BY <1>1, <1>2, <1>3, <1>4, <1>5, <1>6 DEF HandSubmit

\* The steps of a worker in the products, and the destructor of GemmTask.
LEMMA HandWorkerEffect ==
    ASSUME AllTypeOK, chain \in Chains, OrderInv, NEW t \in Tasks, HandWorker(t)
    PROVE  t \in OfSG /\ (WorkerTakes(t) \/ WorkerGoesOn(t))
<1>1. isFinished \in [Tops -> BOOLEAN] /\ run \in [Tasks -> RunStates]
    BY DEF AllTypeOK, TypeOK
<1>2. CASE RunGemmTask(t) \/ RunGemm(t)
    <2>1. RunOnWorker(t)
        BY <1>2 DEF RunGemmTask, RunGemm
    <2> QED BY <2>1, ChainFacts DEF RunOnWorker, WorkerTakes
<1>3. CASE ReturnGemm(t)
    BY <1>3, ChainFacts DEF ReturnGemm, WorkerGoesOn
<1>4. CASE DestroyGemm(t)
    <2>1. t \in Subs /\ run[t] = "over" /\ Parent(t) \in Tops
        BY <1>4, TaskFacts DEF DestroyGemm
    <2>2. t \in OfSG
        BY <2>1, Places DEF OrderInv, Accepted
    <2>3. run' = [run EXCEPT ![t] = "over"]
        BY <1>1, <1>4, <2>1 DEF DestroyGemm
    <2>4. \/ UNCHANGED isFinished
          \/ isFinished' = [isFinished EXCEPT ![Parent(t)] = TRUE]
        BY <1>1, <1>4, <2>1 DEF DestroyGemm
    <2>5. UNCHANGED <<prog, stage, engine, waits>>
        BY <1>4 DEF DestroyGemm
    <2> QED BY <2>1, <2>2, <2>3, <2>4, <2>5 DEF WorkerGoesOn
<1> QED BY <1>2, <1>3, <1>4 DEF HandWorker

\* Every step of every program has one of the effects.
LEMMA StepEffect ==
    ASSUME AllTypeOK, chain \in Chains, OrderInv, LockHeld, AllNext
    PROVE  Effect \/ UNCHANGED allVars
<1>1. CASE ~ByHand /\ Next /\ ~Terminated
    <2>1. UNCHANGED <<chain, registered, length>>
        BY <1>1 DEF Next
    <2>2. CASE \E t \in Tasks : SubmitStep(t)
        BY <1>1, <2>1, <2>2, SubmitStepEffect DEF Effect
    <2>3. CASE \E t \in Tasks : WorkerStep(t)
        BY <1>1, <2>1, <2>3, WorkerStepEffect DEF Effect
    <2>4. CASE EngineStep
        BY <2>1, <2>4, EngineStepEffect DEF EngineStep, Effect
    <2>5. CASE Finalize \/ FinalizeReturns
        BY <2>1, <2>5 DEF Finalize, FinalizeReturns, Ends, Effect
    <2> QED BY <1>1, <2>2, <2>3, <2>4, <2>5 DEF Next
<1>2. CASE ByHand /\ HandNext /\ UNCHANGED <<chain, registered, length>>
    <2>1. CASE \E t \in Tasks : HandSubmit(t)
        BY <1>2, <2>1, HandSubmitEffect DEF Effect
    <2>2. CASE \E t \in Tasks : HandWorker(t)
        BY <1>2, <2>2, HandWorkerEffect DEF Effect
    <2>3. CASE HandEngine
        BY <1>2, <2>3, EngineStepEffect DEF HandEngine, ReturnKernel, FinishKernel, Effect
    <2>4. CASE Finish
        BY <1>2, <2>4 DEF Finish, Finalize, FinalizeReturns, Ends, Effect
    <2> QED BY <1>2, <2>1, <2>2, <2>3, <2>4 DEF HandNext
<1>3. CASE Terminated /\ UNCHANGED deleted
    BY <1>3 DEF Terminated, allVars
<1> QED BY <1>1, <1>2, <1>3 DEF AllNext, AllTerminated

-------------------------------------------------------------------------------
(* What a step does to the counts *)

\* Nothing: it is about a task that neither holds the lock nor is counted in or
\* out.
Quiet ==
    /\ UNCHANGED <<task_count, lock, loaded, deleted>>
    /\ sawAlpha' \in [Tasks -> BOOLEAN]
    /\ \A c \in Subs : stage'[c] = "none" <=> stage[c] = "none"
    /\ \A t \in Tasks : \/ run'[t] = run[t]
                        \/ /\ run[t] \notin {"count", "stored"}
                           /\ run'[t] \notin {"count", "stored"}
    /\ \A c \in Subs : run[c] = "over" => run'[c] = "over"
    /\ ~ByHand => \A c \in Subs :
                     run[c] \in {"idle", "kernel"} <=> run'[c] \in {"idle", "kernel"}
    /\ \A p \in Tops : isFinished[p] => isFinished'[p]

CountStep(c) == NewTask(c) \/ LoadCount(c) \/ StoreCount(c) \/ TestCount(c)
HandCountStep(c) == NewGemmTask(c) \/ DestroyGemm(c)

\* Of a submission only set_parent counts.
LEMMA SubmitStepAccount ==
    ASSUME AllTypeOK, chain \in Chains, NEW t \in Tasks, SubmitStep(t),
           UNCHANGED deleted
    PROVE  Quiet \/ (t \in Subs /\ NewTask(t))
<1>1. /\ stage \in [Tasks -> Stages] /\ run \in [Tasks -> RunStates]
      /\ sawAlpha \in [Tasks -> BOOLEAN]
      /\ Subs \subseteq Tasks
    BY DEF AllTypeOK, TypeOK, Tasks
<1>2. CASE NewTask(t) /\ t \notin Subs
    <2>1. /\ stage' = [stage EXCEPT ![t] = "built"]
          /\ UNCHANGED <<task_count, lock, loaded, deleted, sawAlpha, run, isFinished>>
        BY <1>2 DEF NewTask, Construct, SetParent
    <2>2. \A c \in Subs : stage'[c] = stage[c]
        BY <1>1, <1>2, <2>1
    <2> QED BY <1>1, <2>1, <2>2 DEF Quiet
<1>3. CASE SubmitToSuperGlue(t) \/ AddTask(t) \/ SetGuests(t) \/ SetAttributes(t)
    <2>1. /\ UNCHANGED <<task_count, lock, loaded, deleted, sawAlpha, run, isFinished>>
          /\ stage[t] # "none"
          /\ \E s \in Stages \ {"none"} : stage' = [stage EXCEPT ![t] = s]
        BY <1>3 DEF SubmitToSuperGlue, AddTask, SetGuests, SetAttributes, Stages
    <2>2. \A c \in Subs : stage'[c] = "none" <=> stage[c] = "none"
        BY <1>1, <2>1
    <2> QED BY <1>1, <2>1, <2>2 DEF Quiet
<1> QED BY <1>2, <1>3 DEF SubmitStep

\* Of a worker's steps only those of task_count-- count.
LEMMA WorkerStepAccount ==
    ASSUME AllTypeOK, chain \in Chains, LockHeld, NEW t \in Tasks, WorkerStep(t),
           UNCHANGED deleted
    PROVE  Quiet \/ (t \in Subs /\ CountStep(t))
<1>1. /\ run \in [Tasks -> RunStates] /\ sawAlpha \in [Tasks -> BOOLEAN]
      /\ lock \in Subs \cup {NoTask} /\ t # NoTask /\ Subs \subseteq Tasks
    BY TaskFacts DEF AllTypeOK, TypeOK, Tasks
<1>2. CASE RunOnWorker(t)
    <2>1. /\ UNCHANGED <<task_count, lock, loaded, deleted, stage, isFinished>>
          /\ run[t] = "idle" /\ run' = [run EXCEPT ![t] = "kernel"]
          /\ sawAlpha' \in [Tasks -> BOOLEAN]
        BY <1>1, <1>2 DEF RunOnWorker
    <2> QED BY <1>1, <2>1 DEF Quiet
<1>3. CASE LoadCount(t)
    <2>1. CASE t \in Subs
        BY <1>3, <2>1 DEF CountStep
    <2>2. CASE t \notin Subs
        <3>1. /\ UNCHANGED <<task_count, lock, loaded, deleted, stage, isFinished, sawAlpha>>
              /\ run[t] = "kernel" /\ run' = [run EXCEPT ![t] = "release"]
            BY <1>3, <2>2 DEF LoadCount, Parent
        <3> QED BY <1>1, <2>2, <3>1 DEF Quiet
    <2> QED BY <2>1, <2>2
<1>4. CASE StoreCount(t) \/ TestCount(t)
    <2>1. run[t] \in {"count", "stored"}
        BY <1>4 DEF StoreCount, TestCount
    <2> QED BY <1>1, <1>4, <2>1 DEF CountStep, LockHeld
<1>5. CASE Release(t)
    <2>1. /\ UNCHANGED <<task_count, lock, loaded, deleted, stage, isFinished, sawAlpha>>
          /\ run[t] = "release" /\ run' = [run EXCEPT ![t] = "over"]
        BY <1>5 DEF Release
    <2> QED BY <1>1, <2>1 DEF Quiet
<1> QED BY <1>2, <1>3, <1>4, <1>5 DEF WorkerStep

\* The engine counts nothing, apart from the kernel of dsb_gemm.
LEMMA EngineStepAccount ==
    ASSUME AllTypeOK, NEW t \in Tops, UNCHANGED deleted,
           RunKernels(t) \/ GEMM_kernel_dgemm(t) \/ ReturnOperation(t) \/ FinishMine(t)
    PROVE  Quiet
<1>1. /\ run \in [Tasks -> RunStates] /\ sawAlpha \in [Tasks -> BOOLEAN]
      /\ isFinished \in [Tops -> BOOLEAN]
      /\ t \in Tasks /\ t \notin Subs /\ Subs \subseteq Tasks
    BY TaskFacts DEF AllTypeOK, TypeOK, Tasks
<1>2. /\ UNCHANGED <<task_count, lock, loaded, deleted, stage>>
      /\ sawAlpha' \in [Tasks -> BOOLEAN]
    BY <1>1
    DEF RunKernels, GEMM_kernel_dgemm, runKernels, ReturnOperation, FinishMine
<1>3. /\ run[t] \in {"idle", "operation", "kernel"}
      /\ \E s \in {"operation", "kernel", "over"} : run' = [run EXCEPT ![t] = s]
    BY DEF RunKernels, GEMM_kernel_dgemm, runKernels, ReturnOperation, FinishMine
<1>4. \A p \in Tops : isFinished[p] => isFinished'[p]
    BY <1>1
    DEF RunKernels, GEMM_kernel_dgemm, runKernels, ReturnOperation, FinishMine
<1>5. \A c \in Subs : run'[c] = run[c]
    BY <1>1, <1>3
<1>6. \A u \in Tasks : \/ run'[u] = run[u]
                       \/ /\ run[u] \notin {"count", "stored"}
                          /\ run'[u] \notin {"count", "stored"}
    BY <1>1, <1>3
<1> QED BY <1>2, <1>4, <1>5, <1>6 DEF Quiet

\* Of a submission in the products only the constructor of GemmTask counts.
LEMMA HandSubmitAccount ==
    ASSUME AllTypeOK, chain \in Chains, ByHand, LockHeld, NEW t \in Tasks, HandSubmit(t)
    PROVE  Quiet \/ (t \in Subs /\ NewGemmTask(t))
<1>1. /\ stage \in [Tasks -> Stages] /\ run \in [Tasks -> RunStates]
      /\ sawAlpha \in [Tasks -> BOOLEAN]
      /\ Subs \subseteq Tasks
    BY DEF AllTypeOK, TypeOK, Tasks
<1>2. CASE NewGemmTask(t)
    BY <1>2 DEF NewGemmTask
<1>3. CASE addTask(t) \/ matmul(t) \/ gemm_block(t)
    <2>1. t \in Tops
        BY <1>3, ChainFacts DEF addTask, matmul, gemm_block, Tasks
    <2>2. /\ UNCHANGED <<task_count, lock, loaded, deleted, sawAlpha, run, isFinished>>
          /\ stage' = [stage EXCEPT ![t] = "returned"]
        BY <1>3 DEF addTask, matmul, gemm_block
    <2>3. \A c \in Subs : stage'[c] = stage[c]
        BY <1>1, <2>1, <2>2, TaskFacts
    <2> QED BY <1>1, <2>2, <2>3 DEF Quiet
<1>4. CASE SubmitGemm(t)
    <2>1. /\ UNCHANGED <<task_count, lock, loaded, deleted, sawAlpha, run, isFinished>>
          /\ stage[t] = "built" /\ stage' = [stage EXCEPT ![t] = "returned"]
        BY <1>4 DEF SubmitGemm
    <2> QED BY <1>1, <2>1 DEF Quiet
<1>5. CASE gemm_of_blocks(t)
    <2>1. t \in Tops /\ t \notin Subs /\ chain[1] = "main"
        BY <1>5, TaskFacts, ChainFacts DEF gemm_of_blocks
    <2>2. /\ UNCHANGED <<task_count, lock, loaded, deleted, sawAlpha, stage, isFinished>>
          /\ run' = [run EXCEPT ![t] = IF @ = "idle" THEN "kernel" ELSE "over"]
        BY <1>5 DEF gemm_of_blocks
    <2>3. run[t] \notin {"count", "stored"}
        <3>1. lock # t
            BY <2>1, TaskFacts DEF AllTypeOK, TypeOK
        <3> QED BY <3>1 DEF LockHeld
    <2> QED BY <1>1, <2>1, <2>2, <2>3 DEF Quiet
<1> QED BY <1>2, <1>3, <1>4, <1>5 DEF HandSubmit

\* Of a worker's steps in the products only the destructor counts.
LEMMA HandWorkerAccount ==
    ASSUME AllTypeOK, ByHand, NEW t \in Tasks, HandWorker(t)
    PROVE  Quiet \/ (t \in Subs /\ DestroyGemm(t))
<1>1. /\ run \in [Tasks -> RunStates] /\ sawAlpha \in [Tasks -> BOOLEAN]
      /\ Subs \subseteq Tasks
    BY DEF AllTypeOK, TypeOK, Tasks
<1>2. CASE RunGemmTask(t) \/ RunGemm(t)
    <2>1. /\ UNCHANGED <<task_count, lock, loaded, deleted, stage, isFinished>>
          /\ run[t] = "idle" /\ run' = [run EXCEPT ![t] = "kernel"]
          /\ sawAlpha' \in [Tasks -> BOOLEAN]
        BY <1>1, <1>2 DEF RunGemmTask, RunGemm, RunOnWorker
    <2> QED BY <1>1, <2>1 DEF Quiet
<1>3. CASE ReturnGemm(t)
    <2>1. /\ UNCHANGED <<task_count, lock, loaded, deleted, stage, isFinished, sawAlpha>>
          /\ run[t] = "kernel" /\ run' = [run EXCEPT ![t] = "over"]
        BY <1>3 DEF ReturnGemm
    <2> QED BY <1>1, <2>1 DEF Quiet
<1>4. CASE DestroyGemm(t)
    BY <1>4 DEF DestroyGemm
<1> QED BY <1>2, <1>3, <1>4 DEF HandWorker

\* Waiting for the end counts nothing.
LEMMA EndsAccount ==
    ASSUME AllTypeOK, UNCHANGED deleted, Finalize \/ FinalizeReturns
    PROVE  Quiet
<1>1. UNCHANGED <<stage, run, isFinished, task_count, lock, loaded, sawAlpha, deleted>>
    BY DEF Finalize, FinalizeReturns
<1> QED BY <1>1 DEF Quiet, AllTypeOK, TypeOK

\* Every step is quiet or one of the few that touch a count.
LEMMA StepAccount ==
    ASSUME AllTypeOK, chain \in Chains, LockHeld, AllNext
    PROVE  \/ UNCHANGED allVars
           \/ Quiet
           \/ ~ByHand /\ UNCHANGED deleted /\ \E c \in Subs : CountStep(c)
           \/ ByHand /\ \/ \E c \in Subs : HandCountStep(c)
                        \/ \E p \in Tops : GEMM_kernel(p)
<1>1. CASE ~ByHand /\ Next /\ UNCHANGED deleted /\ ~Terminated
    <2>1. CASE \E t \in Tasks : SubmitStep(t)
        BY <1>1, <2>1, SubmitStepAccount DEF CountStep
    <2>2. CASE \E t \in Tasks : WorkerStep(t)
        BY <1>1, <2>2, WorkerStepAccount
    <2>3. CASE EngineStep
        BY <1>1, <2>3, EngineStepAccount DEF EngineStep
    <2>4. CASE Finalize \/ FinalizeReturns
        BY <1>1, <2>4, EndsAccount
    <2> QED BY <1>1, <2>1, <2>2, <2>3, <2>4 DEF Next
<1>2. CASE ByHand /\ HandNext
    <2>1. CASE \E t \in Tasks : HandSubmit(t)
        BY <1>2, <2>1, HandSubmitAccount DEF HandCountStep
    <2>2. CASE \E t \in Tasks : HandWorker(t)
        BY <1>2, <2>2, HandWorkerAccount DEF HandCountStep
    <2>3. CASE HandEngine
        <3>1. PICK t \in Tops : \/ GEMM_kernel(t) \/ GEMM_kernel_dgemm(t)
                                \/ ReturnKernel(t) \/ FinishKernel(t)
            BY <2>3 DEF HandEngine
        <3>2. CASE GEMM_kernel(t)
            BY <1>2, <3>2
        <3>3. CASE GEMM_kernel_dgemm(t)
            BY <3>3, EngineStepAccount DEF GEMM_kernel_dgemm, runKernels
        <3>4. CASE ReturnKernel(t) \/ FinishKernel(t)
            BY <3>4, EngineStepAccount DEF ReturnKernel, FinishKernel
        <3> QED BY <3>1, <3>2, <3>3, <3>4
    <2>4. CASE Finish
        BY <2>4, EndsAccount DEF Finish
    <2> QED BY <1>2, <2>1, <2>2, <2>3, <2>4 DEF HandNext
<1>3. CASE Terminated /\ UNCHANGED deleted
    BY <1>3 DEF Terminated, allVars
<1> QED BY <1>1, <1>2, <1>3 DEF AllNext, AllTerminated
-------------------------------------------------------------------------------
(* The counts of the framework *)

\* Counting a set of sub-tasks, one more and one less.
LEMMA SomeSubs ==
    ASSUME NEW S \in SUBSET Subs
    PROVE  /\ IsFiniteSet(S) /\ Cardinality(S) \in Nat
           /\ Cardinality(S) <= Cardinality(Subs)
           /\ Cardinality(S) = 0 <=> S = {}
           /\ \A c \in S : Cardinality(S \ {c}) = Cardinality(S) - 1
           /\ \A c \in Subs \ S : Cardinality(S \cup {c}) = Cardinality(S) + 1
<1>1. IsFiniteSet(S) /\ Cardinality(S) <= Cardinality(Subs)
    BY SubsFinite, FS_Subset
<1>2. Cardinality(S) \in Nat /\ (Cardinality(S) = 0 <=> S = {})
    BY <1>1, FS_CardinalityType, FS_EmptySet
<1>3. \A c \in S : Cardinality(S \ {c}) = Cardinality(S) - 1
    BY <1>1, FS_RemoveElement
<1>4. \A c \in Subs \ S : Cardinality(S \cup {c}) = Cardinality(S) + 1
    BY <1>1, FS_AddElement
<1> QED BY <1>1, <1>2, <1>3, <1>4

\* Who holds the lock holds it alone.
LEMMA OneHolder ==
    ASSUME AllTypeOK, LockHeld
    PROVE  /\ \A c, d \in Tasks :
                 run[c] \in {"count", "stored"} /\ run[d] \in {"count", "stored"} => c = d
           /\ lock = NoTask => \A c \in Tasks : run[c] \notin {"count", "stored"}
BY TaskFacts DEF LockHeld

\* A quiet step changes neither the count nor what is counted.
LEMMA QuietKeepsCount ==
    ASSUME AllTypeOK, CountInv, ~ByHand, Quiet
    PROVE  CountInv'
<1>1. \A c \in Subs : c \in Tasks /\ (stage'[c] = "none" <=> stage[c] = "none")
    BY TaskFacts DEF Quiet
<1>2. \A c \in Subs : \A s \in {"count", "stored"} : run'[c] = s <=> run[c] = s
    BY TaskFacts DEF Quiet
<1>3. \A c \in Subs : run[c] \in {"idle", "kernel"} <=> run'[c] \in {"idle", "kernel"}
    BY DEF Quiet
<1>4. \A p \in Tops : Counted(p)' = Counted(p)
    BY <1>1, <1>2, <1>3 DEF Counted
<1>5. \A p \in Tops : Stored(p)' = Stored(p)
    BY <1>1, <1>2, <1>3 DEF Stored
<1>6. UNCHANGED <<task_count, loaded>>
    BY DEF Quiet
<1>7. CountNeverHigh' /\ LoadedNeverHigh' /\ NeverLow'
    BY <1>2, <1>4, <1>5, <1>6, TaskFacts
    DEF CountInv, CountNeverHigh, LoadedNeverHigh, NeverLow
<1>8. \A p \in Tops : isFinished'[p] \/ NotFlagged(p)'
    <2> TAKE p \in Tops
    <2>1. isFinished[p] => isFinished'[p]
        BY DEF Quiet
    <2>2. NotFlagged(p) => NotFlagged(p)'
        BY <1>1, <1>2, <1>6 DEF NotFlagged
    <2> QED BY <2>1, <2>2 DEF CountInv
<1> QED BY <1>7, <1>8 DEF CountInv

\* set_parent's increase comes with the sub-task it counts.
LEMMA NewTaskKeepsCount ==
    ASSUME AllTypeOK, Accepted, CountInv, NEW c \in Subs, NewTask(c)
    PROVE  CountInv'
<1> DEFINE p == Parent(c)
<1>1. /\ stage \in [Tasks -> Stages] /\ task_count \in [Tops -> Int]
      /\ loaded \in [Tasks -> Int] /\ p \in Tops
      /\ \A d \in Subs : d \in Tasks /\ Parent(d) \in Tops
    BY TaskFacts DEF AllTypeOK, TypeOK
<1>2. /\ stage[c] = "none" /\ run[c] = "idle" /\ stage'[c] # "none"
      /\ \A d \in Subs \ {c} : stage'[d] = stage[d]
      /\ UNCHANGED <<run, isFinished, loaded>>
      /\ task_count'[p] = task_count[p] + 1
      /\ \A q \in Tops \ {p} : task_count'[q] = task_count[q]
    BY <1>1 DEF NewTask, Construct, SetParent, Accepted
<1>3. \A q \in Tops : /\ Counted(q) \in SUBSET Subs
                      /\ Counted(q)' = IF q = p THEN Counted(q) \cup {c} ELSE Counted(q)
                      /\ c \notin Counted(q)
    BY <1>2 DEF Counted
<1>4. \A q \in Tops : /\ Cardinality(Counted(q)) \in Nat
                      /\ Cardinality(Counted(q)') = IF q = p THEN Cardinality(Counted(q)) + 1
                                                    ELSE Cardinality(Counted(q))
    BY <1>3, SomeSubs
<1>5. \A q \in Tops : Stored(q)' = Stored(q)
    BY <1>2 DEF Stored
<1>6. CountNeverHigh'
    BY <1>1, <1>2, <1>4 DEF CountInv, CountNeverHigh
<1>7. LoadedNeverHigh'
    BY <1>1, <1>2, <1>4 DEF CountInv, LoadedNeverHigh
<1>8. NeverLow'
    <2>1. \A q \in Tops : Stored(q) \in SUBSET Subs
        BY DEF Stored
    <2>2. \A q \in Tops : Cardinality(Stored(q)) \in Nat
        BY <2>1, SomeSubs
    <2>3. \A q \in Tops : task_count'[q] >= task_count[q]
        BY <1>1, <1>2
    <2> QED BY <1>1, <1>2, <1>5, <2>2, <2>3 DEF CountInv, NeverLow
<1>9. ASSUME NEW q \in Tops
      PROVE  isFinished'[q] \/ NotFlagged(q)'
    <2>1. CASE q # p
        BY <1>2, <2>1 DEF CountInv, NotFlagged
    <2>2. CASE q = p /\ ~isFinished[p]
        <3>1. NotFlagged(p)
            BY <1>1, <2>2 DEF CountInv
        <3>2. task_count'[p] >= 1
            BY <1>1, <1>2, <3>1 DEF NotFlagged
        <3>3. ASSUME NEW d \in Subs, Parent(d) = p, run[d] = "count",
                     ~\E e \in Subs : Parent(e) = p /\ run[e] = "stored"
              PROVE  loaded[d] >= 1
            BY <1>1, <3>1, <3>3 DEF NotFlagged, Accepted
        <3> QED BY <1>1, <1>2, <2>2, <3>2, <3>3 DEF NotFlagged
    <2>3. CASE q = p /\ isFinished[p]
        BY <1>2, <2>3
    <2> QED BY <2>1, <2>2, <2>3
<1> QED BY <1>6, <1>7, <1>8, <1>9 DEF CountInv

\* What is loaded is the count, at most what it should be.
LEMMA LoadCountKeepsCount ==
    ASSUME AllTypeOK, Accepted, LockHeld, CountInv, NEW c \in Subs, LoadCount(c)
    PROVE  CountInv'
<1> DEFINE p == Parent(c)
<1>1. /\ run \in [Tasks -> RunStates] /\ task_count \in [Tops -> Int]
      /\ loaded \in [Tasks -> Int] /\ p \in Tops /\ p # NoTask
      /\ \A d \in Subs : d \in Tasks /\ Parent(d) \in Tops
    BY TaskFacts DEF AllTypeOK, TypeOK, Tasks
<1>2. /\ run[c] = "kernel" /\ run'[c] = "count" /\ loaded'[c] = task_count[p]
      /\ \A d \in Subs \ {c} : run'[d] = run[d] /\ loaded'[d] = loaded[d]
      /\ UNCHANGED <<stage, isFinished, task_count>>
      /\ lock = NoTask
    BY <1>1 DEF LoadCount
<1>3. \A d \in Subs : run[d] \notin {"count", "stored"}
    BY <1>1, <1>2, OneHolder
<1>4. \A q \in Tops : Counted(q)' = Counted(q) /\ Stored(q)' = Stored(q)
    BY <1>2 DEF Counted, Stored
<1>5. CountNeverHigh'
    BY <1>2, <1>4 DEF CountInv, CountNeverHigh
<1>6. \A d \in Subs : run'[d] = "count" => d = c
    BY <1>2, <1>3
<1>7. LoadedNeverHigh'
    BY <1>1, <1>2, <1>4, <1>6 DEF CountInv, CountNeverHigh, LoadedNeverHigh
<1>8. NeverLow'
    BY <1>1, <1>2, <1>4, <1>6 DEF CountInv, NeverLow
<1>9. ASSUME NEW q \in Tops, ~isFinished[q]
      PROVE  NotFlagged(q)'
    <2>1. \/ task_count[q] = 0 /\ \A d \in Subs : Parent(d) = q => stage[d] = "none"
          \/ task_count[q] >= 1
        BY <1>3, <1>9 DEF CountInv, NotFlagged
    <2>2. stage[c] # "none"
        BY <1>1, <1>2 DEF Accepted
    <2> QED BY <1>1, <1>2, <1>6, <2>1, <2>2 DEF NotFlagged
<1> QED BY <1>2, <1>5, <1>7, <1>8, <1>9 DEF CountInv

\* The store drops the increases made since the load, so that the count falls
\* short rather than long, and the worker that made it not positive is still to test.
LEMMA StoreCountKeepsCount ==
    ASSUME AllTypeOK, Accepted, LockHeld, CountInv, NEW c \in Subs, StoreCount(c)
    PROVE  CountInv'
<1> DEFINE p == Parent(c)
<1>1. /\ run \in [Tasks -> RunStates] /\ task_count \in [Tops -> Int]
      /\ loaded \in [Tasks -> Int] /\ p \in Tops
      /\ \A d \in Subs : d \in Tasks /\ Parent(d) \in Tops
    BY TaskFacts DEF AllTypeOK, TypeOK
<1>2. /\ run[c] = "count" /\ run'[c] = "stored" /\ task_count'[p] = loaded[c] - 1
      /\ \A d \in Subs \ {c} : run'[d] = run[d]
      /\ \A q \in Tops \ {p} : task_count'[q] = task_count[q]
      /\ UNCHANGED <<stage, isFinished>>
      /\ stage[c] # "none"
    BY <1>1 DEF StoreCount, Accepted
<1>3. \A d \in Subs : run'[d] # "count"
    BY <1>1, <1>2, OneHolder
<1>4. \A q \in Tops : /\ Counted(q) \in SUBSET Subs /\ Stored(q) \in SUBSET Subs
                      /\ c \in Counted(q) <=> q = p
                      /\ c \notin Stored(q)
                      /\ Counted(q)' = IF q = p THEN Counted(q) \ {c} ELSE Counted(q)
                      /\ Stored(q)' = IF q = p THEN Stored(q) \cup {c} ELSE Stored(q)
    BY <1>1, <1>2 DEF Counted, Stored
<1>5. \A q \in Tops :
          /\ Cardinality(Counted(q)) \in Nat /\ Cardinality(Stored(q)) \in Nat
          /\ Cardinality(Counted(q)') = IF q = p THEN Cardinality(Counted(q)) - 1
                                        ELSE Cardinality(Counted(q))
          /\ Cardinality(Stored(q)') = IF q = p THEN Cardinality(Stored(q)) + 1
                                       ELSE Cardinality(Stored(q))
    BY <1>4, SomeSubs
<1>6. CountNeverHigh'
    BY <1>1, <1>2, <1>5 DEF CountInv, CountNeverHigh, LoadedNeverHigh
<1>7. LoadedNeverHigh'
    BY <1>3 DEF LoadedNeverHigh
<1>8. NeverLow'
    BY <1>1, <1>2, <1>3, <1>5 DEF CountInv, NeverLow
<1>9. ASSUME NEW q \in Tops, ~isFinished[q]
      PROVE  NotFlagged(q)'
    <2>1. \A d \in Subs : run[d] # "stored"
        BY <1>1, <1>2, OneHolder
    <2>2. NotFlagged(q)
        BY <1>9 DEF CountInv
    <2>3. CASE q = p
        <3>1. loaded[c] >= 1 /\ loaded[c] \in Int
            BY <1>1, <1>2, <2>1, <2>2, <2>3 DEF NotFlagged
        <3>2. task_count'[p] >= 0
            BY <1>2, <3>1
        <3> QED BY <1>2, <2>3, <3>2 DEF NotFlagged
    <2>4. CASE q # p
        BY <1>2, <1>3, <2>1, <2>2, <2>4 DEF NotFlagged
    <2> QED BY <2>3, <2>4
<1> QED BY <1>2, <1>6, <1>7, <1>8, <1>9 DEF CountInv

\* The test reads the count again and flags the parent if it is not positive.
LEMMA TestCountKeepsCount ==
    ASSUME AllTypeOK, LockHeld, CountInv, NEW c \in Subs, TestCount(c)
    PROVE  CountInv'
<1> DEFINE p == Parent(c)
<1>1. /\ run \in [Tasks -> RunStates] /\ task_count \in [Tops -> Int]
      /\ isFinished \in [Tops -> BOOLEAN] /\ p \in Tops
      /\ \A d \in Subs : d \in Tasks /\ Parent(d) \in Tops
    BY TaskFacts DEF AllTypeOK, TypeOK
<1>2. /\ run[c] = "stored" /\ run'[c] = "release"
      /\ \A d \in Subs \ {c} : run'[d] = run[d]
      /\ \A q \in Tops : isFinished'[q] = (isFinished[q] \/ (q = p /\ task_count[p] = 0))
      /\ UNCHANGED <<stage, task_count, loaded>>
    BY <1>1 DEF TestCount
<1>3. \A d \in Subs : run'[d] \notin {"count", "stored"}
    BY <1>1, <1>2, OneHolder
<1>4. \A q \in Tops : Counted(q)' = Counted(q) /\ Stored(q)' = Stored(q)
    BY <1>2 DEF Counted, Stored
<1>5. CountNeverHigh' /\ LoadedNeverHigh' /\ NeverLow'
    BY <1>2, <1>3, <1>4 DEF CountInv, CountNeverHigh, LoadedNeverHigh, NeverLow
<1>6. ASSUME NEW q \in Tops, ~isFinished'[q]
      PROVE  NotFlagged(q)'
    <2>1. NotFlagged(q) /\ (q = p => task_count[q] # 0)
        BY <1>2, <1>6 DEF CountInv
    <2>2. task_count[q] \in Int
        BY <1>1
    <2>3. \A d \in Subs : Parent(d) = q /\ run[d] = "stored" => q = p
        BY <1>1, <1>2, OneHolder
    <2>4. \/ task_count[q] = 0 /\ \A d \in Subs : Parent(d) = q => stage[d] = "none"
          \/ task_count[q] >= 1
        BY <2>1, <2>2, <2>3 DEF NotFlagged
    <2> QED BY <1>2, <1>3, <2>4 DEF NotFlagged
<1> QED BY <1>5, <1>6 DEF CountInv

\* Each step that touches task_count keeps its bounds.
LEMMA CountStepKeepsCount ==
    ASSUME AllTypeOK, Accepted, LockHeld, CountInv, NEW c \in Subs, CountStep(c)
    PROVE  CountInv'
BY NewTaskKeepsCount, LoadCountKeepsCount, StoreCountKeepsCount, TestCountKeepsCount
DEF CountStep
-------------------------------------------------------------------------------
(* The counts by hand *)

\* A quiet step of a product leaves its counts exact.
LEMMA QuietKeepsHandCount ==
    ASSUME AllTypeOK, HandCountInv, Quiet
    PROVE  HandCountInv'
<1>1. /\ UNCHANGED <<task_count, deleted>>
      /\ \A c \in Subs : stage'[c] = "none" <=> stage[c] = "none"
      /\ \A c \in Subs : run[c] = "over" => run'[c] = "over"
      /\ \A p \in Tops : isFinished[p] => isFinished'[p]
      /\ \A c \in Subs : Parent(c) \in Tops
      /\ deleted \subseteq Subs
    BY TaskFacts DEF Quiet, AllTypeOK
<1>2. \A p \in Tops : Alive(p)' = Alive(p)
    BY <1>1 DEF Alive
<1> QED BY <1>1, <1>2 DEF HandCountInv

\* The constructor of GemmTask counts the task it makes.
LEMMA NewGemmTaskKeepsHandCount ==
    ASSUME AllTypeOK, Accepted, HandCountInv, NEW c \in Subs, NewGemmTask(c)
    PROVE  HandCountInv'
<1> DEFINE p == Parent(c)
<1>1. /\ stage \in [Tasks -> Stages] /\ task_count \in [Tops -> Int] /\ p \in Tops
      /\ \A d \in Subs : d \in Tasks /\ Parent(d) \in Tops
      /\ deleted \subseteq Subs
    BY TaskFacts DEF AllTypeOK, TypeOK
<1>2. /\ stage[c] = "none" /\ stage'[c] # "none" /\ run[c] = "idle"
      /\ \A d \in Subs \ {c} : stage'[d] = stage[d]
      /\ UNCHANGED <<run, isFinished, deleted>>
      /\ task_count'[p] = task_count[p] + 1
      /\ \A q \in Tops \ {p} : task_count'[q] = task_count[q]
    BY <1>1 DEF NewGemmTask, Accepted
<1>3. c \notin deleted
    BY <1>2 DEF HandCountInv
<1>4. \A q \in Tops : /\ Alive(q) \in SUBSET Subs /\ c \notin Alive(q)
                      /\ Alive(q)' = IF q = p THEN Alive(q) \cup {c} ELSE Alive(q)
    BY <1>2, <1>3 DEF Alive
<1>5. \A q \in Tops : Cardinality(Alive(q)') =
          IF q = p THEN Cardinality(Alive(q)) + 1 ELSE Cardinality(Alive(q))
    BY <1>4, SomeSubs
<1>6. \A q \in Tops : task_count'[q] = Cardinality(Alive(q)')
    BY <1>2, <1>5 DEF HandCountInv
<1>7. ASSUME NEW d \in Subs, stage'[d] # "none", Alive(Parent(d))' = {}
      PROVE  isFinished'[Parent(d)]
    <2>1. Parent(d) # p /\ d # c
        BY <1>1, <1>4, <1>7
    <2> QED BY <1>1, <1>2, <1>4, <1>7, <2>1 DEF HandCountInv
<1> QED BY <1>2, <1>6, <1>7 DEF HandCountInv

\* The destructor counts the task out and flags the parent of the last one.
LEMMA DestroyGemmKeepsHandCount ==
    ASSUME AllTypeOK, Accepted, HandCountInv, NEW c \in Subs, DestroyGemm(c)
    PROVE  HandCountInv'
<1> DEFINE p == Parent(c)
<1>1. /\ isFinished \in [Tops -> BOOLEAN] /\ task_count \in [Tops -> Int] /\ p \in Tops
      /\ \A d \in Subs : d \in Tasks /\ Parent(d) \in Tops
      /\ deleted \subseteq Subs
    BY TaskFacts DEF AllTypeOK, TypeOK
<1>2. /\ run[c] = "over" /\ stage[c] # "none" /\ c \notin deleted
      /\ deleted' = deleted \cup {c}
      /\ UNCHANGED <<stage, run>>
      /\ task_count'[p] = task_count[p] - 1
      /\ \A q \in Tops \ {p} : task_count'[q] = task_count[q]
      /\ \A q \in Tops : isFinished'[q] = (isFinished[q] \/ (q = p /\ task_count[p] = 1))
    BY <1>1 DEF DestroyGemm, Accepted
<1>3. \A q \in Tops : /\ Alive(q) \in SUBSET Subs /\ (c \in Alive(q) <=> q = p)
                      /\ Alive(q)' = IF q = p THEN Alive(q) \ {c} ELSE Alive(q)
    BY <1>2 DEF Alive
<1>4. \A q \in Tops :
          /\ Cardinality(Alive(q)') =
                IF q = p THEN Cardinality(Alive(q)) - 1 ELSE Cardinality(Alive(q))
          /\ Cardinality(Alive(q)) \in Nat
          /\ Cardinality(Alive(q)') = 0 <=> Alive(q)' = {}
    <2> TAKE q \in Tops
    <2>1. Alive(q)' \in SUBSET Subs
        BY <1>3
    <2> QED BY <1>3, <2>1, SomeSubs
<1>5. \A q \in Tops : task_count'[q] = Cardinality(Alive(q)')
    BY <1>2, <1>4 DEF HandCountInv
<1>6. ASSUME NEW d \in Subs, stage'[d] # "none", Alive(Parent(d))' = {}
      PROVE  isFinished'[Parent(d)]
    <2>1. CASE Parent(d) # p
        BY <1>1, <1>2, <1>3, <1>6, <2>1 DEF HandCountInv
    <2>2. CASE Parent(d) = p
        <3>1. task_count[p] = 1
            BY <1>1, <1>4, <1>6, <2>2 DEF HandCountInv
        <3> QED BY <1>1, <1>2, <2>2, <3>1
    <2> QED BY <2>1, <2>2
<1>7. \A d \in deleted' : run'[d] = "over"
    BY <1>2 DEF HandCountInv
<1> QED BY <1>5, <1>6, <1>7 DEF HandCountInv

\* The count starts at zero where it was zero.
LEMMA GEMM_kernelKeepsHandCount ==
    ASSUME AllTypeOK, Submission, HandCountInv, NEW t \in Tops, GEMM_kernel(t)
    PROVE  HandCountInv'
<1>1. /\ run \in [Tasks -> RunStates] /\ task_count \in [Tops -> Int]
      /\ t \in Tasks /\ t \notin Subs /\ deleted \subseteq Subs
      /\ \A d \in Subs : d \in Tasks /\ Parent(d) \in Tops
    BY TaskFacts DEF AllTypeOK, TypeOK
<1>2. /\ run[t] = "idle" /\ task_count' = [task_count EXCEPT ![t] = 0]
      /\ \A u \in Tasks \ {t} : run'[u] = run[u]
      /\ UNCHANGED <<stage, isFinished, deleted>>
    BY <1>1 DEF GEMM_kernel, runKernels
<1>3. Alive(t) = {}
    BY <1>1, <1>2 DEF Alive, Submission
<1>4. task_count[t] = 0
    BY <1>3, FS_EmptySet DEF HandCountInv
<1>5. UNCHANGED task_count
    BY <1>1, <1>2, <1>4
<1>6. \A q \in Tops : Alive(q)' = Alive(q)
    BY <1>2 DEF Alive
<1> QED BY <1>1, <1>2, <1>5, <1>6 DEF HandCountInv

-------------------------------------------------------------------------------
(* The invariant *)

\* The lock is held between the load of the count and its test, and only there.
LEMMA LockKept ==
    ASSUME AllTypeOK, chain \in Chains, LockHeld, AllNext
    PROVE  LockHeld'
<1>1. /\ run \in [Tasks -> RunStates] /\ lock \in Subs \cup {NoTask}
      /\ \A t \in Tasks : t # NoTask
      /\ Subs \subseteq Tasks /\ Tops \subseteq Tasks
    BY TaskFacts DEF AllTypeOK, TypeOK, Tasks
<1>2. CASE UNCHANGED allVars
    BY <1>2 DEF allVars, vars, LockHeld
<1>3. CASE Quiet
    BY <1>3 DEF Quiet, LockHeld
<1>4. ASSUME NEW c \in Subs, CountStep(c)
      PROVE  LockHeld'
    <2>1. CASE NewTask(c)
        BY <2>1 DEF NewTask, LockHeld
    <2>2. CASE LoadCount(c)
        <3>1. Parent(c) # NoTask
            BY TaskFacts DEF Tasks
        <3>2. /\ lock = NoTask /\ lock' = c /\ run'[c] = "count"
              /\ \A t \in Tasks \ {c} : run'[t] = run[t]
            BY <1>1, <2>2, <3>1 DEF LoadCount
        <3>3. \A t \in Tasks : run[t] \notin {"count", "stored"}
            BY <1>1, <3>2 DEF LockHeld
        <3> QED BY <1>1, <3>2, <3>3 DEF LockHeld
    <2>3. CASE StoreCount(c)
        BY <1>1, <2>3 DEF StoreCount, LockHeld
    <2>4. CASE TestCount(c)
        <3>1. /\ run[c] = "stored" /\ lock' = NoTask /\ run'[c] = "release"
              /\ \A t \in Tasks \ {c} : run'[t] = run[t]
            BY <1>1, <2>4 DEF TestCount
        <3>2. \A t \in Tasks : run'[t] \notin {"count", "stored"}
            BY <1>1, <3>1 DEF LockHeld
        <3> QED BY <1>1, <3>1, <3>2 DEF LockHeld
    <2> QED BY <1>4, <2>1, <2>2, <2>3, <2>4 DEF CountStep
<1>5. ASSUME NEW c \in Subs, HandCountStep(c)
      PROVE  LockHeld'
    BY <1>5 DEF HandCountStep, NewGemmTask, DestroyGemm, LockHeld
<1>6. ASSUME NEW p \in Tops, GEMM_kernel(p)
      PROVE  LockHeld'
    BY <1>1, <1>6 DEF GEMM_kernel, runKernels, LockHeld
<1> QED BY <1>2, <1>3, <1>4, <1>5, <1>6, StepAccount

\* The variables the effects are about keep their types.
LEMMA EffectTypes ==
    ASSUME AllTypeOK, chain \in Chains, Effect
    PROVE  /\ registered' \subseteq Tasks \X Tasks
           /\ length' \in 1..NTop
           /\ prog' \in {"submit", "finalize", "done", "exited"}
           /\ stage' \in [Tasks -> Stages]
           /\ run' \in [Tasks -> RunStates]
           /\ isFinished' \in [Tops -> BOOLEAN]
           /\ engine' \in Tops \cup {NoTask}
           /\ waits' \in [Tasks -> SUBSET Tasks]
<1>1. /\ registered \subseteq Tasks \X Tasks
      /\ length \in 1..NTop
      /\ prog \in {"submit", "finalize", "done", "exited"}
      /\ stage \in [Tasks -> Stages]
      /\ run \in [Tasks -> RunStates]
      /\ isFinished \in [Tops -> BOOLEAN]
      /\ engine \in Tops \cup {NoTask}
      /\ waits \in [Tasks -> SUBSET Tasks]
      /\ OfSG \subseteq Tasks /\ Tops \subseteq Tasks
      /\ AtWork \in RunStates
    BY DEF AllTypeOK, TypeOK, OfSG, Tasks, AtWork, RunStates
<1>2. ASSUME NEW t \in Tasks, Submits(t)
      PROVE  /\ UNCHANGED <<prog, run, isFinished, engine>>
             /\ stage' \in [Tasks -> Stages] /\ waits' \in [Tasks -> SUBSET Tasks]
    <2>1. Blockers(t) \subseteq Tasks
        BY DEF Blockers
    <2>2. waits' = waits \/ waits' = [waits EXCEPT ![t] = Blockers(t)]
        BY <1>2 DEF Submits
    <2>3. waits' \in [Tasks -> SUBSET Tasks]
        BY <1>1, <2>1, <2>2
    <2> QED BY <1>1, <1>2, <2>3 DEF Submits
<1>3. ASSUME NEW t \in Tasks, Passes(t)
      PROVE  /\ UNCHANGED <<prog, run, isFinished, engine, waits>>
             /\ stage' \in [Tasks -> Stages]
    BY <1>1, <1>3 DEF Passes, Stages
<1>4. ASSUME NEW t \in Tops, EngineTakes(t) \/ EngineLeaves(t)
      PROVE  /\ UNCHANGED <<prog, stage, waits>>
             /\ run' \in [Tasks -> RunStates] /\ isFinished' \in [Tops -> BOOLEAN]
             /\ engine' \in Tops \cup {NoTask}
    BY <1>1, <1>4 DEF EngineTakes, EngineLeaves, RunStates
<1>5. ASSUME NEW t \in OfSG, WorkerTakes(t) \/ WorkerGoesOn(t)
      PROVE  /\ UNCHANGED <<prog, stage, engine, waits>>
             /\ run' \in [Tasks -> RunStates] /\ isFinished' \in [Tops -> BOOLEAN]
    BY <1>1, <1>5 DEF WorkerTakes, WorkerGoesOn, RunStates
<1>6. ASSUME NEW t \in Tops, MainRuns(t)
      PROVE  /\ UNCHANGED <<prog, stage, isFinished, engine, waits>>
             /\ run' \in [Tasks -> RunStates]
    BY <1>1, <1>6 DEF MainRuns, RunStates
<1>7. ASSUME Ends
      PROVE  /\ UNCHANGED <<stage, run, isFinished, engine, waits>>
             /\ prog' \in {"submit", "finalize", "done", "exited"}
    BY <1>7 DEF Ends, Finalize, FinalizeReturns
<1> QED BY <1>1, <1>2, <1>3, <1>4, <1>5, <1>6, <1>7 DEF Effect

\* The others follow the counts.
LEMMA AccountTypes ==
    ASSUME AllTypeOK, chain \in Chains, LockHeld, AllNext
    PROVE  /\ task_count' \in [Tops -> Int]
           /\ lock' \in Subs \cup {NoTask}
           /\ loaded' \in [Tasks -> Int]
           /\ sawAlpha' \in [Tasks -> BOOLEAN]
           /\ deleted' \subseteq Subs
<1>1. /\ task_count \in [Tops -> Int]
      /\ lock \in Subs \cup {NoTask}
      /\ loaded \in [Tasks -> Int]
      /\ sawAlpha \in [Tasks -> BOOLEAN]
      /\ deleted \subseteq Subs
      /\ \A c \in Subs : c \in Tasks /\ Parent(c) \in Tops
    BY TaskFacts DEF AllTypeOK, TypeOK
<1>2. CASE UNCHANGED allVars
    BY <1>1, <1>2 DEF allVars, vars
<1>3. CASE Quiet
    BY <1>1, <1>3 DEF Quiet
<1>4. ASSUME NEW c \in Subs, CountStep(c)
      PROVE  /\ task_count' \in [Tops -> Int]
             /\ lock' \in Subs \cup {NoTask}
             /\ loaded' \in [Tasks -> Int]
             /\ UNCHANGED sawAlpha
    BY <1>1, <1>4 DEF CountStep, NewTask, SetParent, LoadCount, StoreCount, TestCount
<1>5. ASSUME NEW c \in Subs, HandCountStep(c)
      PROVE  /\ task_count' \in [Tops -> Int]
             /\ deleted' \subseteq Subs
             /\ UNCHANGED <<lock, loaded, sawAlpha>>
    BY <1>1, <1>5 DEF HandCountStep, NewGemmTask, DestroyGemm
<1>6. ASSUME NEW p \in Tops, GEMM_kernel(p)
      PROVE  /\ task_count' \in [Tops -> Int]
             /\ UNCHANGED <<lock, loaded, sawAlpha, deleted>>
    BY <1>1, <1>6 DEF GEMM_kernel, runKernels
<1> QED BY <1>1, <1>2, <1>3, <1>4, <1>5, <1>6, StepAccount

CountTyped == task_count \in [Tops -> Int]
CountRange == \A p \in Tops : task_count[p] \in -Cardinality(Subs)..Cardinality(Subs)

\* The count stays within the number of sub-tasks, on either side of zero.
LEMMA CountBounds == CountTyped /\ (HandCountInv \/ CountInv) => CountRange
<1> SUFFICES ASSUME task_count \in [Tops -> Int], HandCountInv \/ CountInv,
                    NEW p \in Tops
             PROVE  task_count[p] \in -Cardinality(Subs)..Cardinality(Subs)
    BY DEF CountTyped, CountRange
<1>1. Counted(p) \in SUBSET Subs /\ Stored(p) \in SUBSET Subs /\ Alive(p) \in SUBSET Subs
      /\ Subs \in SUBSET Subs
    BY DEF Counted, Stored, Alive
<1>2. /\ Cardinality(Counted(p)) \in 0..Cardinality(Subs)
      /\ Cardinality(Stored(p)) \in 0..Cardinality(Subs)
      /\ Cardinality(Alive(p)) \in 0..Cardinality(Subs)
      /\ Cardinality(Subs) \in Nat
    BY <1>1, SomeSubs
<1>3. CASE HandCountInv
    BY <1>2, <1>3 DEF HandCountInv
<1>4. CASE CountInv
    <2>1. task_count[p] >= -Cardinality(Stored(p)) /\ task_count[p] <= Cardinality(Counted(p))
        BY <1>4 DEF CountInv, NeverLow, CountNeverHigh
    <2> QED BY <1>2, <2>1
<1> QED BY <1>3, <1>4

\* Every step keeps what the counts are.
LEMMA CountsKeep ==
    ASSUME AllTypeOK, chain \in Chains, OrderInv, LockHeld, AllNext, UNCHANGED chain,
           IF ByHand THEN HandCountInv ELSE CountInv
    PROVE  IF ByHand THEN HandCountInv' ELSE CountInv'
<1>1. Accepted /\ Submission
    BY DEF OrderInv
<1>2. CASE UNCHANGED allVars
    <2>1. UNCHANGED <<stage, run, isFinished, task_count, loaded, deleted>>
        BY <1>2 DEF allVars, vars
    <2>2. \A p \in Tops : /\ Counted(p)' = Counted(p) /\ Stored(p)' = Stored(p)
                          /\ Alive(p)' = Alive(p) /\ NotFlagged(p)' = NotFlagged(p)
        BY <2>1 DEF Counted, Stored, Alive, NotFlagged
    <2>3. \A c \in Subs : Parent(c) \in Tops
        BY TaskFacts
    <2> QED BY <2>1, <2>2, <2>3
            DEF HandCountInv, CountInv, CountNeverHigh, LoadedNeverHigh, NeverLow
<1>3. CASE Quiet
    BY <1>3, QuietKeepsCount, QuietKeepsHandCount
<1>4. CASE ~ByHand /\ \E c \in Subs : CountStep(c)
    BY <1>1, <1>4, CountStepKeepsCount
<1>5. CASE ByHand /\ \E c \in Subs : HandCountStep(c)
    BY <1>1, <1>5, NewGemmTaskKeepsHandCount, DestroyGemmKeepsHandCount DEF HandCountStep
<1>6. CASE ByHand /\ \E p \in Tops : GEMM_kernel(p)
    BY <1>1, <1>6, GEMM_kernelKeepsHandCount
<1> QED BY <1>2, <1>3, <1>4, <1>5, <1>6, StepAccount

\* A program that has exited does nothing.
LEMMA ExitedStays ==
    ASSUME AllTypeOK, prog = "exited", Blank, AllNext
    PROVE  UNCHANGED allVars
<1>1. /\ \A t \in Tasks : stage[t] = "none" /\ run[t] = "idle"
      /\ engine = NoTask
      /\ Tops \subseteq Tasks /\ Subs \subseteq Tasks
    BY DEF Blank, Tasks
<1>2. \A t \in Tasks : ~Submitting(t)
    BY <1>1, TaskFacts DEF Submitting, Tasks
<1>3. \A t \in Tasks : ~SubmitStep(t)
    BY <1>1, <1>2
    DEF SubmitStep, NewTask, SubmitToSuperGlue, AddTask, SetGuests, SetAttributes
<1>4. \A t \in Tasks : ~RunOnWorker(t)
    BY <1>1 DEF RunOnWorker
<1>5. \A t \in Tasks : ~WorkerStep(t)
    BY <1>1, <1>4 DEF WorkerStep, LoadCount, StoreCount, TestCount, Release
<1>6. \A t \in Tops : /\ ~RunKernels(t) /\ ~ReturnOperation(t) /\ ~FinishMine(t)
                      /\ ~GEMM_kernel(t) /\ ~GEMM_kernel_dgemm(t)
    BY <1>1
    DEF RunKernels, ReturnOperation, FinishMine, GEMM_kernel, GEMM_kernel_dgemm, runKernels
<1>7. ~Finalize /\ ~FinalizeReturns
    BY DEF Finalize, FinalizeReturns
<1>8. \A t \in Tasks : ~HandSubmit(t)
    BY <1>1, <1>2
    DEF HandSubmit, addTask, NewGemmTask, SubmitGemm, matmul, gemm_block, gemm_of_blocks
<1>9. \A t \in Tasks : ~HandWorker(t)
    BY <1>1, <1>4 DEF HandWorker, RunGemmTask, RunGemm, ReturnGemm, DestroyGemm
<1>10. ~EngineStep /\ ~HandEngine /\ ~Finish
    BY <1>6, <1>7 DEF EngineStep, HandEngine, ReturnKernel, FinishKernel, Finish
<1>11. Terminated /\ UNCHANGED deleted
    BY <1>3, <1>5, <1>7, <1>8, <1>9, <1>10 DEF AllNext, Next, HandNext, AllTerminated
<1> QED BY <1>11 DEF Terminated, allVars

\* Nothing happens to the invariant when nothing happens.
LEMMA HandStutter == ASSUME HandInv, UNCHANGED allVars PROVE HandInv'
<1> USE DEF allVars, vars
<1>1. AllTypeOK'
    BY DEF HandInv, AllTypeOK, TypeOK
<1>2. Started' /\ LockHeld'
    BY DEF HandInv, Started, Blank, LockHeld
<1>3. OfSG' = OfSG /\ AtWork' = AtWork /\ Programme' = Programme /\ ByHand' = ByHand
    BY DEF OfSG, AtWork, Programme, ByHand
<1>4. Submission' /\ SplitDone' /\ Accepted' /\ EngineAtWork' /\ Flags' /\ FlagsInOrder'
    BY <1>3
    DEF HandInv, OrderInv, Submission, SplitDone, Accepted, EngineAtWork, Flags, FlagsInOrder
<1>5. Covered' /\ KernelsInOrder' /\ OneByOne' /\ Waited'
    BY <1>3 DEF HandInv, OrderInv, Covered, KernelsInOrder, Ordered, OneByOne, Waited
<1>6. \A p \in Tops : /\ Counted(p)' = Counted(p) /\ Stored(p)' = Stored(p)
                      /\ Alive(p)' = Alive(p) /\ NotFlagged(p)' = NotFlagged(p)
    BY DEF Counted, Stored, Alive, NotFlagged
<1>7. \A c \in Subs : Parent(c) \in Tops
    BY TaskFacts
<1>8. IF ByHand THEN HandCountInv' ELSE CountInv'
    BY <1>6, <1>7
    DEF HandInv, HandCountInv, CountInv, CountNeverHigh, LoadedNeverHigh, NeverLow
<1> QED BY <1>1, <1>2, <1>3, <1>4, <1>5, <1>8 DEF HandInv, OrderInv

\* Every step of every program keeps the invariant.
LEMMA HandStep == ASSUME HandInv, AllNext PROVE HandInv'
<1>1. CASE prog = "exited"
    BY <1>1, ExitedStays, HandStutter DEF HandInv, Started
<1>2. CASE UNCHANGED allVars
    BY <1>2, HandStutter
<1>3. CASE prog # "exited" /\ Effect
    <2>1. AllTypeOK /\ chain \in Chains /\ OrderInv /\ LockHeld
        BY <1>3 DEF HandInv, Started
    <2>2. chain' = chain /\ ByHand' = ByHand
        BY <1>3 DEF Effect, ByHand
    <2>3. OrderInv'
        BY <1>3, <2>1, EffectKeeps
    <2>4. LockHeld'
        BY <2>1, LockKept
    <2>5. IF ByHand THEN HandCountInv' ELSE CountInv'
        BY <2>1, <2>2, CountsKeep DEF HandInv
    <2>6. AllTypeOK'
        <3>1. CountTyped'
            BY <2>1, AccountTypes DEF CountTyped
        <3>2. HandCountInv' \/ CountInv'
            BY <2>5
        <3>3. CountRange'
            BY <3>1, <3>2, CountBounds, PTL
        <3> QED BY <1>3, <2>1, <3>3, EffectTypes, AccountTypes
                DEF AllTypeOK, TypeOK, CountRange
    <2>7. Started'
        <3>1. prog' # "exited"
            BY <1>3
            DEF Effect, Submits, Passes, EngineTakes, EngineLeaves, WorkerTakes,
                WorkerGoesOn, MainRuns, Ends, Finalize, FinalizeReturns
        <3> QED BY <2>1, <2>2, <3>1 DEF Started
    <2> QED BY <2>2, <2>3, <2>4, <2>5, <2>6, <2>7 DEF HandInv
<1> QED BY <1>1, <1>2, <1>3, StepEffect DEF HandInv, Started

\* load makes the chain or the program exits; nothing has been submitted.
LEMMA HandInit == ASSUME AllInit PROVE HandInv
<1>1. /\ length \in 1..NTop
      /\ stage = [t \in Tasks |-> "none"] /\ run = [t \in Tasks |-> "idle"]
      /\ isFinished = [t \in Tops |-> FALSE] /\ engine = NoTask
      /\ task_count = [t \in Tops |-> 0] /\ lock = NoTask
      /\ loaded = [t \in Tasks |-> 0] /\ waits = [t \in Tasks |-> {}]
      /\ sawAlpha = [t \in Tasks |-> TRUE] /\ deleted = {}
    BY DEF AllInit, Init, InitOf
<1>2. prog \in {"submit", "exited"} /\ (prog = "submit" => chain \in Chains)
    <2>1. CASE Init
        <3>1. PICK c \in Configs : /\ chain = Chain(c)
                                   /\ prog = IF Starts(c) THEN "submit" ELSE "exited"
            BY <2>1 DEF Init, InitOf
        <3> QED BY <3>1, ChainAssumption DEF Chains
    <2>2. CASE prog = "submit" /\ \E program \in Products : InitOf(program, Conflict)
        BY <2>2, ProductsAssumption DEF InitOf, Chains
    <2> QED BY <2>1, <2>2 DEF AllInit
<1>3. Started
    BY <1>1, <1>2 DEF Started, Blank
<1>4. /\ Tops \subseteq Tasks /\ Subs \subseteq Tasks
      /\ \A t \in Tasks : stage[t] = "none" /\ run[t] = "idle" /\ t # NoTask
      /\ \A c \in Subs : Parent(c) \in Tops
    BY <1>1, TaskFacts DEF Tasks
<1>5. OfSG \subseteq Tasks
    BY <1>4 DEF OfSG
<1>6. OrderInv
    <2>1. Submission /\ SplitDone /\ Accepted /\ Flags /\ FlagsInOrder
        BY <1>1, <1>4 DEF Submission, SplitDone, Accepted, Flags, FlagsInOrder
    <2>2. EngineAtWork
        BY <1>1, <1>4 DEF EngineAtWork, AtWork
    <2>3. Covered /\ KernelsInOrder /\ OneByOne /\ Waited
        BY <1>2, <1>4, <1>5 DEF Covered, KernelsInOrder, OneByOne, Waited
    <2> QED BY <2>1, <2>2, <2>3 DEF OrderInv
<1>7. LockHeld
    BY <1>1, <1>4 DEF LockHeld
<1>8. \A p \in Tops : /\ Counted(p) \in SUBSET Subs /\ Stored(p) = {} /\ Alive(p) = {}
                      /\ task_count[p] = 0 /\ Cardinality(Counted(p)) \in Nat
    <2>1. \A p \in Tops : Counted(p) \in SUBSET Subs /\ Stored(p) = {} /\ Alive(p) = {}
        BY <1>4 DEF Counted, Stored, Alive
    <2> QED BY <1>1, <2>1, SomeSubs
<1>9. CountInv
    <2>1. \A c \in Subs : run[c] # "count"
        BY <1>4
    <2>2. CountNeverHigh /\ LoadedNeverHigh /\ NeverLow
        BY <1>8, <2>1, FS_EmptySet DEF CountNeverHigh, LoadedNeverHigh, NeverLow
    <2>3. \A p \in Tops : NotFlagged(p)
        BY <1>4, <1>8 DEF NotFlagged
    <2> QED BY <2>2, <2>3 DEF CountInv
<1>10. HandCountInv
    BY <1>1, <1>4, <1>8, FS_EmptySet DEF HandCountInv
<1>11. AllTypeOK
    <2>1. \A p \in Tops : task_count[p] \in -Cardinality(Subs)..Cardinality(Subs)
        BY <1>1, <1>9, <1>10, CountBounds DEF CountTyped, CountRange
    <2>2. registered \subseteq Tasks \X Tasks
        BY DEF AllInit, Init, InitOf, Registered, Conflict
    <2> QED BY <1>1, <1>2, <2>1, <2>2 DEF AllTypeOK, TypeOK, Stages, RunStates
<1> QED BY <1>3, <1>6, <1>7, <1>9, <1>10, <1>11 DEF HandInv

-------------------------------------------------------------------------------
(* The theorems *)

\* The invariant, for every chain and any number of tasks and workers.
THEOREM HandInductive == AllSpec => []HandInv
<1>1. HandInv /\ [AllNext]_allVars => HandInv'
    BY HandStep, HandStutter
<1> QED BY <1>1, HandInit, PTL DEF AllSpec

\* The variables have their types; the count stays between the bounds the
\* number of sub-tasks sets, although increases of it are lost.
THEOREM HandTypes == AllSpec => []AllTypeOK
<1>1. HandInv => AllTypeOK
    BY DEF HandInv
<1> QED BY <1>1, HandInductive, PTL

\* What DTWrapper::finishedTask counts is never too high, whatever increases
\* set_parent does between its load and its store; what GemmTask counts is exact.
THEOREM CountsCorrect == AllSpec => []CountsKept
<1>1. HandInv => CountsKept
    BY DEF HandInv, CountInv, HandCountInv, CountsKept
<1> QED BY <1>1, HandInductive, PTL

\* No completion is lost, neither by the framework's unlocked increases nor by
\* the count of the products coming to zero while the kernel still makes tasks.
THEOREM CompletionsCorrect == AllSpec => []CompletionKept
<1>1. ASSUME HandInv, NEW p \in Tops, Len(chain) = 3, run[p] = "over"
      PROVE  /\ \E c \in Subs : Parent(c) = p
             /\ \A c \in Subs : Parent(c) = p => stage[c] # "none"
    <2>1. \A c \in Subs : Parent(c) = p => stage[c] = "returned"
        BY <1>1 DEF HandInv, OrderInv, SplitDone
    <2> QED BY <2>1, TaskFacts
<1>2. ASSUME HandInv, ByHand, NEW p \in Tops, Len(chain) = 3, run[p] = "over", Alive(p) = {}
      PROVE  isFinished[p]
    BY <1>1, <1>2 DEF HandInv, HandCountInv
<1>3. ASSUME HandInv, ~ByHand, NEW p \in Tops, Len(chain) = 3, run[p] = "over",
             Counted(p) = {}
      PROVE  isFinished[p] \/ \E c \in Subs : Parent(c) = p /\ run[c] = "stored"
    <2>1. task_count[p] <= 0
        BY <1>3, FS_EmptySet DEF HandInv, CountInv, CountNeverHigh
    <2>2. task_count[p] \in Int
        BY <1>3 DEF HandInv, AllTypeOK, TypeOK
    <2>3. isFinished[p] \/ NotFlagged(p)
        BY <1>3 DEF HandInv, CountInv
    <2> QED BY <1>1, <1>3, <2>1, <2>2, <2>3 DEF NotFlagged
<1>4. HandInv => CompletionKept
    BY <1>2, <1>3 DEF CompletionKept, NoLostCompletion
<1> QED BY <1>4, HandInductive, PTL

\* A program that runs kernels has not exited.
LEMMA RunningProgram ==
    ASSUME HandInv, NEW t \in Tasks, run[t] # "idle"
    PROVE  chain \in Chains
BY DEF HandInv, Started, Blank

\* With two schedulers the tasks of the program run kernels, with three their
\* sub-tasks.
LEMMA KernelsAlike ==
    ASSUME chain \in Chains, NEW v \in Kernels
    PROVE  v \in IF Len(chain) = 2 THEN Tops ELSE Subs
<1>1. /\ v \in Tops \cup Subs /\ BeforeLast(v)
      /\ v \in Subs => Len(chain) = 3
    BY DEF Kernels, Used, Tasks
<1> QED BY <1>1, ChainFacts

\* Two kernels registered in conflict run in the order of the program, on every
\* chain, whatever the fields hold by which the wrappers register, and although
\* with three schedulers a task may be flagged before its end.
THEOREM KernelsCorrect == AllSpec => []KernelOrder
<1>1. HandInv => KernelOrder
    <2> SUFFICES ASSUME HandInv, NEW t \in Kernels, NEW u \in Kernels,
                        Before(t, u), Ordered(t, u), run[u] # "idle"
                 PROVE  run[t] = "over"
        BY DEF KernelOrder
    <2>1. t \in Tasks /\ u \in Tasks
        BY DEF Kernels, Used
    <2>2. chain \in Chains /\ stage[u] # "none"
        BY <2>1, RunningProgram DEF HandInv, OrderInv, Accepted
    <2>3. \A v \in Kernels : v \in IF Len(chain) = 2 THEN Tops ELSE Subs
        BY <2>2, KernelsAlike
    <2>4. CASE Len(chain) = 3 \/ chain[1] = "SuperGlue"
        <3>1. t \in OfSG /\ u \in OfSG
            BY <2>2, <2>3, <2>4, ChainFacts DEF OfSG
        <3> QED BY <3>1 DEF HandInv, OrderInv, KernelsInOrder
    <2>5. CASE Len(chain) = 2 /\ chain[1] # "SuperGlue"
        <3>1. t \in Tops /\ u \in Tops /\ t \in Earlier(u)
            BY <2>3, <2>5, BeforeFacts
        <3>2. CASE chain[1] = "DuctTeip"
            BY <2>5, <3>1, <3>2 DEF HandInv, OrderInv, FlagsInOrder, Flags, Ordered
        <3>3. CASE chain[1] = "main"
            BY <2>2, <3>1, <3>3 DEF HandInv, OrderInv, OneByOne
        <3> QED BY <2>2, <2>5, <3>2, <3>3, ChainFacts
    <2> QED BY <2>2, <2>4, <2>5, ChainFacts
<1> QED BY <1>1, HandInductive, PTL

\* Two kernels in conflict by the declared accesses do so as well, if none of
\* the declared conflicts has been lost in registering.
THEOREM DeclaredOrder ==
    AllSpec => [](Kept => \A t, u \in Kernels :
                    Before(t, u) /\ <<t, u>> \in Conflict /\ run[u] # "idle"
                        => run[t] = "over")
<1>1. HandInv /\ KernelOrder =>
        (Kept => \A t, u \in Kernels :
            Before(t, u) /\ <<t, u>> \in Conflict /\ run[u] # "idle" => run[t] = "over")
    <2> SUFFICES ASSUME HandInv, KernelOrder, Kept, NEW t \in Kernels, NEW u \in Kernels,
                        Before(t, u), <<t, u>> \in Conflict, run[u] # "idle"
                 PROVE  run[t] = "over"
        OBVIOUS
    <2>1. <<t, u>> \in registered
        BY DEF Kept
    <2>2. ASSUME Parent(t) # Parent(u)
          PROVE  <<Parent(t), Parent(u)>> \in registered
        <3>1. chain \in Chains /\ t \in Tasks /\ u \in Tasks
            BY RunningProgram DEF Kernels, Used
        <3>2. \/ t \in Tops /\ u \in Tops
              \/ t \in Subs /\ u \in Subs
            BY <3>1, KernelsAlike
        <3>3. t \in Subs /\ u \in Subs /\ t[1] # u[1]
            BY <2>2, <3>2, TaskFacts
        <3>4. <<<<t[1]>>, <<u[1]>>>> \in Conflict
            BY <3>3, BlocksAssumption
        <3> QED BY <3>3, <3>4, TaskFacts DEF Kept
    <2> QED BY <2>1, <2>2 DEF KernelOrder, Ordered
<1> QED BY <1>1, HandInductive, KernelsCorrect, PTL

\* The declared conflicts are registered, from the first state on, if In stands
\* in the field of no datum that a task writes: every access of such a datum is
\* registered as a write.  The products register what they declare.
THEOREM KeptUnlessHeld ==
    (\A held \in HoldIn, t \in Tasks : Writes[t] \cap held = {}) /\ AllSpec => []Kept
<1> DEFINE Spared == \A held \in HoldIn, t \in Tasks : Writes[t] \cap held = {}
<1>1. Spared /\ AllInit => Kept
    <2>1. ASSUME Spared, NEW held \in HoldIn
          PROVE  Conflict \subseteq Registered(held)
        BY <2>1 DEF Conflict, Registered, Args
    <2> QED BY <2>1 DEF AllInit, Init, InitOf, Kept
<1>2. Kept /\ [AllNext]_allVars => Kept'
    BY DEF Kept, allVars, vars, AllNext, Next, AllTerminated, Terminated
<1> QED BY <1>1, <1>2, PTL DEF AllSpec

\* With two schedulers utp_finalize returns when every kernel has run.
THEOREM FinalizeOfTwoCorrect == AllSpec => []FinalizeCompleteOfTwo
<1>1. HandInv => FinalizeCompleteOfTwo
    <2> SUFFICES ASSUME HandInv, Len(chain) = 2, prog = "done", NEW t \in Kernels
                 PROVE  run[t] = "over"
        BY DEF FinalizeCompleteOfTwo, FinalizeComplete
    <2>1. t \in Tops /\ t[1] <= length
        BY DEF Kernels, Used, Tasks
    <2>2. t \in Programme
        BY <2>1, TaskFacts DEF Programme, HandInv, AllTypeOK, TypeOK
    <2> QED BY <2>2 DEF HandInv, OrderInv, Waited
<1> QED BY <1>1, HandInductive, PTL

-------------------------------------------------------------------------------
(* The refinement *)

\* What the abstract scheduler has accepted, and what has become of it.
Handed == {t \in Tops : stage[t] \notin {"none", "built"}}
Status == [p \in 1..NTop |-> StatusOf(<<p>>)]
Clashes ==
    {e \in (1..NTop) \X (1..NTop) :
        e[1] < e[2] /\ <<<<e[1]>>, <<e[2]>>>> \in Conflict}

\* One more task handed to the first scheduler is a Submit of TaskOrder.
LEMMA AbstractSubmit ==
    ASSUME Cardinality(Handed) < NTop, Cardinality(Handed)' = Cardinality(Handed) + 1,
           Status' = Status
    PROVE  Abstract!Next
BY DEF Abstract!Next, Abstract!Submit, Handed, Status

\* A task that begins after those it conflicts with is a Start of TaskOrder.
LEMMA AbstractStart ==
    ASSUME NEW p \in 1..NTop, p <= Cardinality(Handed), Status[p] = "waiting",
           \A q \in 1..NTop : <<q, p>> \in Clashes => Status[q] = "finished",
           Status' = [Status EXCEPT ![p] = "running"],
           Cardinality(Handed)' = Cardinality(Handed)
    PROVE  Abstract!Next
BY DEF Abstract!Next, Abstract!Start, Abstract!Tasks, Handed, Status, Clashes

\* A task that ends is a Finish of TaskOrder.
LEMMA AbstractFinish ==
    ASSUME NEW p \in 1..NTop, Status[p] = "running",
           Status' = [Status EXCEPT ![p] = "finished"],
           Cardinality(Handed)' = Cardinality(Handed)
    PROVE  Abstract!Next
BY DEF Abstract!Next, Abstract!Finish, Abstract!Tasks, Handed, Status

\* A step that starts, ends and hands over nothing is no step of TaskOrder.
LEMMA AbstractStutter ==
    ASSUME Cardinality(Handed)' = Cardinality(Handed), Status' = Status
    PROVE  UNCHANGED Abstract!vars
BY DEF Abstract!vars, Handed, Status

\* Tasks are handed over one after the other.
LEMMA HandedFacts ==
    ASSUME NEW H \in SUBSET Tops
    PROVE  /\ IsFiniteSet(H) /\ Cardinality(H) \in 0..NTop
           /\ \A t \in Tops \ H : /\ Cardinality(H \cup {t}) = Cardinality(H) + 1
                                  /\ Cardinality(H) < NTop
           /\ \A t \in H : Earlier(t) \subseteq H => t[1] <= Cardinality(H)
<1>1. NTop \in Nat /\ NTop \in 0..NTop /\ Tops = {<<q>> : q \in 1..NTop}
    BY ChainAssumption DEF Tops
<1>2. IsFiniteSet(Tops) /\ Cardinality(Tops) = NTop
    BY <1>1, FirstTops
<1>3. \A S \in SUBSET Tops : IsFiniteSet(S) /\ Cardinality(S) \in 0..NTop
    <2> TAKE S \in SUBSET Tops
    <2>1. IsFiniteSet(S) /\ Cardinality(S) <= NTop
        BY <1>2, FS_Subset
    <2>2. Cardinality(S) \in Nat
        BY <2>1, FS_CardinalityType
    <2> QED BY <1>1, <2>1, <2>2
<1>4. ASSUME NEW t \in Tops \ H
      PROVE  Cardinality(H \cup {t}) = Cardinality(H) + 1 /\ Cardinality(H) < NTop
    <2>1. Cardinality(H \cup {t}) = Cardinality(H) + 1
        BY <1>3, FS_AddElement
    <2>2. Cardinality(H \cup {t}) \in 0..NTop /\ Cardinality(H) \in 0..NTop
        BY <1>3
    <2> QED BY <1>1, <2>1, <2>2
<1>5. ASSUME NEW t \in H, Earlier(t) \subseteq H
      PROVE  t[1] <= Cardinality(H)
    <2> DEFINE F == {<<q>> : q \in 1..t[1]}
    <2>1. t[1] \in 1..NTop /\ t = <<t[1]>> /\ t[1] \in 0..NTop
        BY <1>1, TaskFacts
    <2>2. Cardinality(F) = t[1]
        BY <2>1, FirstTops
    <2>3. \A q \in 1..t[1] : <<q>> \in H
        <3> TAKE q \in 1..t[1]
        <3>1. CASE q = t[1]
            BY <2>1, <3>1
        <3>2. CASE q < t[1]
            <4>1. q \in 1..NTop /\ <<q>>[1] = q
                BY <1>1, <2>1, <3>2
            <4>2. <<q>> \in Tops
                BY <1>1, <4>1
            <4> QED BY <1>5, <3>2, <4>1, <4>2, EarlierFacts
        <3> QED BY <2>1, <3>1, <3>2
    <2>4. F \subseteq H
        BY <2>3
    <2>5. Cardinality(F) <= Cardinality(H)
        BY <1>3, <2>4, FS_Subset
    <2> QED BY <2>2, <2>5
<1> QED BY <1>3, <1>4, <1>5

\* The states, task by task.
LEMMA StatusFacts ==
    /\ \A p \in 1..NTop : <<p>> \in Tops /\ <<p>>[1] = p
    /\ \A t \in Tops : t[1] \in 1..NTop /\ <<t[1]>> = t /\ Status[t[1]] = StatusOf(t)
    /\ \A q, p \in 1..NTop :
          <<q, p>> \in Clashes => <<q>> \in Earlier(<<p>>) /\ <<<<q>>, <<p>>>> \in Conflict
<1>1. \A p \in 1..NTop : <<p>> \in Tops /\ <<p>>[1] = p
    BY DEF Tops
<1>2. \A t \in Tops : t[1] \in 1..NTop /\ <<t[1]>> = t /\ Status[t[1]] = StatusOf(t)
    BY TaskFacts DEF Status
<1>3. \A q, p \in 1..NTop :
          <<q, p>> \in Clashes => <<q>> \in Earlier(<<p>>) /\ <<<<q>>, <<p>>>> \in Conflict
    BY <1>1, EarlierFacts DEF Clashes
<1> QED BY <1>1, <1>2, <1>3

\* One task starts, or ends, and the others are as they were.
LEMMA TopStarts ==
    ASSUME AllTypeOK, Submission, NEW t \in Tops,
           StatusOf(t) = "waiting", StatusOf(t)' = "running",
           stage[t] \in {"mapped", "returned"},
           \A u \in Earlier(t) : <<u, t>> \in Conflict => StatusOf(u) = "finished",
           \A u \in Tops \ {t} : StatusOf(u)' = StatusOf(u),
           UNCHANGED stage
    PROVE  Abstract!Next
<1> DEFINE p == t[1]
<1>1. p \in 1..NTop /\ <<p>> = t /\ Status[p] = "waiting"
    BY StatusFacts
<1>2. \A q \in 1..NTop : <<q, p>> \in Clashes => Status[q] = "finished"
    <2> SUFFICES ASSUME NEW q \in 1..NTop, <<q, p>> \in Clashes
                 PROVE  Status[q] = "finished"
        OBVIOUS
    <2>1. <<q>> \in Earlier(t) /\ <<<<q>>, t>> \in Conflict
        BY <1>1, StatusFacts
    <2>2. StatusOf(<<q>>) = "finished"
        BY <2>1
    <2> QED BY <2>2, StatusFacts
<1>3. p <= Cardinality(Handed)
    <2>1. Handed \in SUBSET Tops /\ t \in Handed
        BY DEF Handed
    <2>2. Earlier(t) \subseteq Handed
        BY EarlierFacts, TaskFacts DEF Submission, Handed
    <2> QED BY <2>1, <2>2, HandedFacts
<1>4. Cardinality(Handed)' = Cardinality(Handed)
    BY DEF Handed
<1>5. Status' = [Status EXCEPT ![p] = "running"]
    <2>1. \A q \in 1..NTop : StatusOf(<<q>>)' = IF q = p THEN "running" ELSE StatusOf(<<q>>)
        BY <1>1, StatusFacts
    <2> QED BY <1>1, <2>1 DEF Status
<1> QED BY <1>1, <1>2, <1>3, <1>4, <1>5, AbstractStart

\* The end of one task of the program is a Finish of TaskOrder.
LEMMA TopEnds ==
    ASSUME NEW t \in Tops, StatusOf(t) = "running", StatusOf(t)' = "finished",
           \A u \in Tops \ {t} : StatusOf(u)' = StatusOf(u),
           UNCHANGED stage
    PROVE  Abstract!Next
<1> DEFINE p == t[1]
<1>1. p \in 1..NTop /\ <<p>> = t /\ Status[p] = "running"
    BY StatusFacts
<1>2. Cardinality(Handed)' = Cardinality(Handed)
    BY DEF Handed
<1>3. Status' = [Status EXCEPT ![p] = "finished"]
    <2>1. \A q \in 1..NTop : StatusOf(<<q>>)' = IF q = p THEN "finished" ELSE StatusOf(<<q>>)
        BY <1>1, StatusFacts
    <2> QED BY <1>1, <2>1 DEF Status
<1> QED BY <1>1, <1>2, <1>3, AbstractFinish

\* A step that changes no task of the program is no step of TaskOrder.
LEMMA TopsAlike ==
    ASSUME \A u \in Tops : StatusOf(u)' = StatusOf(u), Handed' = Handed
    PROVE  UNCHANGED Abstract!vars
<1>1. Status' = Status
    BY StatusFacts DEF Status
<1> QED BY <1>1, AbstractStutter

\* Each effect is a step of TaskOrder or none.
LEMMA EffectMaps ==
    ASSUME AllTypeOK, chain \in Chains, OrderInv, Kept, Effect
    PROVE  Abstract!Next \/ UNCHANGED Abstract!vars
<1> USE DEF StatusOf
<1>1. /\ stage \in [Tasks -> Stages] /\ run \in [Tasks -> RunStates]
      /\ isFinished \in [Tops -> BOOLEAN]
      /\ \A p \in Tops : p \in Tasks /\ p \notin Subs
      /\ \A c \in Subs : c \in Tasks /\ Parent(c) \in Tops
      /\ chain' = chain /\ Submission
    BY TaskFacts DEF AllTypeOK, TypeOK, Effect, OrderInv
<1>2. ASSUME NEW t \in Tasks, Submits(t)
      PROVE  Abstract!Next \/ UNCHANGED Abstract!vars
    <2>1. UNCHANGED <<run, isFinished>> /\ stage[t] \in {"none", "built"}
        BY <1>2 DEF Submits
    <2>2. PICK s \in Stages \ {"none"} : stage' = [stage EXCEPT ![t] = s]
        BY <1>2 DEF Submits
    <2>3. \A u \in Tops : StatusOf(u)' = StatusOf(u)
        BY <1>1, <2>1
    <2>4. CASE t \in Tops /\ s # "built"
        <3>1. Handed' = Handed \cup {t} /\ t \notin Handed /\ Handed \in SUBSET Tops
            BY <1>1, <2>1, <2>2, <2>4 DEF Handed
        <3>2. /\ Cardinality(Handed)' = Cardinality(Handed) + 1
              /\ Cardinality(Handed) < NTop
            BY <2>4, <3>1, HandedFacts
        <3>3. Status' = Status
            BY <2>3, StatusFacts DEF Status
        <3> QED BY <3>2, <3>3, AbstractSubmit
    <2>5. CASE ~(t \in Tops /\ s # "built")
        <3>1. Handed' = Handed
            BY <1>1, <2>1, <2>2, <2>5 DEF Handed
        <3> QED BY <2>3, <3>1, TopsAlike
    <2> QED BY <2>4, <2>5
<1>3. ASSUME NEW t \in Tasks, Passes(t)
      PROVE  UNCHANGED Abstract!vars
    <2>1. UNCHANGED <<run, isFinished>> /\ stage[t] \notin {"none", "built"}
        BY <1>3 DEF Passes
    <2>2. PICK s \in {"linked", "mapped", "returned"} : stage' = [stage EXCEPT ![t] = s]
        BY <1>3 DEF Passes
    <2>3. \A u \in Tops : StatusOf(u)' = StatusOf(u)
        BY <1>1, <2>1
    <2>4. Handed' = Handed
        BY <1>1, <2>1, <2>2 DEF Handed
    <2> QED BY <2>3, <2>4, TopsAlike
<1>4. ASSUME NEW t \in Tops, EngineTakes(t), chain[1] = "DuctTeip"
      PROVE  Abstract!Next
    <2>1. /\ run[t] = "idle" /\ run'[t] = AtWork /\ UNCHANGED <<stage, isFinished>>
          /\ \A u \in Tops \ {t} : run'[u] = run[u]
          /\ stage[t] \in {"mapped", "returned"}
          /\ \A u \in Earlier(t) : <<u, t>> \in Conflict => isFinished[u]
        BY <1>1, <1>4 DEF EngineTakes, DataReady, Kept
    <2>2. ~isFinished[t] /\ AtWork # "idle"
        BY <2>1 DEF OrderInv, Flags, AtWork
    <2>3. StatusOf(t) = "waiting" /\ StatusOf(t)' = "running"
        BY <1>1, <1>4, <2>1, <2>2
    <2>4. \A u \in Tops \ {t} : StatusOf(u)' = StatusOf(u)
        BY <1>1, <2>1
    <2>5. \A u \in Earlier(t) : <<u, t>> \in Conflict => StatusOf(u) = "finished"
        BY <1>4, <2>1
    <2> QED BY <1>1, <2>1, <2>3, <2>4, <2>5, TopStarts
<1>5. ASSUME NEW t \in Tops, EngineLeaves(t), chain[1] = "DuctTeip"
      PROVE  Abstract!Next \/ UNCHANGED Abstract!vars
    <2>1. /\ run[t] = AtWork /\ run'[t] = "over" /\ UNCHANGED stage
          /\ \A u \in Tops \ {t} : run'[u] = run[u]
          /\ AtWork \notin {"idle", "over"}
        BY <1>1, <1>5 DEF EngineLeaves, AtWork
    <2>2. CASE Len(chain) = 3
        <3>1. \A u \in Tops : StatusOf(u)' = StatusOf(u)
            BY <1>1, <1>5, <2>1, <2>2 DEF EngineLeaves
        <3>2. Handed' = Handed
            BY <2>1 DEF Handed
        <3> QED BY <3>1, <3>2, TopsAlike
    <2>3. CASE Len(chain) # 3
        <3>1. isFinished' = [isFinished EXCEPT ![t] = TRUE]
            BY <1>5, <2>3 DEF EngineLeaves
        <3>2. ~isFinished[t]
            BY <2>1, <2>3 DEF OrderInv, Flags
        <3>3. StatusOf(t) = "running" /\ StatusOf(t)' = "finished"
            BY <1>1, <1>5, <2>1, <3>1, <3>2
        <3>4. \A u \in Tops \ {t} : StatusOf(u)' = StatusOf(u)
            BY <1>1, <2>1, <3>1
        <3> QED BY <2>1, <3>3, <3>4, TopEnds
    <2> QED BY <2>2, <2>3
<1>6. OfSG = (IF chain[1] = "SuperGlue" THEN Tops ELSE IF Len(chain) = 3 THEN Subs ELSE {})
    BY DEF OfSG
<1>7. ASSUME NEW t \in OfSG, WorkerTakes(t)
      PROVE  Abstract!Next \/ UNCHANGED Abstract!vars
    <2>1. /\ run[t] = "idle" /\ run' = [run EXCEPT ![t] = "kernel"]
          /\ UNCHANGED <<stage, isFinished, waits>>
          /\ stage[t] \in {"mapped", "returned"}
          /\ \A u \in waits[t] : run[u] = "over"
        BY <1>7 DEF WorkerTakes
    <2>2. CASE t \in Tops
        <3>1. chain[1] = "SuperGlue" /\ OfSG = Tops
            BY <1>1, <1>6, <2>2
        <3>2. StatusOf(t) = "waiting" /\ StatusOf(t)' = "running"
            BY <1>1, <2>1, <2>2, <3>1
        <3>3. \A u \in Tops \ {t} : StatusOf(u)' = StatusOf(u)
            BY <1>1, <2>1
        <3>4. \A u \in Earlier(t) : <<u, t>> \in Conflict => run[u] = "over"
          <4>1. ASSUME NEW u \in Earlier(t), <<u, t>> \in Conflict
                PROVE  Before(u, t) /\ Ordered(u, t) /\ u \in OfSG
            <5>1. u \in Tops /\ Before(u, t)
                BY <2>2, <4>1, BeforeFacts, EarlierFacts
            <5> QED BY <2>2, <3>1, <4>1, <5>1, TaskFacts DEF Kept, Ordered
          <4> QED BY <2>1, <3>1, <4>1 DEF OrderInv, Covered
        <3>5. \A u \in Earlier(t) : <<u, t>> \in Conflict => StatusOf(u) = "finished"
            BY <3>1, <3>4
        <3> QED BY <1>1, <2>1, <2>2, <3>2, <3>3, <3>5, TopStarts
    <2>3. CASE t \notin Tops
        <3>1. \A u \in Tops : StatusOf(u)' = StatusOf(u)
            BY <1>1, <2>1, <2>3
        <3>2. Handed' = Handed
            BY <2>1 DEF Handed
        <3> QED BY <3>1, <3>2, TopsAlike
    <2> QED BY <2>2, <2>3
<1>8. ASSUME NEW t \in OfSG, WorkerGoesOn(t)
      PROVE  Abstract!Next \/ UNCHANGED Abstract!vars
    <2>1. PICK s \in {"count", "stored", "release", "over"} :
              /\ run[t] = "over" => s = "over"
              /\ run' = [run EXCEPT ![t] = s]
        BY <1>8 DEF WorkerGoesOn
    <2>2. run[t] \notin {"idle", "operation"} /\ UNCHANGED stage /\ Handed' = Handed
        BY <1>8 DEF WorkerGoesOn, Handed
    <2>3. CASE t \in Tops
        <3>1. chain[1] = "SuperGlue"
            BY <1>1, <1>6, <2>3
        <3>2. \A u \in Tops \ {t} : StatusOf(u)' = StatusOf(u)
            BY <1>1, <2>1, <3>1
        <3>3. CASE run[t] # "over" /\ s = "over"
            <4>1. StatusOf(t) = "running" /\ StatusOf(t)' = "finished"
                BY <1>1, <2>1, <2>2, <2>3, <3>1, <3>3
            <4> QED BY <2>2, <2>3, <3>2, <4>1, TopEnds
        <3>4. CASE ~(run[t] # "over" /\ s = "over")
            <4>1. StatusOf(t)' = StatusOf(t)
                BY <1>1, <2>1, <2>2, <2>3, <3>1, <3>4
            <4> QED BY <2>2, <3>2, <4>1, TopsAlike
        <3> QED BY <3>3, <3>4
    <2>4. CASE t \in Subs
        <3> DEFINE p == Parent(t)
        <3>1. chain[1] = "DuctTeip" /\ p \in Tops
            BY <1>1, <1>6, <2>4, ChainFacts
        <3>2. \A u \in Tops : run'[u] = run[u]
            BY <1>1, <2>1, <2>4
        <3>3. CASE UNCHANGED isFinished
            <4>1. \A u \in Tops : StatusOf(u)' = StatusOf(u)
                BY <1>1, <3>2, <3>3
            <4> QED BY <2>2, <4>1, TopsAlike
        <3>4. CASE isFinished' = [isFinished EXCEPT ![p] = TRUE]
            <4>1. \A u \in Tops \ {p} : StatusOf(u)' = StatusOf(u)
                BY <1>1, <3>2, <3>4
            <4>2. StatusOf(p)' = "finished"
                BY <1>1, <3>1, <3>4
            <4>3. run[p] # "idle"
                BY <1>1, <2>2, <2>4 DEF OrderInv, Accepted, Submission
            <4>4. StatusOf(p) \in {"running", "finished"}
                BY <4>3
            <4>5. CASE StatusOf(p) = "running"
                BY <2>2, <3>1, <4>1, <4>2, <4>5, TopEnds
            <4>6. CASE StatusOf(p) = "finished"
                BY <2>2, <4>1, <4>2, <4>6, TopsAlike
            <4> QED BY <4>4, <4>5, <4>6
        <3> QED BY <1>8, <3>3, <3>4 DEF WorkerGoesOn
    <2> QED BY <1>6, <2>3, <2>4
<1>9. ASSUME NEW t \in Tops, MainRuns(t), chain[1] = "main"
      PROVE  Abstract!Next
    <2>1. /\ run[t] # "over" /\ stage[t] = "returned" /\ UNCHANGED stage
          /\ run'[t] = IF run[t] = "idle" THEN "kernel" ELSE "over"
          /\ \A u \in Tops \ {t} : run'[u] = run[u]
        BY <1>1, <1>9 DEF MainRuns
    <2>2. \A u \in Tops \ {t} : StatusOf(u)' = StatusOf(u)
        BY <1>1, <1>9, <2>1
    <2>3. CASE run[t] = "idle"
        <3>1. StatusOf(t) = "waiting" /\ StatusOf(t)' = "running"
            BY <1>1, <1>9, <2>1, <2>3
        <3>2. \A u \in Earlier(t) : StatusOf(u) = "finished"
            BY <1>9, <2>1 DEF OrderInv, OneByOne
        <3> QED BY <1>1, <2>1, <2>2, <3>1, <3>2, TopStarts
    <2>4. CASE run[t] # "idle"
        <3>1. StatusOf(t) = "running" /\ StatusOf(t)' = "finished"
            BY <1>1, <1>9, <2>1, <2>4
        <3> QED BY <2>1, <2>2, <3>1, TopEnds
    <2> QED BY <2>3, <2>4
<1>10. ASSUME Ends
       PROVE  UNCHANGED Abstract!vars
    <2>1. \A u \in Tops : StatusOf(u)' = StatusOf(u)
        BY <1>1, <1>10 DEF Ends
    <2>2. Handed' = Handed
        BY <1>10 DEF Ends, Handed
    <2> QED BY <2>1, <2>2, TopsAlike
<1> QED BY <1>2, <1>3, <1>4, <1>5, <1>7, <1>8, <1>9, <1>10 DEF Effect

\* The chain, whichever it is, is the scheduler TaskOrder promises: if the declared
\* conflicts are registered, no task of the program starts before an earlier one it
\* conflicts with is finished.
THEOREM ChainRefinement == AllSpec => ImplementsTaskOrder
<1>1. AllInit => Abstract!Init
    <2> SUFFICES ASSUME AllInit PROVE Abstract!Init
        OBVIOUS
    <2>1. /\ stage = [t \in Tasks |-> "none"] /\ run = [t \in Tasks |-> "idle"]
          /\ isFinished = [t \in Tops |-> FALSE]
          /\ Tops \subseteq Tasks
        BY DEF AllInit, Init, InitOf, Tasks
    <2>2. Handed = {}
        BY <2>1 DEF Handed
    <2>3. Cardinality(Handed) = 0
        BY <2>2, FS_EmptySet
    <2>4. Status = [p \in 1..NTop |-> "waiting"]
        BY <2>1, StatusFacts DEF Status, StatusOf
    <2> QED BY <2>3, <2>4 DEF Abstract!Init, Abstract!Tasks, Handed, Status
<1>2. HandInv /\ [AllNext]_allVars => [Kept => Abstract!Next]_(Abstract!vars)
    <2> SUFFICES ASSUME HandInv, [AllNext]_allVars, Kept
                 PROVE  Abstract!Next \/ UNCHANGED Abstract!vars
        OBVIOUS
    <2>1. CASE UNCHANGED allVars
        <3>1. Handed' = Handed /\ \A u \in Tops : StatusOf(u)' = StatusOf(u)
            BY <2>1 DEF allVars, vars, Handed, StatusOf
        <3> QED BY <3>1, TopsAlike
    <2>2. CASE AllNext /\ prog = "exited"
        BY <2>1, <2>2, ExitedStays DEF HandInv, Started
    <2>3. CASE AllNext /\ prog # "exited"
        BY <2>1, <2>3, StepEffect, EffectMaps DEF HandInv, Started
    <2> QED BY <2>1, <2>2, <2>3
<1> QED BY <1>1, <1>2, HandInductive, PTL DEF AllSpec, ImplementsTaskOrder

===============================================================================
