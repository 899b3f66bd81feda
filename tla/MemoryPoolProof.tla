--------------------------- MODULE MemoryPoolProof ---------------------------
(***************************************************************************)
(* Proofs about MemoryPool, for any finite set of users and any pool size. *)
(*                                                                         *)
(* The pool's items and its users agree on what is held (Agree); that is   *)
(* preserved because an item handed out was not in use, and it bounds the  *)
(* growth: a pool that grows has as many users as items.                   *)
(***************************************************************************)
EXTENDS MemoryPool, FiniteSetTheorems, WellFoundedInduction, TLAPS

\* A set of natural numbers that is not empty has a least element.
LEMMA LeastOf ==
    ASSUME NEW S \in SUBSET Nat, S # {}
    PROVE  \E i \in S : \A j \in S : i <= j
<1>1. \E i \in S : \A j \in S : ~ <<j, i>> \in OpToRel(<, Nat)
    BY NatLessThanWellFounded, WFMin
<1>2. \A i, j \in S : ~ <<j, i>> \in OpToRel(<, Nat) => i <= j
    BY DEF OpToRel
<1> QED BY <1>1, <1>2

\* What a search returns: an item that is not in use, or 0 when all are.
LEMMA Found ==
    ASSUME NEW n \in Nat, NEW s \in [1..n -> {"Ready", "InUse"}]
    PROVE  LET i == findFreeMemory(s, n) IN
           \/ i = 0 /\ \A j \in 1..n : s[j] = "InUse"
           \/ i \in 1..n /\ s[i] = "Ready"
<1> DEFINE free == {i \in 1..n : s[i] # "InUse"}
<1>1. CASE free = {}
    BY <1>1 DEF findFreeMemory
<1>2. CASE free # {}
  <2>1. \E i \in free : \A j \in free : i <= j
    <3>1. free \in SUBSET Nat
        OBVIOUS
    <3> HIDE DEF free
    <3> QED BY <1>2, <3>1, LeastOf
  <2>2. findFreeMemory(s, n) \in free
      BY <1>2, <2>1 DEF findFreeMemory
  <2> QED BY <2>2
<1> QED BY <1>1, <1>2

\* What an expansion leaves: the items there were, and ready ones after them.
LEMMA Expanded ==
    ASSUME NEW n \in Nat, NEW count \in Nat
    PROVE  /\ ExpandedSize(n, count) \in Nat
           /\ n = 0 => ExpandedSize(n, count) = count
           /\ n # 0 => n < ExpandedSize(n, count) /\ 2 * ExpandedSize(n, count) <= 3 * n + 2
<1>1. n # 0 => n \div 2 \in Nat /\ 2 * (n \div 2) <= n
    OBVIOUS
<1> QED BY <1>1 DEF ExpandedSize

\* An expansion keeps the state of the old items; the new ones are ready.
LEMMA ExpandedItems ==
    ASSUME NEW n \in Nat, NEW s \in [1..n -> {"Ready", "InUse"}],
           NEW new \in Nat, n <= new
    PROVE  /\ ExpandedState(s, n, new) \in [1..new -> {"Ready", "InUse"}]
           /\ \A i \in 1..n : ExpandedState(s, n, new)[i] = s[i]
           /\ \A i \in 1..new : i > n => ExpandedState(s, n, new)[i] = "Ready"
BY DEF ExpandedState
-------------------------------------------------------------------------------
\* The items and the users agree, and so do the numbers of both.
Agree ==
    /\ TypeOK
    /\ OneUser
    /\ NoLeak
    /\ Cardinality(Holding) <= peak

IndInv ==
    /\ Agree
    /\ elem_count <= size
    /\ size = 0 => elem_count = 0
    /\ OnlyEmptyPoolFails
    /\ GrowsOnDemand

\* The users that hold an item are finitely many.
LEMMA HoldingFinite == IsFiniteSet(Holding) /\ Cardinality(Holding) \in Nat
<1>1. Holding \in SUBSET Users
    BY DEF Holding
<1> QED BY <1>1, MemoryPoolAssumption, FS_Subset, FS_CardinalityType

\* The pool starts with what it was built with, and nobody holds anything.
LEMMA IndInit == Init => IndInv
<1> SUFFICES ASSUME Init PROVE IndInv
    OBVIOUS
<1>1. elem_count \in Nat /\ elem_count \in ElemCounts
    BY MemoryPoolAssumption DEF Init
<1>2. size = elem_count /\ state = [i \in 1..size |-> "Ready"]
    BY <1>1 DEF Init, ExpandedSize, ExpandedState
<1>3. Holding = {}
    BY DEF Init, Holding
<1>4. Cardinality(Holding) = 0
    BY <1>3, FS_EmptySet
<1>5. TypeOK
  <2>1. held \in [Users -> 0..size] /\ peak \in Nat
      BY <1>1, <1>2 DEF Init
  <2>3. crashed \in BOOLEAN
      BY DEF Init
  <2>2. state \in [1..size -> {"Ready", "InUse"}]
      BY <1>2
  <2> QED BY <1>1, <1>2, <2>1, <2>2, <2>3 DEF TypeOK
<1>6. OneUser /\ NoLeak
    BY <1>2, <1>3 DEF OneUser, NoLeak
<1>7. OnlyEmptyPoolFails /\ GrowsOnDemand
    BY <1>1, <1>2 DEF Init, OnlyEmptyPoolFails, GrowsOnDemand
<1> QED BY <1>1, <1>2, <1>4, <1>5, <1>6, <1>7 DEF Init, IndInv, Agree

\* Handing out item i of the state s, which is not in use, to a user that
\* holds none keeps the agreement of items and users.
LEMMA TakeAgrees ==
    ASSUME Agree, NEW u \in Users, held[u] = 0, size' \in Nat, size <= size',
           NEW s \in [1..size' -> {"Ready", "InUse"}],
           \A i \in 1..size : s[i] = state[i],
           \A i \in 1..size' : i > size => s[i] = "Ready",
           NEW i \in 1..size', s[i] = "Ready",
           Take(u, i, s)
    PROVE  /\ Agree'
           /\ peak' >= peak
           /\ Cardinality(Holding) + 1 <= peak'
<1> USE DEF Take, Agree, TypeOK
<1>1. Holding' = Holding \cup {u} /\ u \notin Holding
    BY DEF Holding
<1>2. Cardinality(Holding') = Cardinality(Holding) + 1
    BY <1>1, HoldingFinite, FS_AddElement
<1>3. /\ peak' \in Nat
      /\ peak' >= peak
      /\ Cardinality(Holding) + 1 <= peak'
    BY HoldingFinite
<1>4. TypeOK'
    BY <1>3
<1>5. \A v \in Users : held'[v] = IF v = u THEN i ELSE held[v]
    OBVIOUS
<1>6. \A j \in 1..size' : state'[j] = IF j = i THEN "InUse" ELSE s[j]
    OBVIOUS
<1>7. \A v \in Users : held[v] # 0 => held[v] # i
    BY DEF OneUser, Holding
<1>8. OneUser'
    BY <1>1, <1>5, <1>6, <1>7 DEF OneUser, Holding
<1>9. NoLeak'
    BY <1>5, <1>6, <1>7 DEF NoLeak
<1> QED BY <1>2, <1>3, <1>4, <1>8, <1>9

\* When every item is in use there are at least as many users as items.
LEMMA AllHeld ==
    ASSUME Agree, \A i \in 1..size : state[i] = "InUse"
    PROVE  size <= Cardinality(Holding)
<1> DEFINE f == [u \in Holding |-> held[u]]
<1>1. f \in Surjection(Holding, 1..size)
  <2>1. f \in [Holding -> 1..size]
      BY DEF Agree, TypeOK, Holding
  <2>2. \A i \in 1..size : \E u \in Holding : f[u] = i
      BY DEF Agree, NoLeak, Holding, TypeOK
  <2> QED BY <2>1, <2>2 DEF Surjection, Range
<1>2. Cardinality(1..size) <= Cardinality(Holding)
    <2> HIDE DEF f
    <2> QED BY <1>1, HoldingFinite, FS_Surjection
<1>3. size \in Nat /\ Cardinality(1..size) = size
    BY FS_Interval DEF Agree, TypeOK
<1> QED BY <1>2, <1>3

\* Every step keeps the invariant.
LEMMA IndStep == IndInv /\ [Next]_vars => IndInv'
<1> SUFFICES ASSUME IndInv, [Next]_vars PROVE IndInv'
    OBVIOUS
<1>0. elem_count \in Nat /\ size \in Nat /\ peak \in Nat
    BY MemoryPoolAssumption DEF IndInv, Agree, TypeOK
<1>1. ASSUME NEW u \in Users, GetFree(u) PROVE IndInv'
  <2>1. findFreeMemory(state, size) \in 1..size
        /\ state[findFreeMemory(state, size)] = "Ready"
      BY <1>1, Found DEF GetFree, IndInv, Agree, TypeOK
  <2>2. /\ Agree'
        /\ peak' >= peak
      BY <1>1, <2>1, TakeAgrees, <1>0 DEF GetFree, IndInv, Agree, TypeOK
  <2>3. size' = size /\ elem_count' = elem_count /\ crashed' = crashed /\ peak' \in Nat
      BY <1>1, <2>2 DEF GetFree, Take, Agree, TypeOK
  <2>4. GrowsOnDemand'
    <3>1. size > elem_count => 2 * size <= 3 * peak
        BY DEF IndInv, GrowsOnDemand
    <3>2. /\ size' = size
          /\ elem_count' = elem_count
          /\ peak' \in Nat
          /\ peak' >= peak
        BY <2>2, <2>3
    <3>3. 2 * size <= 3 * peak => 2 * size <= 3 * peak'
      <4>1. \A n, a, b \in Nat : a <= b /\ 2 * n <= 3 * a => 2 * n <= 3 * b
          OBVIOUS
      <4> QED BY <1>0, <3>2, <4>1
    <3> QED BY <3>1, <3>2, <3>3 DEF GrowsOnDemand
  <2>5. OnlyEmptyPoolFails'
      BY <2>3 DEF IndInv, OnlyEmptyPoolFails
  <2> QED BY <1>0, <2>2, <2>3, <2>4, <2>5 DEF IndInv
<1>2. ASSUME NEW u \in Users, GetExpanding(u) PROVE IndInv'
  <2> DEFINE new == ExpandedSize(size, 0)
             s == ExpandedState(state, size, new)
             i == findFreeMemory(s, new)
  <2>1. \A j \in 1..size : state[j] = "InUse"
      BY <1>2, <1>0, Found DEF GetExpanding, IndInv, Agree, TypeOK
  <2>2. size <= Cardinality(Holding)
      BY <2>1, AllHeld DEF IndInv
  <2>3. /\ new \in Nat
        /\ size = 0 => new = 0
        /\ size # 0 => size < new /\ 2 * new <= 3 * size + 2
        /\ s \in [1..new -> {"Ready", "InUse"}]
        /\ \A j \in 1..size : s[j] = state[j]
        /\ \A j \in 1..new : j > size => s[j] = "Ready"
    <3>1. state \in [1..size -> {"Ready", "InUse"}] /\ 0 \in Nat
        BY DEF IndInv, Agree, TypeOK
    <3>2. /\ new \in Nat
          /\ size = 0 => new = 0
          /\ size # 0 => size < new /\ 2 * new <= 3 * size + 2
        BY <1>0, <3>1, Expanded
    <3> HIDE DEF new
    <3> QED BY <1>0, <3>1, <3>2, ExpandedItems
  <2>4. size' = new /\ held[u] = 0 /\ elem_count' = elem_count
      BY <1>2 DEF GetExpanding, Take
  <2>5. CASE i # 0
    <3>1. Take(u, i, s)
        BY <1>2, <2>5 DEF GetExpanding
    <3>2. i \in 1..new /\ s[i] = "Ready"
      <4> HIDE DEF s, new
      <4> QED BY <2>3, <2>5, Found
    <3>3. /\ Agree'
          /\ peak' >= peak
          /\ Cardinality(Holding) + 1 <= peak'
      <4> HIDE DEF s, new, i
      <4> QED BY <1>0, <2>3, <2>4, <3>1, <3>2, TakeAgrees DEF IndInv
    <3>4. peak' \in Nat /\ crashed' = crashed
        BY <3>1, <3>3 DEF Take, Agree, TypeOK
    <3>5. size # 0
        BY <2>3, <3>2
    <3>6. size + 1 <= peak' /\ 2 * size' <= 3 * size + 2
        BY <1>0, <2>2, <2>3, <2>4, <3>3, <3>4, <3>5, HoldingFinite
    <3> QED BY <1>0, <2>3, <2>4, <3>3, <3>4, <3>5, <3>6
            DEF IndInv, OnlyEmptyPoolFails, GrowsOnDemand
  <2>6. CASE i = 0
    <3>1. /\ crashed' = TRUE
          /\ state' = s
          /\ UNCHANGED <<elem_count, held, peak>>
        BY <1>2, <2>6 DEF GetExpanding
    <3>2. size = 0
      <4>1. \A j \in 1..new : s[j] = "InUse"
        <5> HIDE DEF s, new
        <5> QED BY <2>3, <2>6, Found
      <4> QED BY <1>0, <2>3, <4>1
    <3>3. size' = 0 /\ state' \in [1..0 -> {"Ready", "InUse"}]
        BY <2>3, <2>4, <3>1, <3>2
    <3>4. Holding' = Holding
        BY <3>1 DEF Holding
    <3> QED BY <1>0, <2>4, <3>1, <3>2, <3>3, <3>4
            DEF IndInv, Agree, TypeOK, OneUser, NoLeak, OnlyEmptyPoolFails, GrowsOnDemand
  <2> QED BY <2>5, <2>6
<1>3. ASSUME NEW u \in Users, Free(u) PROVE IndInv'
  <2> USE <1>3 DEF Free, IndInv, Agree, TypeOK
  <2>1. Holding' = Holding \ {u}
      BY DEF Holding
  <2>2. Cardinality(Holding') <= Cardinality(Holding) /\ Cardinality(Holding') \in Nat
      BY <2>1, HoldingFinite, FS_Subset, FS_CardinalityType
  <2>3. Cardinality(Holding') <= peak'
      BY <1>0, <2>2, HoldingFinite
  <2>4. OneUser'
      BY <2>1 DEF OneUser, Holding
  <2>5. NoLeak'
      BY DEF NoLeak, OneUser, Holding
  <2>6. TypeOK'
      OBVIOUS
  <2> QED BY <1>0, <2>3, <2>4, <2>5, <2>6 DEF OnlyEmptyPoolFails, GrowsOnDemand
<1>4. CASE UNCHANGED vars
  <2>1. Holding' = Holding
      BY <1>4 DEF vars, Holding
  <2> QED BY <1>4, <2>1 DEF vars, IndInv, Agree, TypeOK, OneUser, NoLeak, OnlyEmptyPoolFails,
                      GrowsOnDemand, Holding
<1> QED BY <1>1, <1>2, <1>3, <1>4 DEF Next

\* The invariant holds throughout.
LEMMA Invariance == Spec => []IndInv
BY IndInit, IndStep, PTL DEF Spec
-------------------------------------------------------------------------------
\* An item of the pool has one user at a time, in every pool.
THEOREM PoolOneUser == Spec => []OneUser
<1>1. IndInv => OneUser
    BY DEF IndInv, Agree
<1> QED BY <1>1, Invariance, PTL

\* An item that is in use is some user's: what is freed can be handed out again.
THEOREM PoolNoLeak == Spec => []NoLeak
<1>1. IndInv => NoLeak
    BY DEF IndInv, Agree
<1> QED BY <1>1, Invariance, PTL

\* Only a pool that was built empty ever fails to give out an item.
THEOREM PoolFails == Spec => []OnlyEmptyPoolFails
<1>1. IndInv => OnlyEmptyPoolFails
    BY DEF IndInv
<1> QED BY <1>1, Invariance, PTL

\* The pool is never more than half as large again as what was needed at once.
THEOREM PoolGrowth == Spec => []GrowsOnDemand
<1>1. IndInv => GrowsOnDemand
    BY DEF IndInv
<1> QED BY <1>1, Invariance, PTL

\* The variables keep their types.
THEOREM PoolTypes == Spec => []TypeOK
<1>1. IndInv => TypeOK
    BY DEF IndInv, Agree
<1> QED BY <1>1, Invariance, PTL
===============================================================================
