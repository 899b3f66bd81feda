------------------------------ MODULE MemoryPool ------------------------------
(***************************************************************************)
(* MemoryManager (mem_manager.cpp; the dynamically bound variant has the   *)
(* same in memory_manager.cpp): the pool of memory items of one size that  *)
(* the framework keeps for the data it allocates itself.                   *)
(*                                                                         *)
(* An item is the place it has in memory_list, which is also its key plus  *)
(* one.  A user asks for one item at a time and frees it when it is done;  *)
(* no user frees what it does not hold.                                    *)
(***************************************************************************)
EXTENDS Integers, FiniteSets

CONSTANTS
    Users,         \* those that may hold an item
    ElemCounts     \* the arguments elem_count the pool may be built with

ASSUME MemoryPoolAssumption ==
    /\ IsFiniteSet(Users)
    /\ ElemCounts \subseteq Nat

VARIABLES
    elem_count,    \* what the pool was built with
    size,          \* memory_list.size()
    state,         \* state[i]: the state of the i-th item
    held,          \* held[u]: the item user u holds, 0 for none
    peak,          \* the most items that have been held at once
    crashed        \* a null item has been dereferenced

vars == <<elem_count, size, state, held, peak, crashed>>

Holding == {u \in Users : held[u] # 0}

TypeOK ==
    /\ elem_count \in ElemCounts
    /\ size \in Nat
    /\ state \in [1..size -> {"Ready", "InUse"}]
    /\ held \in [Users -> 0..size]
    /\ peak \in Nat
    /\ crashed \in BOOLEAN
-------------------------------------------------------------------------------
\* Fault: the loop's m is the one that is returned, the last item when none is free.
findFreeMemoryOrLast(s, n) ==
    LET free == {i \in 1..n : s[i] # "InUse"}
    IN IF free = {} THEN n ELSE CHOOSE i \in free : \A j \in free : i <= j

\* findFreeMemory: the first item that is not in use, 0 for the null pointer.
findFreeMemory(s, n) ==
    LET free == {i \in 1..n : s[i] # "InUse"}
    IN IF free = {} THEN 0 ELSE CHOOSE i \in free : \A j \in free : i <= j

\* Fault: the pool doubles.
ExpandedSizeDoubled(n, count) == IF n = 0 THEN count ELSE n + n + 1

\* Fault: an odd pool is rounded up, and a pool of one does not grow.
ExpandedSizeRounded(n, count) == IF n = 0 THEN count ELSE n + n \div 2

\* The size expandMemoryItems(count) leaves: half as much again and one more.
ExpandedSize(n, count) == IF n = 0 THEN count ELSE n + n \div 2 + 1

\* Fault: one item too few is appended.
ExpandedStateShort(s, n, new) == [i \in 1..(new - 1) |-> IF i <= n THEN s[i] ELSE "Ready"]

\* The new items are ready.
ExpandedState(s, n, new) == [i \in 1..new |-> IF i <= n THEN s[i] ELSE "Ready"]

Init ==
    /\ elem_count \in ElemCounts
    /\ size = ExpandedSize(0, elem_count)
    /\ state = ExpandedState(<<>>, 0, size)
    /\ held = [u \in Users |-> 0]
    /\ peak = 0
    /\ crashed = FALSE

\* The item is marked and handed out.
Take(u, i, s) ==
    /\ state' = [s EXCEPT ![i] = "InUse"]
    /\ held' = [held EXCEPT ![u] = i]
    /\ peak' = IF Cardinality(Holding) < peak THEN peak ELSE Cardinality(Holding) + 1
    /\ UNCHANGED <<elem_count, crashed>>

\* getNewMemory when the first search finds an item.
GetFree(u) ==
    LET i == findFreeMemory(state, size) IN
    /\ ~crashed
    /\ held[u] = 0
    /\ i # 0
    /\ Take(u, i, state)
    /\ UNCHANGED size

\* getNewMemory when it does not: expandMemoryItems() with its default n = 0,
\* and a second search whose result is used unchecked.
GetExpanding(u) ==
    LET new == ExpandedSize(size, 0)
        s == ExpandedState(state, size, new)
        i == findFreeMemory(s, new)
    IN
    /\ ~crashed
    /\ held[u] = 0
    /\ findFreeMemory(state, size) = 0
    /\ size' = new
    /\ IF i # 0
       THEN Take(u, i, s)
       ELSE /\ crashed' = TRUE
            /\ state' = s
            /\ UNCHANGED <<elem_count, held, peak>>

\* Fault: the item stays in use.
FreeInUse(u) ==
    /\ ~crashed
    /\ held[u] # 0
    /\ held' = [held EXCEPT ![u] = 0]
    /\ UNCHANGED <<elem_count, size, state, peak, crashed>>

\* freeMemoryItem
Free(u) ==
    /\ ~crashed
    /\ held[u] # 0
    /\ state' = [state EXCEPT ![held[u]] = "Ready"]
    /\ held' = [held EXCEPT ![u] = 0]
    /\ UNCHANGED <<elem_count, size, peak, crashed>>

Next == \E u \in Users : GetFree(u) \/ GetExpanding(u) \/ Free(u)

Spec == Init /\ [][Next]_vars
-------------------------------------------------------------------------------
(* Properties *)

\* An item belongs to one user at a time: what getNewMemory returns is held by
\* nobody else, and stays in use until its user frees it.
OneUser ==
    /\ \A u \in Holding : state[held[u]] = "InUse"
    /\ \A u, v \in Holding : held[u] = held[v] => u = v

\* Nothing leaks: an item that is in use is somebody's.
NoLeak == \A i \in 1..size : state[i] = "InUse" => \E u \in Users : held[u] = i

\* getNewMemory finds no item, and dereferences the null pointer, only in a
\* pool that was built with no items: the search after the expansion cannot
\* fail in any other.
OnlyEmptyPoolFails == crashed => elem_count = 0

\* The pool grows when every item is held, and then by half: it is never more
\* than half as large again as the number of items that were needed at once.
GrowsOnDemand == size > elem_count => 2 * size <= 3 * peak
===============================================================================
