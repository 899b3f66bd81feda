----------------------------- MODULE MessageQueue -----------------------------
(***************************************************************************)
(* Two processes of the dynamic variant joined by a message broker         *)
(* (mq_scheduler).  MQWrapper is the first scheduler of both, so that each *)
(* constructor of a GData or a GPartitioner, each set_next and each        *)
(* set_partition is broadcast to it and published to the other process;    *)
(* the thread of the io_service applies what arrives by calling the same   *)
(* constructors and methods again.  Objects are named on the wire by their *)
(* keys: their positions in all_data and part_list of the sender.  A       *)
(* message is a row of integers without names; the reader finds a field by *)
(* its place.                                                              *)
(*                                                                         *)
(* The broker keeps the order of each queue and loses nothing.  Tasks are  *)
(* left out (see the README).                                              *)
(***************************************************************************)
EXTENDS Integers, Sequences, FiniteSets

CONSTANTS
    Program,       \* the calls of the application's main thread, in order; it
                   \* names the objects it has made by their order
    MaxObjects     \* bound on the length of all_data and of part_list

Sides == {"app", "server"}

\* Each process sends to the queue the other one consumes.
Peer(s) == IF s = "app" THEN "server" ELSE "app"

None == -1

\* What a program of the repository does before it submits tasks.
Positive == Nat \ {0}
ProgramCalls ==
    [call : {"data"}, args : {None} \X {0}]
    \cup [call : {"partitioner"}, args : Positive \X Positive \X {None}]
    \cup [call : {"P.set_next", "A.set_partition"}, args : Positive \X Positive]

ASSUME ProgramAssumption == Program \in Seq(ProgramCalls)

\* The server's main thread only waits in utp_finalize.
Main == <<"app", "main">>
Threads == {Main, <<"app", "io">>, <<"server", "io">>}

VARIABLES
    all_data,      \* all_data[s]: the data of process s
    part_list,     \* part_list[s]: its partitioners
    queue,         \* queue[s]: the messages on their way to s
    todo,          \* todo[t]: the calls thread t is still to make
    mine,          \* the keys of the data and partitioners the program has made
    failed         \* the processes that have stopped at an assertion or a null

vars == <<all_data, part_list, queue, todo, mine, failed>>

Init ==
    /\ all_data = [s \in Sides |-> <<>>]
    /\ part_list = [s \in Sides |-> <<>>]
    /\ queue = [s \in Sides |-> <<>>]
    /\ todo = [t \in Threads |-> IF t = Main THEN Program ELSE <<>>]
    /\ mine = [data |-> <<>>, part |-> <<>>]
    /\ failed = {}
-------------------------------------------------------------------------------
(* Keys: a key k is the (k+1)th entry of its list. *)

NewKey(list) == Len(list)
Known(list, k) == 0 <= k /\ k < Len(list)
At(list, k) == list[k + 1]
Found(list, k) == IF Known(list, k) THEN k ELSE None

Call(f, args) == [call |-> f, args |-> args]

\* The dispatcher calls back the schedulers of its chain; those after MQWrapper
\* are not part of the model.
Broadcast(callback, args) == Call(callback, args)

\* The program keeps a pointer to what it makes.
Keep(t, kind, k) ==
    mine' = IF t = Main THEN [mine EXCEPT ![kind] = Append(@, k)] ELSE mine

\* The call thread t is in returns, after the calls it makes itself.
Then(t, calls) == todo' = [todo EXCEPT ![t] = calls \o Tail(@)]
-------------------------------------------------------------------------------
(* The layout of a message: `val` is what is on the wire, `what` only says what *)
(* has been written there.  The sizes of the matrices are left out.             *)

Field(what, val) == <<[what |-> what, val |-> val]>>

\* x is written before y.
SerializePartitioner(list, p, what) ==
    Field(what, p) \o Field("x", At(list, p).x) \o Field("y", At(list, p).y)
    \o Field("next", At(list, p).next)

\* Fault: the level is not written.
SerializeDataShort(datum, list, k) ==
    Field("key", k) \o Field("M", 0) \o Field("N", 0) \o Field("child_idx", datum.child_idx)
    \o Field("child_cnt", Len(datum.children)) \o Field("parent", datum.parent)
    \o (IF datum.partitioner = None THEN Field("partitioner", None)
        ELSE SerializePartitioner(list, datum.partitioner, "partitioner"))
    \o Field("name", 0)

\* DATA_NAME_COPY is the size of five integers: the name is at the end.
SerializeData(datum, list, k) ==
    Field("key", k) \o Field("M", 0) \o Field("N", 0) \o Field("child_idx", datum.child_idx)
    \o Field("child_cnt", Len(datum.children)) \o Field("level", 0)
    \o Field("parent", datum.parent)
    \o (IF datum.partitioner = None THEN Field("partitioner", None)
        ELSE SerializePartitioner(list, datum.partitioner, "partitioner"))
    \o Field("name", 0)

\* paste: the integer at an offset.
Paste(body, ofs) == body[ofs + 1].val
-------------------------------------------------------------------------------
(* The callbacks of MQWrapper put one message each. *)

\* Fault: a message overtakes those before it.
PutInFront(s, tag, body) ==
    queue' = [queue EXCEPT ![Peer(s)] = <<[tag |-> tag, body |-> body]>> \o @]

\* send_buffer publishes on the channel, which is open by then.
Publish(s, m) == queue' = [queue EXCEPT ![Peer(s)] = Append(@, m)]

Put(s, tag, body) == Publish(s, [tag |-> tag, body |-> body])

\* GData(M, N, name, parent, idx): the datum joins all_data, then the
\* dispatcher broadcasts it.  set_partition also puts it among the children, in
\* the array that is there by then.
NewData(t, s, parent, idx, isChild) ==
    LET k == NewKey(all_data[s])
        list == Append(all_data[s],
                       [parent |-> parent, child_idx |-> idx, partitioner |-> None,
                        children |-> <<>>])
    IN
    /\ all_data' = [all_data EXCEPT ![s] =
                      IF isChild
                      THEN [list EXCEPT ![parent + 1].children = [@ EXCEPT ![idx + 1] = k]]
                      ELSE list]
    /\ Then(t, <<Broadcast("data_created", <<k>>)>>)
    /\ IF isChild THEN UNCHANGED mine ELSE Keep(t, "data", k)
    /\ UNCHANGED <<part_list, queue, failed>>

DataCreated(t, s, k) ==
    /\ Put(s, "DATA_CREATED", SerializeData(At(all_data[s], k), part_list[s], k))
    /\ Then(t, <<>>)
    /\ UNCHANGED <<all_data, part_list, mine, failed>>

\* GPartitioner(y, x); the key is what CreatePartition compares with.
NewPartitioner(t, s, y, x, expected) ==
    LET k == NewKey(part_list[s]) IN
    /\ part_list' = [part_list EXCEPT ![s] = Append(@, [y |-> y, x |-> x, next |-> None])]
    /\ Then(t, <<Broadcast("partition_defined", <<k>>), Call("assert_key", <<expected, k>>)>>)
    /\ Keep(t, "part", k)
    /\ UNCHANGED <<all_data, queue, failed>>

PartitionDefined(t, s, k) ==
    /\ Put(s, "PARTITION_CREATED", SerializePartitioner(part_list[s], k, "key"))
    /\ Then(t, <<>>)
    /\ UNCHANGED <<all_data, part_list, mine, failed>>

\* assert(k == p->get_key()) at the end of CreatePartition.
AssertKey(t, s, expected, k) ==
    /\ IF expected \in {None, k}
       THEN Then(t, <<>>) /\ UNCHANGED failed
       ELSE /\ failed' = failed \cup {s}
            /\ UNCHANGED todo
    /\ UNCHANGED <<all_data, part_list, queue, mine>>

\* set_next links the partitioners; the dispatcher tells its schedulers of both.
SetNext(t, s, p, q) ==
    /\ part_list' = [part_list EXCEPT ![s][p + 1].next = q]
    /\ Then(t, <<Broadcast("partition_cascaded", <<p, q>>)>>)
    /\ UNCHANGED <<all_data, queue, mine, failed>>

\* Only the first of the two is written: the other one goes as its next.
PartitionCascaded(t, s, p) ==
    /\ Put(s, "PARTITION_CASCADED", SerializePartitioner(part_list[s], p, "key"))
    /\ Then(t, <<>>)
    /\ UNCHANGED <<all_data, part_list, mine, failed>>

\* set_partition: y * x children, then the broadcast, then the next
\* partitioner for every child.  It is called on a child that is not there when
\* the other thread has cut the parent again; the process stops.
SetPartition(t, s, d, p) ==
    LET P == At(part_list[s], p)
        births == [i \in 1..(P.y * P.x) |-> Call("child", <<d, i - 1>>)]
    IN
    IF ~Known(all_data[s], d)
    THEN failed' = failed \cup {s} /\ UNCHANGED <<all_data, part_list, queue, todo, mine>>
    ELSE
    /\ all_data' = [all_data EXCEPT ![s][d + 1].partitioner = p,
                                    ![s][d + 1].children = [i \in 1..(P.y * P.x) |-> None]]
    /\ Then(t, births \o <<Broadcast("data_partitioned", <<d>>)>>)
    /\ UNCHANGED <<part_list, queue, mine, failed>>

DataPartitioned(t, s, d) ==
    LET datum == At(all_data[s], d)
        q == At(part_list[s], datum.partitioner).next
        rest == IF q = None THEN <<>>
                ELSE [i \in DOMAIN datum.children |->
                        Call("set_partition", <<datum.children[i], q>>)]
    IN
    /\ Put(s, "DATA_PARTITIONED", SerializeData(datum, part_list[s], d))
    /\ Then(t, rest)
    /\ UNCHANGED <<all_data, part_list, mine, failed>>

\* The next call of thread t of process s.
Step(t) ==
    LET s == t[1]
        a == Head(todo[t]).args
        Is(f) == Head(todo[t]).call = f
    IN
    /\ s \notin failed
    /\ todo[t] # <<>>
    /\ \/ Is("data") /\ Len(all_data[s]) < MaxObjects /\ NewData(t, s, a[1], a[2], FALSE)
       \/ Is("child") /\ Len(all_data[s]) < MaxObjects /\ NewData(t, s, a[1], a[2], TRUE)
       \/ Is("data_created") /\ DataCreated(t, s, a[1])
       \/ Is("partitioner") /\ Len(part_list[s]) < MaxObjects
                            /\ NewPartitioner(t, s, a[1], a[2], a[3])
       \/ Is("partition_defined") /\ PartitionDefined(t, s, a[1])
       \/ Is("assert_key") /\ AssertKey(t, s, a[1], a[2])
       \/ Is("set_next") /\ SetNext(t, s, a[1], a[2])
       \/ Is("P.set_next") /\ a[1] \in DOMAIN mine.part /\ a[2] \in DOMAIN mine.part
                           /\ SetNext(t, s, mine.part[a[1]], mine.part[a[2]])
       \/ Is("partition_cascaded") /\ PartitionCascaded(t, s, a[1])
       \/ Is("set_partition") /\ SetPartition(t, s, a[1], a[2])
       \/ Is("A.set_partition") /\ a[1] \in DOMAIN mine.data /\ a[2] \in DOMAIN mine.part
                                /\ SetPartition(t, s, mine.data[a[1]], mine.part[a[2]])
       \/ Is("data_partitioned") /\ DataPartitioned(t, s, a[1])
-------------------------------------------------------------------------------
(* run_rpc: what a message makes the receiver do. *)

\* Where run_rpc looks for the keys a message names: CreateData reads the fields
\* one after the other, the handler of DATA_PARTITIONED skips six of them after
\* the key and that of PARTITION_CASCADED two.
ParentAt == 6
PartitionerAt == 1 + 6
NextAt == 1 + 2

\* The receiver has what the keys of a message name; None names nothing.
Resolves(s, m) ==
    LET b == m.body
        key == Paste(b, 0)
    IN
    CASE m.tag = "DATA_CREATED" ->
            Paste(b, ParentAt) = None \/ Known(all_data[s], Paste(b, ParentAt))
      [] m.tag = "PARTITION_CREATED" -> TRUE
      [] m.tag = "PARTITION_CASCADED" ->
            /\ Known(part_list[s], key)
            /\ Paste(b, NextAt) = None \/ Known(part_list[s], Paste(b, NextAt))
      [] m.tag = "DATA_PARTITIONED" ->
            Known(all_data[s], key) /\ Known(part_list[s], Paste(b, PartitionerAt))

\* An unknown key is read as null.  CreateData reads past all_data, a method is
\* called on null, or set_partition asserts that its partitioner is not null.
Stops(s, m) ==
    LET b == m.body
        key == Paste(b, 0)
    IN
    CASE m.tag = "DATA_CREATED" -> ~Resolves(s, m)
      [] m.tag = "PARTITION_CREATED" -> FALSE
      [] m.tag = "PARTITION_CASCADED" -> ~Known(part_list[s], key)
      [] m.tag = "DATA_PARTITIONED" ->
            \/ ~Known(all_data[s], key)
            \/ /\ ~Known(part_list[s], Paste(b, PartitionerAt))
               /\ At(all_data[s], key).partitioner # None

\* CreatePartition reads y before x; a datum is partitioned again unless its
\* partitioner is already the one the message names.
CallsOf(s, m) ==
    LET b == m.body
        key == Paste(b, 0)
    IN
    CASE m.tag = "DATA_CREATED" -> <<Call("data", <<Paste(b, ParentAt), Paste(b, 3)>>)>>
      [] m.tag = "PARTITION_CREATED" ->
            <<Call("partitioner", <<Paste(b, 1), Paste(b, 2), key>>)>>
      [] m.tag = "PARTITION_CASCADED" ->
            <<Call("set_next", <<key, Found(part_list[s], Paste(b, NextAt))>>)>>
      [] m.tag = "DATA_PARTITIONED" ->
            LET p == Found(part_list[s], Paste(b, PartitionerAt)) IN
            IF At(all_data[s], key).partitioner = p THEN <<>>
            ELSE <<Call("set_partition", <<key, p>>)>>

\* The io thread receives the next message when it is done with the last.
Receive(s) ==
    LET t == <<s, "io">>
        m == Head(queue[s])
    IN
    /\ s \notin failed
    /\ todo[t] = <<>>
    /\ queue[s] # <<>>
    /\ queue' = [queue EXCEPT ![s] = Tail(@)]
    /\ IF Stops(s, m)
       THEN failed' = failed \cup {s} /\ UNCHANGED todo
       ELSE todo' = [todo EXCEPT ![t] = CallsOf(s, m)] /\ UNCHANGED failed
    /\ UNCHANGED <<all_data, part_list, mine>>

Next ==
    \/ \E t \in Threads : Step(t)
    \/ \E s \in Sides : Receive(s)

Spec == Init /\ [][Next]_vars
-------------------------------------------------------------------------------
(* Properties *)

\* The places run_rpc reads a key at, and what it takes it for.
Reads(tag) ==
    CASE tag = "DATA_CREATED" -> {<<0, "key">>, <<3, "child_idx">>, <<ParentAt, "parent">>}
      [] tag = "PARTITION_CREATED" -> {<<0, "key">>}
      [] tag = "PARTITION_CASCADED" -> {<<0, "key">>, <<NextAt, "next">>}
      [] tag = "DATA_PARTITIONED" -> {<<0, "key">>, <<PartitionerAt, "partitioner">>}

\* What run_rpc takes for a key is that key, whatever state the object was in
\* when it was serialized: the layout of a data changes when it is cut.
ReadsItsFields ==
    \A s \in Sides : \A i \in DOMAIN queue[s] :
        \A f \in Reads(queue[s][i].tag) : queue[s][i].body[f[1] + 1].what = f[2]

KeysResolveAt(s) ==
    queue[s] # <<>> /\ todo[<<s, "io">>] = <<>> => Resolves(s, Head(queue[s]))

\* A message names no key its receiver does not have, although the keys of the
\* two processes drift apart as each of them answers the other's messages, and
\* although the two threads of the application may broadcast their objects in
\* another order than they made them.
KeysResolve == \A s \in Sides : KeysResolveAt(s)

\* A partitioner that a message creates gets the key it has in the process the
\* message comes from: the assertion of CreatePartition never fails.
PartitionKeysAgree ==
    \A t \in Threads :
        todo[t] # <<>> /\ Head(todo[t]).call = "assert_key"
            => Head(todo[t]).args[1] \in {None, Head(todo[t]).args[2]}
-------------------------------------------------------------------------------
(* The programs whose keys the server resolves *)

MadeBy(n) == Cardinality({h \in 1..n : Program[h].call = "data"})
IsCut(h) == Program[h].call = "A.set_partition"

\* The datum that is cut first is the first one made, or another one has been made
\* after it.
FirstCutEarly ==
    \A i \in DOMAIN Program :
        IsCut(i) /\ (\A h \in 1..(i - 1) : ~IsCut(h))
            => Program[i].args[1] = 1 \/ Program[i].args[1] < MadeBy(i - 1)
===============================================================================
