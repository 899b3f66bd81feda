------------------------------ MODULE DTVersions ------------------------------
(***************************************************************************)
(* The data versions with which the DTTask constructor orders the tasks    *)
(* of DuctTeip (sch_ductteip.hpp).                                         *)
(*                                                                         *)
(* Every rank executes the whole program: it constructs a DTTask for every *)
(* task, and every construction moves the rank's own versions of the data  *)
(* the task accesses, but only the host of the data written registers the  *)
(* task with its engine.  The ranks construct the tasks at their own pace. *)
(* Each access carries the version it requires; the engine runs a task     *)
(* when the run-time versions of its data are the required ones.  The      *)
(* run-time versions, and the counting rule of IData::incrementVersion,    *)
(* belong to the DuctTeip library.                                         *)
(*                                                                         *)
(* EdgeDispatch puts these steps under a program and an engine.            *)
(***************************************************************************)
EXTENDS Integers, Sequences, FiniteSets

CONSTANTS
    Ranks,         \* the processes
    Data,          \* the level-1 data, one IData each
    HostOf,        \* HostOf[d]: the rank d lives on
    NTasks,        \* tasks of the program
    Args           \* Args[p]: the accesses of task p, in the order of its args

Tasks == 1..NTasks
In == "In"
InOut == "InOut"

ASSUME DTVersionsAssumption ==
    /\ NTasks \in Nat \ {0}
    /\ HostOf \in [Data -> Ranks]
    /\ Args \in [Tasks -> Seq([data : Data, axs : {In, InOut}])]
    /\ \A p \in Tasks : Args[p] # <<>>

\* No task names the same data twice with one access a write: such a task
\* requires a version that only its own completion would produce.
ASSUME NoAliasAssumption ==
    \A p \in Tasks : \A i, j \in DOMAIN Args[p] :
        i # j /\ Args[p][i].data = Args[p][j].data
            => Args[p][i].axs = In /\ Args[p][j].axs = In

VARIABLES
    built,         \* built[r]: how many tasks rank r has constructed
    readVersion,   \* readVersion[r][d]: rank r's getReadVersion() of d
    writeVersion,  \* the same for getWriteVersion()
    required,      \* required[p]: the versions in p's DataAccess list
    status,        \* what the engine of p's host has done with p
    rtRead,        \* rtRead[d]: the run-time read version of d
    rtWrite        \* rtWrite[d]: the run-time write version of d

vars == <<built, readVersion, writeVersion, required, status, rtRead, rtWrite>>

TypeOK ==
    /\ built \in [Ranks -> 0..NTasks]
    /\ readVersion \in [Ranks -> [Data -> Nat]]
    /\ writeVersion \in [Ranks -> [Data -> Nat]]
    /\ required \in [Tasks -> Seq(Nat)]
    /\ status \in [Tasks -> {"new", "registered", "running", "finished"}]
    /\ rtRead \in [Data -> Nat]
    /\ rtWrite \in [Data -> Nat]

Init ==
    /\ built = [r \in Ranks |-> 0]
    /\ readVersion = [r \in Ranks |-> [d \in Data |-> 0]]
    /\ writeVersion = [r \in Ranks |-> [d \in Data |-> 0]]
    /\ required = [p \in Tasks |-> <<>>]
    /\ status = [p \in Tasks |-> "new"]
    /\ rtRead = [d \in Data |-> 0]
    /\ rtWrite = [d \in Data |-> 0]
-------------------------------------------------------------------------------
\* IData::incrementVersion for the first n accesses of a task: every access
\* advances the read version, a write brings the write version up to it.
Accesses(args, n, d) == {i \in 1..n : args[i].data = d}
Writes(args, n, d) == {i \in Accesses(args, n, d) : args[i].axs = InOut}

ReadAfter(args, n, read, d) == read[d] + Cardinality(Accesses(args, n, d))

\* Fault: a write brings the write version to one less than the read version.
WriteAfterLate(args, n, read, write, d) ==
    LET W == Writes(args, n, d) IN
    IF W = {} THEN write[d] ELSE read[d] - 1

WriteAfter(args, n, read, write, d) ==
    LET W == Writes(args, n, d) IN
    IF W = {} THEN write[d]
    ELSE LET last == CHOOSE i \in W : \A j \in W : j <= i
         IN ReadAfter(args, last, read, d)

\* The data whose host runs the task: the last one written, or the last
\* argument when all are read.
HostData(args) ==
    LET W == {i \in DOMAIN args : args[i].axs = InOut}
        S == IF W # {} THEN W ELSE DOMAIN args
    IN args[CHOOSE i \in S : \A j \in S : j <= i].data

Host(p) == HostOf[HostData(Args[p])]

\* Fault: a write requires the write version, so it does not wait for the reads.
RequiredVersionsOfWrite(args, read, write) ==
    [i \in DOMAIN args |-> WriteAfter(args, i - 1, read, write, args[i].data)]

\* Fault: the version is taken after the access has advanced it.
RequiredVersionsAfter(args, read, write) ==
    [i \in DOMAIN args |->
        IF args[i].axs = In
        THEN WriteAfter(args, i, read, write, args[i].data)
        ELSE ReadAfter(args, i, read, args[i].data)]

\* The loop of the constructor over the arguments: each access requires a
\* version as the accesses before it have left them.
RequiredVersions(args, read, write) ==
    [i \in DOMAIN args |->
        IF args[i].axs = In
        THEN WriteAfter(args, i - 1, read, write, args[i].data)
        ELSE ReadAfter(args, i - 1, read, args[i].data)]

\* Fault: a rank that does not host the task returns before it moves its versions.
NewDTTaskOnHost(r) ==
    LET p == built[r] + 1
        args == Args[p]
        read == readVersion[r]
        write == writeVersion[r]
    IN
    /\ built[r] < NTasks
    /\ built' = [built EXCEPT ![r] = p]
    /\ IF Host(p) = r
       THEN /\ readVersion' = [readVersion EXCEPT ![r] =
                                 [d \in Data |-> ReadAfter(args, Len(args), read, d)]]
            /\ writeVersion' = [writeVersion EXCEPT ![r] =
                                  [d \in Data |->
                                     WriteAfter(args, Len(args), read, write, d)]]
            /\ required' = [required EXCEPT ![p] = RequiredVersions(args, read, write)]
            /\ status' = [status EXCEPT ![p] = "registered"]
       ELSE UNCHANGED <<readVersion, writeVersion, required, status>>
    /\ UNCHANGED <<rtRead, rtWrite>>

\* Rank r constructs its DTTask of the next task of the program.
NewDTTask(r) ==
    LET p == built[r] + 1
        args == Args[p]
        read == readVersion[r]
        write == writeVersion[r]
    IN
    /\ built[r] < NTasks
    /\ built' = [built EXCEPT ![r] = p]
    /\ readVersion' = [readVersion EXCEPT ![r] =
                         [d \in Data |-> ReadAfter(args, Len(args), read, d)]]
    /\ writeVersion' = [writeVersion EXCEPT ![r] =
                         [d \in Data |-> WriteAfter(args, Len(args), read, write, d)]]
    /\ IF Host(p) = r
       THEN /\ required' = [required EXCEPT ![p] = RequiredVersions(args, read, write)]
            /\ status' = [status EXCEPT ![p] = "registered"]
       ELSE UNCHANGED <<required, status>>
    /\ UNCHANGED <<rtRead, rtWrite>>

\* The versions task p requires are the run-time versions.
DataReady(p) ==
    \A i \in DOMAIN Args[p] :
        LET d == Args[p][i].data IN
        required[p][i] = IF Args[p][i].axs = In THEN rtWrite[d] ELSE rtRead[d]

\* The engine of p's host calls its runKernel.
Run(p) ==
    /\ status[p] = "registered"
    /\ DataReady(p)
    /\ status' = [status EXCEPT ![p] = "running"]
    /\ UNCHANGED <<built, readVersion, writeVersion, required, rtRead, rtWrite>>

\* setFinished(true): the engine advances the run-time versions of p's data
\* by the accesses p made.
Finish(p) ==
    /\ status[p] = "running"
    /\ status' = [status EXCEPT ![p] = "finished"]
    /\ rtRead' = [d \in Data |-> ReadAfter(Args[p], Len(Args[p]), rtRead, d)]
    /\ rtWrite' = [d \in Data |->
                      WriteAfter(Args[p], Len(Args[p]), rtRead, rtWrite, d)]
    /\ UNCHANGED <<built, readVersion, writeVersion, required>>

-------------------------------------------------------------------------------
(* Properties *)

Conflict ==
    {e \in Tasks \X Tasks :
        /\ e[1] < e[2]
        /\ \E i \in DOMAIN Args[e[1]], j \in DOMAIN Args[e[2]] :
              /\ Args[e[1]][i].data = Args[e[2]][j].data
              /\ InOut \in {Args[e[1]][i].axs, Args[e[2]][j].axs}}

\* The versions implement the abstract order: whatever the pace at which the
\* ranks construct their tasks, a task runs after the earlier tasks of all
\* ranks it conflicts with.  A task is accepted once some rank has built it.
Abstract ==
    INSTANCE TaskOrder WITH
        submitted <- CHOOSE n \in 0..NTasks :
                        /\ \E r \in Ranks : built[r] = n
                        /\ \A r \in Ranks : built[r] <= n,
        status <- [p \in Tasks |->
                      IF status[p] \in {"running", "finished"}
                      THEN status[p] ELSE "waiting"]

ImplementsTaskOrder == Abstract!Spec

\* No version is skipped: a run-time version never passes the one a task that
\* has not run yet requires (the engine compares for equality, so the task
\* would wait for ever).  A read may see later reads come and go before it
\* runs, a write may not.
NoVersionSkipped ==
    \A p \in Tasks : status[p] = "registered" =>
        \A i \in DOMAIN required[p] :
            LET d == Args[p][i].data IN
            IF Args[p][i].axs = In THEN rtWrite[d] <= required[p][i]
                                   ELSE rtRead[d] <= required[p][i]
===============================================================================
