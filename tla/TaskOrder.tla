------------------------------ MODULE TaskOrder ------------------------------
(***************************************************************************)
(* What a dependency-aware scheduler of the framework promises to the      *)
(* program that submits tasks to it: tasks are accepted one after the      *)
(* other, and two tasks that touch the same data, one of them to write it, *)
(* run in the order in which they were submitted and never together.       *)
(*                                                                         *)
(* This is the abstract specification.  The chains of schedulers implement *)
(* it: PathDispatch and EdgeDispatch those bound at compile time,          *)
(* DynamicChain those loaded at run time, HandWritten the products without *)
(* the framework; DTVersions holds the data versions of DuctTeip's tasks.  *)
(***************************************************************************)
EXTENDS Naturals

CONSTANTS NTasks,    \* how many tasks the program submits
          Conflict   \* the pairs <<q, p>>, q submitted before p, that conflict

VARIABLES submitted, \* how many tasks have been accepted
          status     \* what has become of each task

vars == <<submitted, status>>

Tasks == 1..NTasks

TypeOK ==
    /\ submitted \in 0..NTasks
    /\ status \in [Tasks -> {"waiting", "running", "finished"}]

Init ==
    /\ submitted = 0
    /\ status = [p \in Tasks |-> "waiting"]

Submit ==
    /\ submitted < NTasks
    /\ submitted' = submitted + 1
    /\ UNCHANGED status

Start(p) ==
    /\ p <= submitted
    /\ status[p] = "waiting"
    /\ \A q \in Tasks : <<q, p>> \in Conflict => status[q] = "finished"
    /\ status' = [status EXCEPT ![p] = "running"]
    /\ UNCHANGED submitted

Finish(p) ==
    /\ status[p] = "running"
    /\ status' = [status EXCEPT ![p] = "finished"]
    /\ UNCHANGED submitted

Next ==
    \/ Submit
    \/ \E p \in Tasks : Start(p) \/ Finish(p)

Spec == Init /\ [][Next]_vars

\* A task that has started finds every earlier task it conflicts with finished:
\* the order DTTask's required versions are there to enforce.
SubmissionOrder ==
    \A p, q \in Tasks :
        <<q, p>> \in Conflict /\ status[p] # "waiting" => status[q] = "finished"
==============================================================================
