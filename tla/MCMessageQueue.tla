---------------------------- MODULE MCMessageQueue ----------------------------
(***************************************************************************)
(* The objects of ugemm_app.cpp: three data cut by P1 = B1 x B1, and P2 of *)
(* one block for each part.                                                *)
(***************************************************************************)
EXTENDS MessageQueue

CONSTANT B1

MCProgram ==
    <<Call("data", <<None, 0>>), Call("data", <<None, 0>>), Call("data", <<None, 0>>),
      Call("partitioner", <<B1, B1, None>>), Call("partitioner", <<1, 1, None>>),
      Call("P.set_next", <<1, 2>>),
      Call("A.set_partition", <<1, 1>>), Call("A.set_partition", <<2, 1>>),
      Call("A.set_partition", <<3, 1>>)>>

\* Under which the server is proved to resolve every key.
ASSUME ProgramCutsEarly == FirstCutEarly
===============================================================================
