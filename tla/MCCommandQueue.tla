---------------------------- MODULE MCCommandQueue ----------------------------
(* Instances of CommandQueue for TLC: who makes which calls in each run.    *)
EXTENDS CommandQueue

CONSTANTS c1, c2

(* The discipline under which nobody is left asleep: one thread finishes,  *)
(* one waits for events; both feed the queue.                              *)
OneWaiterOps ==
  [c \in Clients |->
     IF c = c1 THEN {"enqueue", "finish", "dwait", "release"}
     ELSE {"enqueue", "wait", "exec"}]

FinishOps == [c \in Clients |-> {"enqueue", "finish"}]
=============================================================================
