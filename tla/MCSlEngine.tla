----------------------------- MODULE MCSlEngine -----------------------------
(* Instances of SlEngine for TLC: two engines. *)
EXTENDS SlEngine

CONSTANTS sched, even, chain, long, pair

OneLauncher == {sched}

(* even: a block each; chain: two chained commands, one of them with no    *)
(* block; long: a chain longer than the engines; pair: two __local         *)
(* arguments of which only the first fits.                                 *)
AllJobs  == {even, chain, long, pair}
AllSpans ==
  [j \in Jobs |-> IF j = long THEN NEngines + 1
                  ELSE IF j = chain THEN 2 ELSE NEngines]
ChainJobs == {chain, long} \cap Jobs
AllWork ==
  [j \in Jobs |-> [e \in Engines |-> IF j = even THEN 1 ELSE 2 * e]]
AllLocalArgs ==
  [j \in Jobs |-> IF j = pair THEN <<1, 2>>
                  ELSE IF j = even THEN <<1, 1>>
                  ELSE IF j = chain THEN <<2>> ELSE <<>>]
=============================================================================
