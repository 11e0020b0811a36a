------------------------------- MODULE MCClRpc --------------------------------
(* Instances of ClRpc for TLC: two host threads and the calls they make.   *)
EXTENDS ClRpc, TLC

CONSTANTS t1, t2

Shared == (t1 :> {"read", "exec"}) @@ (t2 :> {"mapB", "write", "unmap", "retain"})

Transfers == [t \in Thread |-> {"read", "write"}]
=============================================================================
