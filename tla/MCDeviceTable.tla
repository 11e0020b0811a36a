---------------------------- MODULE MCDeviceTable ------------------------------
(* Threads, devices and OpenCL queues can be exchanged: no definition picks  *)
(* one of them.  Once two calls overlap they are followed to their end, but  *)
(* no third one begins; and no further when somebody's queue was released    *)
(* under him as well, since nothing is claimed about commands then.          *)
EXTENDS DeviceTable, TLC

Symmetry == Permutations(Thread) \cup Permutations(Device) \cup Permutations(Handle)

NoThirdCall ==
  raced => ~ shared /\ \A t \in Thread : pc[t] = "idle" => pc'[t] = "idle"
=============================================================================
