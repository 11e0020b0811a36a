----------------------------- MODULE ContextLock ------------------------------
(***************************************************************************)
(* How processes share the devices of a platform under one lock key        *)
(* (STDGPU_LOCK and its like): clcontext_create and clcontext_destroy of   *)
(* clcontext.c.  The lock is an object of shared memory found by its name; *)
(* it holds a mutex and `refc', which is both the number of devices given  *)
(* out and the index of the next one to give.                              *)
(*                                                                         *)
(* The first process to create the name is the master: it makes the object *)
(* with no permissions, fills it in and then opens it to the others, which *)
(* try to open it until they can or until ten seconds are over.  The last  *)
(* process to give its devices back unlinks the name; an object without    *)
(* its name lives on in the processes that mapped it.                      *)
(*                                                                         *)
(* A process has one context with a lock.  It may die at any point, its    *)
(* part of `refc' with it; nobody removes the name by hand.                *)
(***************************************************************************)
EXTENDS Integers

CONSTANTS
  Proc,     \* processes run with the same lock key
  NDev,     \* platform_vndev
  MaxDev,   \* ndevmax, STDGPU_MAX_NDEV or 1
  MaxObj    \* bound: objects created under the name

ASSUME CountsArePositive == NDev \in Nat \ {0} /\ MaxDev \in Nat \ {0}
ASSUME MaxObjIsNatural   == MaxObj \in Nat

VARIABLES
  made,     \* objects created so far, numbered from 1
  name,     \* the object the name stands for, NoObj when it is free
  open,     \* open[o]: fchmod has let other processes open o
  ready,    \* ready[o]: pthread_mutex_init is done
  locked,   \* locked[o]: the mutex is taken
  refc,     \* refc[o]
  pc,       \* pc[p]: where p is in create or destroy
  obj,      \* obj[p]: the object p has mapped (__ctx_lock)
  noff,     \* noff[p]: offset of p's devices
  ndev,     \* ndev[p]: how many they are
  given     \* history: some process has given devices back

vars == <<made, name, open, ready, locked, refc, pc, obj, noff, ndev, given>>

NoObj   == 0
Objects == 1 .. MaxObj
Devices == 0 .. NDev - 1

Master  == {"init", "publish"}
Inside  == {"read", "add", "failsub", "sub"}          \* holds the mutex
Waiting == {"lock", "fail", "giveback"}               \* wants the mutex
Leaving == {"unlink", "unlock"}
States  == {"idle", "open", "create", "holds", "dead"}
             \cup Master \cup Inside \cup Waiting \cup Leaving

Init ==
  /\ made = 0 /\ name = NoObj
  /\ open   = [o \in Objects |-> FALSE]
  /\ ready  = [o \in Objects |-> FALSE]
  /\ locked = [o \in Objects |-> FALSE]
  /\ refc   = [o \in Objects |-> 0]
  /\ pc     = [p \in Proc |-> "idle"]
  /\ obj    = [p \in Proc |-> NoObj]
  /\ noff   = [p \in Proc |-> 0]
  /\ ndev   = [p \in Proc |-> 0]
  /\ given  = FALSE

Goto(p, s) == pc' = [pc EXCEPT ![p] = s]

(* Slip of Share: the part of the platform already given is forgotten.    *)
ShareOfAll(off) == IF MaxDev < NDev THEN MaxDev ELSE NDev

(* min(ndevmax, platform_vndev - off)                                      *)
Share(off) == IF MaxDev < NDev - off THEN MaxDev ELSE NDev - off

-----------------------------------------------------------------------------
(* Slip of CreateName: the object is created with mode 0600.               *)
CreateNameOpen(p) ==
  /\ pc[p] = "idle"
  /\ name = NoObj /\ made < MaxObj
  /\ made' = made + 1
  /\ name' = made + 1
  /\ open' = [open EXCEPT ![made + 1] = TRUE]
  /\ obj' = [obj EXCEPT ![p] = made + 1]
  /\ Goto(p, "init")
  /\ UNCHANGED <<ready, locked, refc, noff, ndev, given>>

(* shm_open with O_CREAT|O_EXCL, mode 0: succeeds for one process only.    *)
CreateName(p) ==
  /\ pc[p] = "idle"
  /\ name = NoObj /\ made < MaxObj
  /\ made' = made + 1
  /\ name' = made + 1
  /\ obj' = [obj EXCEPT ![p] = made + 1]
  /\ Goto(p, "init")
  /\ UNCHANGED <<open, ready, locked, refc, noff, ndev, given>>

NameExists(p) ==
  /\ pc[p] = "idle"
  /\ name # NoObj
  /\ Goto(p, "open")
  /\ UNCHANGED <<made, name, open, ready, locked, refc, obj, noff, ndev, given>>

FillIn(p) ==
  /\ pc[p] = "init"
  /\ ready' = [ready EXCEPT ![obj[p]] = TRUE]
  /\ locked' = [locked EXCEPT ![obj[p]] = FALSE]
  /\ noff' = [noff EXCEPT ![p] = 0]
  /\ ndev' = [ndev EXCEPT ![p] = Share(0)]
  /\ refc' = [refc EXCEPT ![obj[p]] = Share(0)]
  /\ Goto(p, "publish")
  /\ UNCHANGED <<made, name, open, obj, given>>

(* fchmod                                                                  *)
Publish(p) ==
  /\ pc[p] = "publish"
  /\ open' = [open EXCEPT ![obj[p]] = TRUE]
  /\ Goto(p, "create")
  /\ UNCHANGED <<made, name, ready, locked, refc, obj, noff, ndev, given>>

CanOpen == name # NoObj /\ open[name]

(* shm_open and mmap of a process that is not the master                   *)
OpenName(p) ==
  /\ pc[p] = "open"
  /\ CanOpen
  /\ obj' = [obj EXCEPT ![p] = name]
  /\ Goto(p, "lock")
  /\ UNCHANGED <<made, name, open, ready, locked, refc, noff, ndev, given>>

(* After ten seconds the process goes on with the descriptor it did not    *)
(* get: mmap answers MAP_FAILED, which is not the 0 that is tested for, and *)
(* the first use of the lock ends the process.                             *)
GiveUp(p) ==
  /\ pc[p] = "open"
  /\ ~ CanOpen
  /\ Goto(p, "dead")
  /\ UNCHANGED <<made, name, open, ready, locked, refc, obj, noff, ndev, given>>

(* Where a process goes once it has the mutex.                             *)
Inner(s) == CASE s = "lock" -> "read" [] s = "fail" -> "failsub" [] OTHER -> "sub"

(* Slip of Lock: the mutex is not taken.                                   *)
LockNothing(p) ==
  /\ pc[p] \in Waiting
  /\ pc' = [pc EXCEPT ![p] = Inner(@)]
  /\ UNCHANGED <<made, name, open, ready, locked, refc, obj, noff, ndev, given>>

(* pthread_mutex_lock of create, of its failure path and of destroy        *)
Lock(p) ==
  /\ pc[p] \in Waiting
  /\ ~ locked[obj[p]]
  /\ locked' = [locked EXCEPT ![obj[p]] = TRUE]
  /\ pc' = [pc EXCEPT ![p] = Inner(@)]
  /\ UNCHANGED <<made, name, open, ready, refc, obj, noff, ndev, given>>

(* Slip of Read: a full count is not told from one with room.              *)
ReadUnchecked(p) ==
  /\ pc[p] = "read"
  /\ noff' = [noff EXCEPT ![p] = refc[obj[p]]]
  /\ ndev' = [ndev EXCEPT ![p] = MaxDev]
  /\ Goto(p, "add")
  /\ UNCHANGED <<made, name, open, ready, locked, refc, obj, given>>

(* One look at the count: under a mutex freed by an UnlockAgain it might   *)
(* change before it is used, which ends in no devices and a refusal.       *)
Read(p) ==
  /\ pc[p] = "read"
  /\ \/ /\ refc[obj[p]] \in Devices
        /\ noff' = [noff EXCEPT ![p] = refc[obj[p]]]
        /\ ndev' = [ndev EXCEPT ![p] = Share(refc[obj[p]])]
        /\ Goto(p, "add")
        /\ UNCHANGED locked
     \/ /\ refc[obj[p]] \notin Devices
        /\ locked' = [locked EXCEPT ![obj[p]] = FALSE]
        /\ Goto(p, "create")
        /\ UNCHANGED <<noff, ndev>>
  /\ UNCHANGED <<made, name, open, ready, refc, obj, given>>

Add(p) ==
  /\ pc[p] = "add"
  /\ refc' = [refc EXCEPT ![obj[p]] = @ + ndev[p]]
  /\ locked' = [locked EXCEPT ![obj[p]] = FALSE]
  /\ Goto(p, "create")
  /\ UNCHANGED <<made, name, open, ready, obj, noff, ndev, given>>

(* clCreateContext on the devices noff, ..., noff + ndev - 1; it fails     *)
(* without any, and may fail with some.                                    *)
CreateContext(p) ==
  /\ pc[p] = "create"
  /\ \/ /\ ndev[p] > 0
        /\ Goto(p, "holds") \/ Goto(p, "fail")
        /\ UNCHANGED obj
     \/ /\ ndev[p] = 0
        /\ Goto(p, "idle")
        /\ obj' = [obj EXCEPT ![p] = NoObj]
  /\ UNCHANGED <<made, name, open, ready, locked, refc, noff, ndev, given>>

(* The failure path gives the devices back and returns; it never unlinks.  *)
FailSub(p) ==
  /\ pc[p] = "failsub"
  /\ refc' = [refc EXCEPT ![obj[p]] = @ - ndev[p]]
  /\ locked' = [locked EXCEPT ![obj[p]] = FALSE]
  /\ ndev' = [ndev EXCEPT ![p] = 0]
  /\ obj' = [obj EXCEPT ![p] = NoObj]
  /\ given' = TRUE
  /\ Goto(p, "idle")
  /\ UNCHANGED <<made, name, open, ready, noff>>

-----------------------------------------------------------------------------
(* clcontext_destroy: the queues and the context are released first.       *)
ReleaseContext(p) ==
  /\ pc[p] = "holds"
  /\ Goto(p, "giveback")
  /\ UNCHANGED <<made, name, open, ready, locked, refc, obj, noff, ndev, given>>

(* Both branches unlock; the one that found zero has an unlink before it   *)
(* unlocks once more.                                                      *)
Sub(p) ==
  /\ pc[p] = "sub"
  /\ refc' = [refc EXCEPT ![obj[p]] = @ - ndev[p]]
  /\ locked' = [locked EXCEPT ![obj[p]] = FALSE]
  /\ ndev' = [ndev EXCEPT ![p] = 0]
  /\ given' = TRUE
  /\ \/ /\ refc'[obj[p]] = 0
        /\ Goto(p, "unlink")
        /\ UNCHANGED obj
     \/ /\ refc'[obj[p]] # 0
        /\ Goto(p, "idle")
        /\ obj' = [obj EXCEPT ![p] = NoObj]
  /\ UNCHANGED <<made, name, open, ready, noff>>

(* shm_unlink removes the name, whatever object it stands for by now.      *)
Unlink(p) ==
  /\ pc[p] = "unlink"
  /\ name' = NoObj
  /\ Goto(p, "unlock")
  /\ UNCHANGED <<made, open, ready, locked, refc, obj, noff, ndev, given>>

(* The second unlock is of a mutex this process no longer has: it frees it *)
(* for whoever comes next, under a process that may have taken it.         *)
UnlockAgain(p) ==
  /\ pc[p] = "unlock"
  /\ locked' = [locked EXCEPT ![obj[p]] = FALSE]
  /\ obj' = [obj EXCEPT ![p] = NoObj]
  /\ Goto(p, "idle")
  /\ UNCHANGED <<made, name, open, ready, refc, noff, ndev, given>>

(* A process dies or exits without clcontext_destroy.                      *)
Die(p) ==
  /\ pc[p] \notin {"idle", "dead"}
  /\ Goto(p, "dead")
  /\ UNCHANGED <<made, name, open, ready, locked, refc, obj, noff, ndev, given>>

Step(p) ==
  \/ CreateName(p) \/ NameExists(p) \/ FillIn(p) \/ Publish(p)
  \/ OpenName(p) \/ GiveUp(p) \/ Lock(p) \/ Read(p) \/ Add(p)
  \/ CreateContext(p) \/ FailSub(p)
  \/ ReleaseContext(p) \/ Sub(p) \/ Unlink(p) \/ UnlockAgain(p)
  \/ Die(p)

Next == \E p \in Proc : Step(p)

Spec == Init /\ [][Next]_vars

-----------------------------------------------------------------------------
TypeOK ==
  /\ made \in 0 .. MaxObj /\ name \in 0 .. made
  /\ open \in [Objects -> BOOLEAN] /\ ready \in [Objects -> BOOLEAN]
  /\ locked \in [Objects -> BOOLEAN] /\ refc \in [Objects -> Int]
  /\ pc \in [Proc -> States] /\ obj \in [Proc -> 0 .. made]
  /\ noff \in [Proc -> Devices] /\ ndev \in [Proc -> 0 .. NDev]
  /\ given \in BOOLEAN
  /\ \A p \in Proc : pc[p] \notin {"idle", "open", "dead"} => obj[p] # NoObj

(* The devices p was told to use; a process that died still has them.      *)
DevicesOf(p) == noff[p] .. noff[p] + ndev[p] - 1

(* No process comes near the mutex of an object before it is initialised:  *)
(* mode 0 keeps the others out until fchmod (clcontext.c 482, 555), also   *)
(* when the master dies in between.                                        *)
MutexIsInitialised ==
  \A p \in Proc :
    pc[p] \in Waiting \cup Inside \cup Leaving => ready[obj[p]]

(* The slice of platform_dev[] passed to clCreateContext lies within it,   *)
(* whatever the count has become (clcontext.c 526-530, 568).               *)
DevicesExist ==
  \A p \in Proc : pc[p] \in {"create", "holds"} => DevicesOf(p) \subseteq Devices

(* As long as nobody has given devices back, no two processes, dead ones   *)
(* included, have a device in common, and the count is beyond all of them  *)
(* (clcontext.c 525-531, 551-553).                                         *)
ExclusiveUntilGivenBack ==
  ~ given =>
    \A p, q \in Proc :
      /\ p # q => DevicesOf(p) \cap DevicesOf(q) = {}
      /\ pc[p] \in {"create", "holds"} /\ ndev[p] > 0
           => refc[obj[p]] >= noff[p] + ndev[p]

(* "exclusive access to the provided devices across all processes run with *)
(* the same lock ID" (doc/stdcl_api_ref.txt 637): the code gives the next  *)
(* process the device at index refc, in use or not, and the last process   *)
(* to leave may unlink the lock of those that came after it.               *)
ExclusiveDevices ==
  \A p, q \in Proc :
    p # q /\ pc[p] = "holds" /\ pc[q] = "holds" => DevicesOf(p) \cap DevicesOf(q) = {}
=============================================================================
