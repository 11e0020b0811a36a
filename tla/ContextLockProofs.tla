--------------------------- MODULE ContextLockProofs --------------------------
(***************************************************************************)
(* Proofs about ContextLock, for any set of processes, any number of       *)
(* devices and any number of lock objects.                                 *)
(*                                                                         *)
(* The argument: until somebody gives devices back there is one object,    *)
(* only its master touches it before it is open, its mutex is honest, and  *)
(* refc is beyond every device taken except those of the process that is   *)
(* between reading and raising it.  If that process dies there, the mutex  *)
(* stays taken and nobody reads the count again.                           *)
(***************************************************************************)
EXTENDS ContextLock, TLAPS

(* An object that may be opened, or that a process uses, is initialised.   *)
Using == Waiting \cup Inside \cup Leaving \cup {"publish", "create", "holds"}

HandOff ==
  /\ \A o \in Objects : open[o] => ready[o]
  /\ \A p \in Proc : pc[p] \in Using => ready[obj[p]]

InRange == \A p \in Proc : ndev[p] > 0 => noff[p] + ndev[p] <= NDev

(* p has read the count and did not get to raise it.                       *)
Pending(p) ==
  /\ pc[p] \in {"add", "dead"}
  /\ locked[1]
  /\ noff[p] = refc[1]
  /\ \A q \in Proc : q # p => pc[q] \notin Inside

Apart(p, q) ==
  \/ noff[p] + ndev[p] <= noff[q]
  \/ noff[q] + ndev[q] <= noff[p]

OneObject ==
  /\ name = made /\ made <= 1
  /\ \A o \in Objects : o > made => ~ open[o]
  /\ \A p \in Proc : pc[p] \notin Leaving

Empty ==
  \A p \in Proc :
    pc[p] \in {"idle", "open", "lock", "read", "init"} \/ obj[p] = NoObj
      => ndev[p] = 0

MasterAlone ==
  \A p \in Proc : pc[p] \in Master =>
    /\ ~ open[1]
    /\ \A q \in Proc : q # p => obj[q] = NoObj

Exclusion ==
  \A p \in Proc : pc[p] \in Inside =>
    locked[1] /\ \A q \in Proc : q # p => pc[q] \notin Inside

Counted ==
  \A p \in Proc : ndev[p] > 0 => noff[p] + ndev[p] <= refc[1] \/ Pending(p)

Disjoint ==
  \A p, q \in Proc : p # q /\ ndev[p] > 0 /\ ndev[q] > 0 => Apart(p, q)

BeforeGivenBack ==
  ~ given => OneObject /\ Empty /\ MasterAlone /\ Exclusion /\ Counted /\ Disjoint

IInv == TypeOK /\ HandOff /\ InRange /\ BeforeGivenBack

-----------------------------------------------------------------------------
LEMMA ShareInRange ==
  ASSUME NEW off \in Devices
  PROVE  Share(off) \in 1 .. NDev /\ off + Share(off) <= NDev
BY CountsArePositive DEF Share, Devices

LEMMA ObjectInUse ==
  ASSUME TypeOK, NEW p \in Proc, pc[p] \notin {"idle", "open", "dead"}
  PROVE  obj[p] \in Objects /\ obj[p] \in 1 .. made
BY MaxObjIsNatural DEF TypeOK, Objects, NoObj

LEMMA BooleanUpdate ==
  ASSUME NEW S, NEW f \in [S -> BOOLEAN], NEW x, NEW b \in BOOLEAN
  PROVE  [f EXCEPT ![x] = b] \in [S -> BOOLEAN]
OBVIOUS

(* Types, for any number of processes, devices and generations of the     *)
(* lock: the offset and the number of devices of clcontext_create stay in  *)
(* the device table whatever refc has become.                              *)
THEOREM ContextLockTypes == Spec => []TypeOK
PROOF
  <1>1. Init => TypeOK
    <2> SUFFICES ASSUME Init PROVE TypeOK
      OBVIOUS
    <2> USE MaxObjIsNatural, CountsArePositive DEF Init
    <2>1. made \in 0 .. MaxObj /\ name \in 0 .. made /\ 0 \in 0 .. made
      BY DEF NoObj
    <2>2. open \in [Objects -> BOOLEAN] /\ ready \in [Objects -> BOOLEAN]
          /\ locked \in [Objects -> BOOLEAN] /\ given \in BOOLEAN
      OBVIOUS
    <2>3. refc \in [Objects -> Int]
      OBVIOUS
    <2>4. 0 \in Devices /\ 0 \in 0 .. NDev /\ "idle" \in States
      BY DEF Devices, States
    <2>5. pc \in [Proc -> States] /\ obj \in [Proc -> 0 .. made]
          /\ noff \in [Proc -> Devices] /\ ndev \in [Proc -> 0 .. NDev]
      BY <2>1, <2>4 DEF NoObj
    <2>6. \A p \in Proc : pc[p] = "idle"
      OBVIOUS
    <2> QED BY <2>1, <2>2, <2>3, <2>5, <2>6 DEF TypeOK
  <1>2. TypeOK /\ [Next]_vars => TypeOK'
    <2> SUFFICES ASSUME TypeOK, [Next]_vars PROVE TypeOK'
      OBVIOUS
    <2> USE MaxObjIsNatural, CountsArePositive
    <2>1. CASE UNCHANGED vars
      BY <2>1 DEF vars, TypeOK
    <2> SUFFICES ASSUME Next PROVE TypeOK'
      BY <2>1
    <2>2. PICK p \in Proc : Step(p)
      BY DEF Next
    <2> DEFINE o == obj[p]
    <2> USE DEF TypeOK, States, Master, Inside, Waiting, Leaving, Goto, NoObj
    <2>3. CASE CreateName(p)
      BY <2>3 DEF CreateName, Objects
    <2>4. CASE NameExists(p) \/ GiveUp(p) \/ Die(p) \/ ReleaseContext(p)
      BY <2>4 DEF NameExists, GiveUp, Die, ReleaseContext
    <2>5. CASE FillIn(p)
      <3>1. Share(0) \in 1 .. NDev /\ 0 \in Devices
        BY ShareInRange DEF Devices
      <3>2. o \in Objects
        BY <2>5, ObjectInUse DEF FillIn
      <3> QED BY <3>1, <3>2, <2>5 DEF FillIn
    <2>6. CASE Publish(p) \/ UnlockAgain(p) \/ Unlink(p)
      <3>1. open' \in [Objects -> BOOLEAN] /\ locked' \in [Objects -> BOOLEAN]
        BY <2>6, BooleanUpdate DEF Publish, UnlockAgain, Unlink
      <3> QED BY <3>1, <2>6 DEF Publish, UnlockAgain, Unlink
    <2>7. CASE OpenName(p)
      BY <2>7 DEF OpenName, CanOpen
    <2>8. CASE Lock(p)
      BY <2>8, ObjectInUse DEF Lock, Inner
    <2>9. CASE Read(p)
      <3>1. refc[o] \in Devices => Share(refc[o]) \in 1 .. NDev
        BY ShareInRange
      <3>2. locked' \in [Objects -> BOOLEAN]
        BY <2>9, BooleanUpdate DEF Read
      <3> QED BY <3>1, <3>2, <2>9, ObjectInUse DEF Read
    <2>10. CASE Add(p)
      BY <2>10, ObjectInUse DEF Add
    <2>11. CASE CreateContext(p)
      BY <2>11 DEF CreateContext
    <2>12. CASE FailSub(p) \/ Sub(p)
      <3>1. locked' \in [Objects -> BOOLEAN] /\ given' \in BOOLEAN
        BY <2>12, BooleanUpdate DEF FailSub, Sub
      <3>2. o \in Objects
        BY <2>12, ObjectInUse DEF FailSub, Sub
      <3>3. refc' \in [Objects -> Int]
        BY <2>12, <3>2 DEF FailSub, Sub
      <3> QED BY <3>1, <3>3, <2>12 DEF FailSub, Sub
    <2> QED BY <2>2, <2>3, <2>4, <2>5, <2>6, <2>7, <2>8, <2>9, <2>10, <2>11, <2>12
         DEF Step
  <1> QED BY <1>1, <1>2, PTL DEF Spec

-----------------------------------------------------------------------------
(* The hand-off from the master to the others.                             *)
LEMMA HandOffStep ==
  ASSUME TypeOK, HandOff, NEW p \in Proc, Step(p), TypeOK'
  PROVE  HandOff'
PROOF
  <1> USE DEF HandOff, Using, Waiting, Inside, Leaving, Goto
  <1>1. CASE CreateName(p)
    <2>1. \A q \in Proc : q # p => obj'[q] = obj[q] /\ pc'[q] = pc[q]
      BY <1>1 DEF CreateName, TypeOK
    <2>2. pc'[p] = "init"
      BY <1>1 DEF CreateName, TypeOK
    <2> QED BY <1>1, <2>1, <2>2 DEF CreateName
  <1>2. CASE NameExists(p) \/ GiveUp(p) \/ Die(p) \/ ReleaseContext(p)
    BY <1>2 DEF NameExists, GiveUp, Die, ReleaseContext, TypeOK
  <1>3. CASE FillIn(p)
    <2>1. \A o \in Objects : ready[o] => ready'[o]
      BY <1>3, ObjectInUse DEF FillIn, TypeOK
    <2>2. ready'[obj[p]] = TRUE
      BY <1>3, ObjectInUse DEF FillIn, TypeOK
    <2>3. \A q \in Proc : pc[q] \in Using => obj[q] \in Objects
      BY ObjectInUse DEF Using
    <2> QED BY <1>3, <2>1, <2>2, <2>3 DEF FillIn, TypeOK
  <1>4. CASE Publish(p)
    BY <1>4, ObjectInUse DEF Publish, TypeOK
  <1>5. CASE OpenName(p)
    <2>1. name \in Objects /\ ready[name]
      BY <1>5, MaxObjIsNatural DEF OpenName, CanOpen, TypeOK, Objects, NoObj
    <2> QED BY <1>5, <2>1 DEF OpenName, TypeOK
  <1>6. CASE Lock(p) \/ Read(p) \/ Add(p) \/ Unlink(p)
    BY <1>6 DEF Lock, Read, Add, Unlink, Inner, TypeOK
  <1>7. CASE CreateContext(p)
    BY <1>7 DEF CreateContext, TypeOK
  <1>8. CASE FailSub(p) \/ Sub(p) \/ UnlockAgain(p)
    BY <1>8 DEF FailSub, Sub, UnlockAgain, TypeOK
  <1> QED BY <1>1, <1>2, <1>3, <1>4, <1>5, <1>6, <1>7, <1>8 DEF Step

(* No process, the master and dead ones included, ever comes near the      *)
(* mutex of an object that is not initialised (clcontext.c 482, 555).      *)
THEOREM LockIsInitialised == Spec => []MutexIsInitialised
PROOF
  <1>1. Init => HandOff
    BY DEF Init, HandOff, Using, Waiting, Inside, Leaving
  <1>2. TypeOK /\ TypeOK' /\ HandOff /\ [Next]_vars => HandOff'
    <2> SUFFICES ASSUME TypeOK, TypeOK', HandOff, [Next]_vars PROVE HandOff'
      OBVIOUS
    <2>1. CASE UNCHANGED vars
      BY <2>1 DEF vars, HandOff
    <2>2. CASE Next
      BY <2>2, HandOffStep DEF Next
    <2> QED BY <2>1, <2>2
  <1>3. HandOff => MutexIsInitialised
    BY DEF HandOff, MutexIsInitialised, Using
  <1> QED BY <1>1, <1>2, <1>3, ContextLockTypes, PTL DEF Spec

-----------------------------------------------------------------------------
(* The devices a process is told to use are devices of the platform.       *)
LEMMA InRangeStep ==
  ASSUME TypeOK, InRange, NEW p \in Proc, Step(p)
  PROVE  InRange'
PROOF
  <1> USE DEF InRange
  <1>1. CASE FillIn(p)
    <2>1. 0 \in Devices
      BY CountsArePositive DEF Devices
    <2>2. 0 + Share(0) <= NDev
      BY <2>1, ShareInRange
    <2> QED BY <1>1, <2>2 DEF FillIn, TypeOK
  <1>2. CASE Read(p)
    <2>1. refc[obj[p]] \in Devices =>
            refc[obj[p]] + Share(refc[obj[p]]) <= NDev
      BY ShareInRange
    <2> QED BY <1>2, <2>1 DEF Read, TypeOK
  <1>3. CASE FailSub(p) \/ Sub(p)
    BY <1>3 DEF FailSub, Sub, TypeOK
  <1>4. CASE UNCHANGED <<noff, ndev>>
    BY <1>4
  <1> QED
    BY <1>1, <1>2, <1>3, <1>4 DEF Step, CreateName, NameExists, Publish, OpenName,
       GiveUp, Lock, Add, CreateContext, ReleaseContext, Unlink, UnlockAgain, Die

(* The slice of the table of devices passed to clCreateContext lies within *)
(* the table, for any number of devices (clcontext.c 526-530, 568).        *)
THEOREM SliceInTable == Spec => []DevicesExist
PROOF
  <1>1. Init => InRange
    BY DEF Init, InRange
  <1>2. TypeOK /\ InRange /\ [Next]_vars => InRange'
    <2> SUFFICES ASSUME TypeOK, InRange, [Next]_vars PROVE InRange'
      OBVIOUS
    <2>1. CASE UNCHANGED vars
      BY <2>1 DEF vars, InRange
    <2>2. CASE Next
      BY <2>2, InRangeStep DEF Next
    <2> QED BY <2>1, <2>2
  <1>3. TypeOK /\ InRange => DevicesExist
    <2> SUFFICES ASSUME TypeOK, InRange, NEW p \in Proc PROVE DevicesOf(p) \subseteq Devices
      BY DEF DevicesExist
    <2>1. noff[p] \in 0 .. NDev - 1 /\ ndev[p] \in 0 .. NDev
      BY DEF TypeOK, Devices
    <2>2. ndev[p] > 0 => noff[p] + ndev[p] <= NDev
      BY DEF InRange
    <2> QED BY <2>1, <2>2, CountsArePositive DEF DevicesOf, Devices
  <1> QED BY <1>1, <1>2, <1>3, ContextLockTypes, PTL DEF Spec

-----------------------------------------------------------------------------
(* Until devices are given back, what is in the object is exact.           *)
LEMMA BeforeGivenBackStep ==
  ASSUME IInv, NEW p \in Proc, Step(p), TypeOK'
  PROVE  BeforeGivenBack'
PROOF
  <1> USE DEF Goto
  <1> SUFFICES ASSUME ~ given' PROVE
        (OneObject /\ Empty /\ MasterAlone /\ Exclusion /\ Counted /\ Disjoint)'
    BY DEF BeforeGivenBack
  <1>1. ~ given /\ OneObject /\ Empty /\ MasterAlone /\ Exclusion /\ Counted /\ Disjoint
    BY DEF IInv, BeforeGivenBack, Step, CreateName, NameExists, FillIn, Publish, OpenName,
       GiveUp, Lock, Read, Add, CreateContext, FailSub, ReleaseContext, Sub, Unlink,
       UnlockAgain, Die
  <1>2. TypeOK
    BY DEF IInv
  <1>3. \A q \in Proc : obj[q] # NoObj => obj[q] = 1 /\ 1 \in Objects
    BY <1>1, <1>2, MaxObjIsNatural DEF TypeOK, OneObject, NoObj, Objects
  <1>4. /\ refc \in [Objects -> Int] /\ \A q \in Proc : noff[q] \in Nat /\ ndev[q] \in Nat
        /\ \A q \in Proc : noff'[q] \in Nat /\ ndev'[q] \in Nat
    BY <1>2, CountsArePositive DEF TypeOK, Devices
  <1>5. CASE CreateName(p)
    <2>1. made = 0 /\ \A q \in Proc : obj[q] = NoObj /\ ndev[q] = 0
      BY <1>5, <1>1, <1>2 DEF CreateName, OneObject, Empty, TypeOK, NoObj
    <2>2. made' = 1 /\ name' = 1 /\ pc'[p] = "init" /\ ndev' = ndev
          /\ \A q \in Proc : q # p => obj'[q] = NoObj /\ pc'[q] = pc[q]
      BY <1>5, <2>1, <1>2 DEF CreateName, TypeOK
    <2>3. \A q \in Proc : q # p => pc[q] \in {"idle", "open", "dead"}
      BY <2>1, <1>2 DEF TypeOK
    <2>4. ~ open[1] /\ ~ open'[1]
      BY <1>5, <1>1, <2>1, MaxObjIsNatural DEF CreateName, OneObject, Objects
    <2>5. \A o \in Objects : o > 1 => ~ open'[o]
      BY <1>5, <1>1, <2>1 DEF CreateName, OneObject, Objects
    <2> QED
      BY <2>1, <2>2, <2>3, <2>4, <2>5, <1>1 DEF OneObject, Empty, MasterAlone, Exclusion, Counted, Disjoint,
         Master, Inside, Leaving
  <1>6. CASE NameExists(p) \/ GiveUp(p)
    <2>1. made' = made /\ UNCHANGED <<name, open, locked, refc, obj, noff, ndev>>
          /\ (pc'[p] \in {"open", "dead"}) /\ ndev[p] = 0
          /\ \A q \in Proc : q # p => pc'[q] = pc[q]
      BY <1>6, <1>1, <1>2 DEF NameExists, GiveUp, TypeOK, Empty
    <2> QED
      BY <2>1, <1>1 DEF OneObject, Empty, MasterAlone, Exclusion, Counted, Disjoint, Pending,
         Apart, Master, Inside, Leaving
  <1>7. CASE FillIn(p)
    <2>1. obj[p] = 1 /\ 1 \in Objects /\ \A q \in Proc : q # p => obj[q] = NoObj
      BY <1>7, <1>1, <1>2, <1>3, ObjectInUse DEF FillIn, MasterAlone, Master, NoObj, Objects
    <2>2. \A q \in Proc : q # p => ndev[q] = 0 /\ pc[q] \in {"idle", "open", "dead"}
      BY <2>1, <1>1, <1>2 DEF Empty, TypeOK
    <2>3. noff'[p] = 0 /\ ndev'[p] = Share(0) /\ refc'[1] = Share(0) /\ pc'[p] = "publish"
          /\ UNCHANGED <<made, name, open, obj>>
          /\ \A q \in Proc : q # p => pc'[q] = pc[q] /\ ndev'[q] = ndev[q]
      BY <1>7, <1>2, <2>1 DEF FillIn, TypeOK
    <2>4. Share(0) \in Nat
      BY <2>3, <1>4
    <2> QED
      BY <1>1, <2>1, <2>2, <2>3, <2>4, <1>7 DEF FillIn, OneObject, Empty, MasterAlone,
         Exclusion, Counted, Disjoint, Master, Inside, Leaving, NoObj
  <1>8. CASE Publish(p)
    <2>1. obj[p] = 1 /\ 1 \in Objects /\ \A q \in Proc : q # p => obj[q] = NoObj
      BY <1>8, <1>1, <1>2, <1>3, ObjectInUse DEF Publish, MasterAlone, Master, NoObj, Objects
    <2>2. \A q \in Proc : q # p => ndev[q] = 0 /\ pc[q] \in {"idle", "open", "dead"}
      BY <2>1, <1>1, <1>2 DEF Empty, TypeOK
    <2>3. pc'[p] = "create" /\ UNCHANGED <<made, name, locked, refc, obj, noff, ndev>>
          /\ \A q \in Proc : q # p => pc'[q] = pc[q]
      BY <1>8, <1>2 DEF Publish, TypeOK
    <2>4. made = 1 /\ \A o \in Objects : o > made => ~ open'[o]
      BY <1>8, <2>1, <1>1, <1>2 DEF Publish, OneObject, TypeOK, Objects
    <2>5. ndev[p] > 0 => noff[p] + ndev[p] <= refc[1]
      BY <1>8, <1>1 DEF Publish, Counted, Pending
    <2> QED
      BY <1>1, <2>1, <2>2, <2>3, <2>4, <2>5, <1>4 DEF OneObject, Empty, MasterAlone,
         Exclusion, Counted, Disjoint, Master, Inside, Leaving, NoObj
  <1>9. CASE OpenName(p)
    <2>1. name = 1 /\ open[1] /\ ndev[p] = 0
      BY <1>9, <1>1, <1>2 DEF OpenName, CanOpen, OneObject, Empty, TypeOK, NoObj
    <2>2. \A q \in Proc : pc[q] \notin Master
      BY <2>1, <1>1 DEF MasterAlone
    <2>3. pc'[p] = "lock" /\ UNCHANGED <<made, name, open, locked, refc, noff, ndev>>
          /\ obj'[p] = 1
          /\ \A q \in Proc : q # p => pc'[q] = pc[q] /\ obj'[q] = obj[q]
      BY <1>9, <1>2, <2>1 DEF OpenName, TypeOK
    <2>4. OneObject' /\ Empty' /\ MasterAlone'
      BY <1>1, <2>1, <2>2, <2>3 DEF OneObject, Empty, MasterAlone, Master, Leaving
    <2>5. Exclusion' /\ Counted'
      BY <1>1, <2>1, <2>3 DEF Exclusion, Counted, Pending, Inside
    <2>6. Disjoint'
      BY <1>1, <2>3 DEF Disjoint, Apart
    <2> QED BY <2>4, <2>5, <2>6
  <1>10. CASE Lock(p)
    <2>1. obj[p] = 1 /\ 1 \in Objects /\ ~ locked[1]
      BY <1>10, <1>2, <1>3, ObjectInUse DEF Lock, Waiting, NoObj, Objects
    <2>2. \A q \in Proc : pc[q] \notin Inside
      BY <2>1, <1>1 DEF Exclusion
    <2>3. pc'[p] \in {"read", "failsub", "sub"} /\ locked'[1]
          /\ (pc'[p] = "read" => pc[p] = "lock")
          /\ UNCHANGED <<made, name, open, refc, obj, noff, ndev>>
          /\ \A q \in Proc : q # p => pc'[q] = pc[q]
      BY <1>10, <1>2, <2>1 DEF Lock, Inner, Waiting, TypeOK
    <2>4. \A q \in Proc : ndev[q] > 0 => noff[q] + ndev[q] <= refc[1]
      BY <2>1, <1>1 DEF Counted, Pending
    <2>5. \A q \in Proc : pc[q] \notin Master
      BY <2>1, <1>1, <1>10 DEF MasterAlone, NoObj, Lock, Master, Waiting
    <2> QED
      BY <1>1, <2>1, <2>2, <2>3, <2>4, <2>5 DEF OneObject, Empty, MasterAlone, Exclusion,
         Counted, Disjoint, Apart, Master, Inside, Leaving
  <1>11. CASE Read(p)
    <2> DEFINE r == refc[1]
    <2>1. obj[p] = 1 /\ 1 \in Objects /\ ndev[p] = 0 /\ locked[1] /\ r \in Int
      BY <1>11, <1>1, <1>2, <1>3, ObjectInUse
      DEF Read, Empty, Exclusion, Inside, TypeOK, NoObj, Objects
    <2>2. \A q \in Proc : q # p => pc[q] \notin Inside
      BY <1>11, <1>1 DEF Read, Exclusion, Inside
    <2>3. /\ UNCHANGED <<made, name, open, refc, obj>>
          /\ \A q \in Proc : q # p => pc'[q] = pc[q] /\ noff'[q] = noff[q] /\ ndev'[q] = ndev[q]
      BY <1>11, <1>2 DEF Read, TypeOK
    <2>4. \A q \in Proc : pc[q] \notin Master
      BY <1>11, <2>1, <1>1 DEF MasterAlone, NoObj, Read, Master
    <2>5. \A q \in Proc : ndev[q] > 0 => noff[q] + ndev[q] <= r
      BY <1>11, <1>1, <2>1 DEF Counted, Pending, Read, Inside
    <2>6. \/ pc'[p] = "add" /\ noff'[p] = r /\ locked' = locked
          \/ pc'[p] = "create" /\ noff' = noff /\ ndev' = ndev
      BY <1>11, <1>2, <2>1 DEF Read, TypeOK
    <2>7. OneObject' /\ Empty' /\ MasterAlone'
      BY <1>1, <2>1, <2>3, <2>4, <2>6 DEF OneObject, Empty, MasterAlone, Master, Leaving, NoObj
    <2>8. Exclusion'
      BY <2>1, <2>2, <2>3, <2>6 DEF Exclusion, Inside
    <2>9. Counted'
      BY <2>1, <2>2, <2>3, <2>5, <2>6 DEF Counted, Pending, Inside
    <2>10. Disjoint'
      <3> SUFFICES ASSUME NEW a \in Proc, NEW b \in Proc, a # b, ndev'[a] > 0, ndev'[b] > 0
                   PROVE  Apart(a, b)'
        BY DEF Disjoint
      <3>1. CASE a # p /\ b # p
        BY <3>1, <1>1, <2>3 DEF Disjoint, Apart
      <3>2. CASE a = p
        BY <3>2, <2>1, <2>3, <2>5, <2>6 DEF Apart
      <3>3. CASE b = p
        BY <3>3, <2>1, <2>3, <2>5, <2>6 DEF Apart
      <3> QED BY <3>1, <3>2, <3>3
    <2> QED BY <2>7, <2>8, <2>9, <2>10
  <1>12. CASE Add(p)
    <2> DEFINE r == refc[1]
    <2>1. obj[p] = 1 /\ 1 \in Objects /\ r \in Int
      BY <1>12, <1>2, <1>3, ObjectInUse DEF Add, TypeOK, NoObj, Objects
    <2>2. \A q \in Proc : q # p => pc[q] \notin Inside
      BY <1>12, <1>1 DEF Add, Exclusion, Inside
    <2>3. /\ UNCHANGED <<made, name, open, obj, noff, ndev>>
          /\ pc'[p] = "create" /\ refc'[1] = r + ndev[p]
          /\ \A q \in Proc : q # p => pc'[q] = pc[q]
      BY <1>12, <1>2, <2>1 DEF Add, TypeOK
    <2>4. \A q \in Proc : pc[q] \notin Master
      BY <1>12, <2>1, <1>1 DEF MasterAlone, NoObj, Add, Master
    <2>5. \A q \in Proc : q # p /\ ndev[q] > 0 => noff[q] + ndev[q] <= r
      BY <1>12, <1>1 DEF Counted, Pending, Add, Inside
    <2>6. ndev[p] > 0 => noff[p] <= r
      <3>1. CASE noff[p] + ndev[p] <= r
        BY <3>1, <2>1, <1>4
      <3>2. CASE Pending(p)
        BY <3>2, <2>1 DEF Pending
      <3> QED BY <3>1, <3>2, <1>1 DEF Counted
    <2>7. OneObject' /\ Empty' /\ MasterAlone' /\ Exclusion'
      BY <1>1, <2>1, <2>2, <2>3, <2>4
      DEF OneObject, Empty, MasterAlone, Exclusion, Master, Inside, Leaving, NoObj
    <2>8. Counted'
      <3> SUFFICES ASSUME NEW q \in Proc, ndev[q] > 0 PROVE noff[q] + ndev[q] <= r + ndev[p]
        BY <2>3 DEF Counted
      <3>1. CASE q = p
        BY <3>1, <2>6, <2>1, <1>4
      <3>2. CASE q # p
        BY <3>2, <2>5, <2>1, <1>4
      <3> QED BY <3>1, <3>2
    <2>9. Disjoint'
      BY <1>1, <2>3 DEF Disjoint, Apart
    <2> QED BY <2>7, <2>8, <2>9
  <1>13. CASE CreateContext(p) \/ ReleaseContext(p)
    <2>1. /\ UNCHANGED <<made, name, open, locked, refc, noff, ndev>>
          /\ pc[p] \in {"create", "holds"} /\ pc'[p] \in {"idle", "holds", "fail", "giveback"}
          /\ (obj'[p] = obj[p]) \/ (obj'[p] = NoObj /\ ndev[p] = 0)
          /\ pc'[p] = "idle" => ndev[p] = 0
          /\ \A q \in Proc : q # p => pc'[q] = pc[q] /\ obj'[q] = obj[q]
      <3>1. pc \in [Proc -> States] /\ obj \in [Proc -> 0 .. made]
        BY <1>2 DEF TypeOK
      <3>2. CASE ReleaseContext(p)
        BY <3>1, <3>2 DEF ReleaseContext
      <3>3. CASE CreateContext(p) /\ ndev[p] > 0
        BY <3>1, <3>3, <1>4 DEF CreateContext
      <3>4. CASE CreateContext(p) /\ ndev[p] = 0
        BY <3>1, <3>4, <1>4 DEF CreateContext
      <3> QED BY <1>13, <3>2, <3>3, <3>4, <1>4
    <2>2. OneObject' /\ Exclusion'
      BY <1>1, <2>1 DEF OneObject, Exclusion, Inside, Leaving
    <2>3. Empty'
      BY <1>1, <2>1 DEF Empty
    <2>4. MasterAlone'
      BY <1>1, <2>1 DEF MasterAlone, Master
    <2>5. Counted'
      BY <1>1, <2>1 DEF Counted, Pending, Inside
    <2>6. Disjoint'
      BY <1>1, <2>1 DEF Disjoint, Apart
    <2> QED BY <2>2, <2>3, <2>4, <2>5, <2>6
  <1>14. CASE Die(p)
    <2>1. /\ UNCHANGED <<made, name, open, locked, refc, obj, noff, ndev>>
          /\ pc'[p] = "dead"
          /\ \A q \in Proc : q # p => pc'[q] = pc[q]
      BY <1>14, <1>2 DEF Die, TypeOK
    <2>2. OneObject' /\ Empty' /\ MasterAlone' /\ Exclusion'
      BY <1>1, <2>1
      DEF OneObject, Empty, MasterAlone, Exclusion, Master, Inside, Leaving, NoObj
    <2>3. Counted'
      BY <1>1, <2>1 DEF Counted, Pending, Inside
    <2>4. Disjoint'
      BY <1>1, <2>1 DEF Disjoint, Apart
    <2> QED BY <2>2, <2>3, <2>4
  <1>15. CASE FailSub(p) \/ Sub(p) \/ Unlink(p) \/ UnlockAgain(p)
    BY <1>15, <1>1 DEF FailSub, Sub, Unlink, UnlockAgain, OneObject, Leaving
  <1> QED
    BY <1>5, <1>6, <1>7, <1>8, <1>9, <1>10, <1>11, <1>12, <1>13, <1>14, <1>15 DEF Step

LEMMA ContextLockInductive == Spec => []IInv
PROOF
  <1>1. Init => HandOff /\ InRange /\ BeforeGivenBack
    BY DEF Init, HandOff, Using, InRange, BeforeGivenBack, OneObject, Empty, MasterAlone,
       Exclusion, Counted, Disjoint, Master, Waiting, Inside, Leaving, NoObj
  <1>2. TypeOK' /\ IInv /\ [Next]_vars => IInv'
    <2> SUFFICES ASSUME TypeOK', IInv, [Next]_vars PROVE IInv'
      OBVIOUS
    <2>1. CASE UNCHANGED vars
      BY <2>1 DEF vars, IInv, TypeOK, HandOff, InRange, BeforeGivenBack, OneObject, Empty,
         MasterAlone, Exclusion, Counted, Disjoint, Pending, Apart
    <2>2. CASE Next
      BY <2>2, HandOffStep, InRangeStep, BeforeGivenBackStep DEF Next, IInv
    <2> QED BY <2>1, <2>2
  <1>3. IInv => TypeOK
    BY DEF IInv
  <1> QED BY <1>1, <1>2, <1>3, ContextLockTypes, PTL DEF Spec, IInv

(* Until a process gives devices back, no device is given twice, also when *)
(* processes die at any point (clcontext.c 498-559).                       *)
THEOREM ExclusiveWhileNobodyLeaves == Spec => []ExclusiveUntilGivenBack
PROOF
  <1>1. IInv => ExclusiveUntilGivenBack
    <2> SUFFICES ASSUME IInv, ~ given, NEW p \in Proc, NEW q \in Proc
                 PROVE  /\ p # q => DevicesOf(p) \cap DevicesOf(q) = {}
                        /\ pc[p] \in {"create", "holds"} /\ ndev[p] > 0
                             => refc[obj[p]] >= noff[p] + ndev[p]
      BY DEF ExclusiveUntilGivenBack
    <2>1. TypeOK /\ OneObject /\ Counted /\ Disjoint
      BY DEF IInv, BeforeGivenBack
    <2>2. noff[p] \in Nat /\ ndev[p] \in Nat /\ noff[q] \in Nat /\ ndev[q] \in Nat
      BY <2>1, CountsArePositive DEF TypeOK, Devices
    <2>3. p # q => DevicesOf(p) \cap DevicesOf(q) = {}
      <3>1. CASE ndev[p] = 0 \/ ndev[q] = 0
        BY <3>1, <2>2 DEF DevicesOf
      <3>2. CASE ndev[p] > 0 /\ ndev[q] > 0
        BY <3>2, <2>1, <2>2 DEF DevicesOf, Disjoint, Apart
      <3> QED BY <3>1, <3>2, <2>2
    <2>4. ASSUME pc[p] \in {"create", "holds"}, ndev[p] > 0
          PROVE  refc[obj[p]] >= noff[p] + ndev[p]
      <3>1. obj[p] = 1 /\ 1 \in Objects
        <4>1. obj[p] \in Objects /\ obj[p] \in 1 .. made
          BY <2>4, <2>1, ObjectInUse
        <4>2. made \in Nat /\ made <= 1
          BY <2>1, MaxObjIsNatural DEF OneObject, TypeOK
        <4> QED BY <4>1, <4>2
      <3>2. noff[p] + ndev[p] <= refc[1]
        BY <2>4, <2>1 DEF Counted, Pending
      <3> QED BY <3>1, <3>2, <2>1, <2>2 DEF TypeOK
    <2> QED BY <2>3, <2>4
  <1> QED BY <1>1, ContextLockInductive, PTL
=============================================================================
