---------------------------- MODULE WorkGroupProofs ----------------------------
(***************************************************************************)
(* Barriers and blocks of WorkGroup for every number of items, barriers    *)
(* and blocks.                                                             *)
(*                                                                         *)
(* The invariant says what each loop of the engine has behind it.  While   *)
(* the engine is at the first item of its second loop the items go round   *)
(* the ring: those before the running item are one segment ahead.  The     *)
(* last segment is therefore reached by item 0 first, when all the others  *)
(* stand before theirs, and from then on every item the engine resumes     *)
(* returns without another jump.                                           *)
(***************************************************************************)
EXTENDS WorkGroup, TLAPS

Types ==
  /\ nc \in 1 .. MaxItems /\ nbar \in 0 .. MaxBarriers
  /\ nblk \in 0 .. MaxBlocks /\ blk \in 0 .. nblk
  /\ pc \in {"idle", "start", "resume", "item", "check"}
  /\ i \in Items /\ item \in Buffers
  /\ thr_jbuf \in [Buffers -> -1 .. MaxBarriers]
  /\ thr_runc \in Int
  /\ done \in [Buffers -> 0 .. MaxBarriers + 1]

(* All items stand before segment s. *)
AllAt(s) == \A k \in Items : thr_jbuf[k] = s /\ done[k] = s

(* Before the engine resumes item i: item 0 goes first, from the           *)
(* beginning; when it has returned, the others stand before the end.       *)
Rest ==
  /\ thr_runc = nc - i
  /\ i = 0 => AllAt(0)
  /\ i > 0 => \A k \in Items : /\ thr_jbuf[k] = nbar
                               /\ done[k] = IF k < i THEN nbar + 1 ELSE nbar

(* While an item runs: round the ring, or one item to its end. *)
Ring ==
  /\ thr_runc = nc
  /\ item \in Items /\ thr_jbuf[item] \in 0 .. nbar
  /\ \A k \in Items :
       /\ done[k] = thr_jbuf[k]
       /\ thr_jbuf[k] =
            IF k < item THEN thr_jbuf[item] + 1 ELSE thr_jbuf[item]
       /\ thr_jbuf[k] <= nbar

(* What holds in each loop of the engine. *)
Starting ==
  pc = "start" => /\ blk < nblk /\ thr_runc = i
                  /\ \A k \in Items : done[k] = 0 /\ (k < i => thr_jbuf[k] = 0)
Resuming == pc = "resume" => blk < nblk /\ Rest
Running  == pc = "item" => /\ blk < nblk
                           /\ i = 0 => Ring
                           /\ i > 0 => item = i /\ Rest
Checking == pc = "check" => /\ blk < nblk /\ thr_runc = 0 /\ i = 0
                            /\ \A k \in Items : done[k] = nbar + 1
Idle == pc = "idle" => /\ thr_runc = 0
                       /\ \/ \A k \in Items : done[k] = 0
                          \/ \A k \in Items : done[k] = nbar + 1

WGInv == Types /\ Starting /\ Resuming /\ Running /\ Checking /\ Idle

(* The items have buffers. *)
LEMMA ItemsFit ==
  ASSUME Types
  PROVE  /\ nc \in Nat \ {0} /\ MaxItems \in Nat \ {0} /\ nc <= MaxItems
         /\ nbar \in Nat /\ MaxBarriers \in Nat /\ nbar <= MaxBarriers
         /\ blk \in Nat /\ nblk \in Nat /\ blk <= nblk /\ nblk <= MaxBlocks
         /\ i \in Nat /\ i < nc
         /\ \A k \in Items : k \in Buffers /\ k \in Nat /\ k < nc
BY BoundsAreNumbers DEF Types, Items, Buffers

(* Nothing runs before the first launch. *)
LEMMA WGInit == Init => WGInv
BY BoundsAreNumbers
   DEF Init, WGInv, Types, Items, Buffers, Starting, Resuming, Running,
       Checking, Idle

(* The items of any block fit the buffers. *)
LEMMA BlockFits ==
  ASSUME NEW n \in 1 .. MaxItems
  PROVE  /\ 0 \in 0 .. n - 1
         /\ \A k \in 0 .. n - 1 : k \in Buffers /\ ~(k < 0)
BY BoundsAreNumbers DEF Buffers

(* Launching starts a block whose items have run nothing. *)
LEMMA LaunchStep == WGInv /\ Launch => WGInv'
<1> SUFFICES ASSUME WGInv, Launch PROVE WGInv'
  OBVIOUS
<1>1. /\ nc' \in 1 .. MaxItems /\ nbar' \in 0 .. MaxBarriers
      /\ nblk' \in 0 .. MaxBlocks
      /\ blk' = 0 /\ i' = 0 /\ thr_runc' = 0
      /\ done' = [k \in Buffers |-> 0]
      /\ UNCHANGED <<item, thr_jbuf>>
  BY DEF Launch
<1>2. /\ pc' \in {"start", "idle"}
      /\ pc' = "start" => nblk' # 0
  BY DEF Launch
<1>3. Types'
  <2>1. i' \in Items'
    BY <1>1, BlockFits DEF Items
  <2>2. blk' \in 0 .. nblk'
    BY <1>1, BoundsAreNumbers
  <2>3. done' \in [Buffers -> 0 .. MaxBarriers + 1]
    BY <1>1, BoundsAreNumbers
  <2>4. QED BY <1>1, <1>2, <2>1, <2>2, <2>3 DEF WGInv, Types
<1>4. \A k \in Items' : done'[k] = 0 /\ ~(k < i')
  BY <1>1, BlockFits, Zenon DEF Items
<1>5. pc' = "start" => blk' < nblk'
  BY <1>1, <1>2, BoundsAreNumbers
<1>6. Starting' /\ Idle'
  BY <1>1, <1>4, <1>5 DEF Starting, Idle
<1>7. QED
  BY <1>2, <1>3, <1>6 DEF WGInv, Resuming, Running, Checking

(* The first loop sets every buffer to the beginning. *)
LEMMA StartStep == WGInv /\ StartItem => WGInv'
<1> SUFFICES ASSUME WGInv, StartItem PROVE WGInv'
  OBVIOUS
<1>1. Types /\ Starting /\ pc = "start"
  BY DEF WGInv, StartItem
<1>2. /\ thr_runc' = thr_runc + 1
      /\ thr_jbuf' = [thr_jbuf EXCEPT ![i] = 0]
      /\ UNCHANGED <<nc, nbar, nblk, blk, item, done>>
  BY DEF StartItem
<1>3. \/ i + 1 < nc /\ i' = i + 1 /\ pc' = "start"
      \/ i + 1 >= nc /\ i' = 0 /\ pc' = "resume"
  BY <1>1, ItemsFit DEF StartItem, NextIndex
<1>4. Types'
  <2>1. thr_jbuf' \in [Buffers -> -1 .. MaxBarriers]
    <3>1. 0 \in -1 .. MaxBarriers
      BY BoundsAreNumbers
    <3>2. thr_jbuf \in [Buffers -> -1 .. MaxBarriers]
      BY <1>1 DEF Types
    <3>3. QED BY <1>2, <3>1, <3>2
  <2>2. i' \in Items'
    BY <1>1, <1>2, <1>3, ItemsFit DEF Items
  <2>3. QED BY <1>1, <1>2, <1>3, <2>1, <2>2 DEF Types
<1>5. \A k \in Items : k <= i => thr_jbuf'[k] = 0
  BY <1>1, <1>2, ItemsFit DEF Types, Starting
<1>6. CASE i' = i + 1 /\ pc' = "start"
  <2>1. Starting'
    BY <1>1, <1>2, <1>5, <1>6, ItemsFit DEF Starting, Items
  <2>2. QED
    BY <1>4, <1>6, <2>1 DEF WGInv, Resuming, Running, Checking, Idle
<1>7. CASE i + 1 >= nc /\ i' = 0 /\ pc' = "resume"
  <2>1. thr_runc' = nc' /\ \A k \in Items : thr_jbuf'[k] = 0 /\ done'[k] = 0
    BY <1>1, <1>2, <1>5, <1>7, ItemsFit DEF Starting
  <2>2. Resuming'
    BY <1>1, <1>2, <1>7, <2>1, ItemsFit
       DEF Starting, Resuming, Rest, AllAt, Items
  <2>3. QED
    BY <1>4, <1>7, <2>2 DEF WGInv, Starting, Running, Checking, Idle
<1>8. QED BY <1>3, <1>6, <1>7

(* The second loop enters the ring at item 0, or finishes one item. *)
LEMMA ResumeStep == WGInv /\ ResumeItem => WGInv'
<1> SUFFICES ASSUME WGInv, ResumeItem PROVE WGInv'
  OBVIOUS
<1> USE DEF ResumeItem
<1>1. Types /\ Resuming
  BY DEF WGInv
<1>2. Types'
  BY <1>1, ItemsFit DEF Types, Items, Buffers
<1>3. Running'
  <2>1. CASE i = 0
    <3>1. AllAt(0) /\ thr_runc = nc /\ 0 \in Items
      BY <1>1, <2>1, ItemsFit DEF Resuming, Rest, Items
    <3>2. Ring'
      BY <1>1, <2>1, <3>1, ItemsFit DEF Ring, AllAt, Items
    <3>3. QED BY <1>1, <2>1, <3>2 DEF Running, Resuming
  <2>2. CASE i > 0
    BY <1>1, <2>2 DEF Running, Resuming, Rest, Items
  <2>3. QED BY <1>1, <2>1, <2>2, ItemsFit
<1>4. QED
  BY <1>2, <1>3 DEF WGInv, Starting, Resuming, Checking, Idle

(* A barrier passes the turn round the ring. *)
LEMMA BarrierStep == WGInv /\ Barrier => WGInv'
<1> SUFFICES ASSUME WGInv, Barrier PROVE WGInv'
  OBVIOUS
<1> USE DEF Barrier
<1>1. Types /\ Running /\ pc = "item" /\ pc' = "item"
  BY DEF WGInv
<1>2. i = 0 /\ Ring
  BY <1>1, ItemsFit DEF Running, Rest, Items
<1>3. /\ item \in Items /\ item \in Nat /\ item \in Buffers
      /\ thr_jbuf[item] \in Nat /\ thr_jbuf[item] < nbar
  BY <1>1, <1>2, ItemsFit DEF Ring
<1>4. NextItem(item) \in Items
  BY <1>1, <1>3, ItemsFit DEF NextItem, Items
<1>5. Types'
  <2>1. done[item] = thr_jbuf[item]
    BY <1>2, <1>3 DEF Ring
  <2>2. QED BY <1>1, <1>3, <1>4, <2>1, ItemsFit DEF Types, Items
<1>6. Ring'
  <2>1. \A k \in Items :
          /\ thr_jbuf'[k] = IF k = item THEN thr_jbuf[item] + 1 ELSE thr_jbuf[k]
          /\ done'[k] = IF k = item THEN done[item] + 1 ELSE done[k]
    BY <1>1, <1>3, ItemsFit DEF Types
  <2>2. \A k \in Items :
          thr_jbuf'[k] = IF k <= item THEN thr_jbuf[item] + 1 ELSE thr_jbuf[item]
    BY <1>2, <1>3, <2>1, ItemsFit DEF Ring
  <2>3. \A k \in Items : done'[k] = thr_jbuf'[k] /\ thr_jbuf'[k] <= nbar
    BY <1>1, <1>2, <1>3, <2>1, <2>2 DEF Ring, Types
  <2>4. CASE item + 1 = nc
    <3>1. item' = 0 /\ 0 \in Items /\ \A k \in Items : k <= item /\ ~(k < 0)
      BY <1>1, <1>3, <2>4, ItemsFit DEF NextItem, Items
    <3>2. QED
      BY <1>2, <1>3, <2>2, <2>3, <3>1, ItemsFit DEF Ring, Items
  <2>5. CASE item + 1 # nc
    <3>1. item' = item + 1 /\ item + 1 \in Items /\ item' \in Nat
      BY <1>1, <1>3, <2>5, ItemsFit DEF NextItem, Items
    <3>2. /\ thr_jbuf'[item'] = thr_jbuf[item]
          /\ \A k \in Items : k < item' <=> k <= item
      BY <1>3, <2>2, <3>1, ItemsFit
    <3>3. QED
      BY <1>2, <1>3, <2>2, <2>3, <3>1, <3>2 DEF Ring, Items
  <2>6. QED BY <2>4, <2>5
<1>7. QED
  BY <1>1, <1>2, <1>5, <1>6
     DEF WGInv, Starting, Resuming, Running, Checking, Idle

(* Item 0 returns first and finds the others before their last segment. *)
LEMMA ReturnStep == WGInv /\ Return => WGInv'
<1> SUFFICES ASSUME WGInv, Return PROVE WGInv'
  OBVIOUS
<1> USE DEF Return
<1>1. Types /\ Running
  BY DEF WGInv
<1>2. item = i /\ thr_runc = nc - i /\ i \in Items /\ blk < nblk
  <2>1. CASE i = 0
    <3>1. Ring /\ 0 \in Items
      BY <1>1, <2>1, ItemsFit DEF Running, Items
    <3>2. item = 0
      BY <1>1, <3>1, ItemsFit DEF Ring
    <3>3. QED BY <1>1, <2>1, <3>1, <3>2, ItemsFit DEF Ring, Running
  <2>2. CASE i > 0
    BY <1>1, <2>2 DEF Running, Rest, Types
  <2>3. QED BY <1>1, <2>1, <2>2, ItemsFit
<1>3. \A k \in Items : /\ thr_jbuf[k] = nbar
                       /\ done[k] = IF k < i THEN nbar + 1 ELSE nbar
  <2>1. CASE i = 0
    BY <1>1, <1>2, <2>1, ItemsFit DEF Running, Ring
  <2>2. CASE i > 0
    BY <1>1, <2>2 DEF Running, Rest
  <2>3. QED BY <1>1, <2>1, <2>2, ItemsFit
<1>4. \A k \in Items : done'[k] = IF k <= i THEN nbar + 1 ELSE nbar
  BY <1>1, <1>2, <1>3, ItemsFit DEF Types
<1>5. Types'
  <2>1. done[item] = nbar
    BY <1>1, <1>2, <1>3, ItemsFit
  <2>2. QED BY <1>1, <1>2, <2>1, ItemsFit DEF Types, Items
<1>6. CASE i + 1 < nc
  <2>1. Rest' /\ pc' = "resume"
    BY <1>1, <1>2, <1>3, <1>4, <1>6, ItemsFit DEF Rest, Items
  <2>2. QED
    BY <1>2, <1>5, <2>1 DEF WGInv, Starting, Resuming, Running, Checking, Idle
<1>7. CASE ~(i + 1 < nc)
  <2>1. thr_runc' = 0 /\ pc' = "check" /\ \A k \in Items : done'[k] = nbar + 1
    BY <1>1, <1>2, <1>4, <1>7, ItemsFit
  <2>2. QED
    BY <1>2, <1>5, <2>1
       DEF WGInv, Starting, Resuming, Running, Checking, Idle, Items
<1>8. QED BY <1>6, <1>7

(* A finished block has no item left. *)
LEMMA EndStep == WGInv /\ EndBlock => WGInv'
<1> SUFFICES ASSUME WGInv, EndBlock PROVE WGInv'
  OBVIOUS
<1> USE DEF EndBlock
<1>1. /\ Types /\ thr_runc = 0 /\ blk < nblk
      /\ i = 0 /\ \A k \in Items : done[k] = nbar + 1
  BY DEF WGInv, Checking
<1>2. Types'
  BY <1>1, ItemsFit DEF Types, Items, Buffers
<1>3. CASE blk + 1 < nblk
  <2>1. blk' < nblk' /\ thr_runc' = 0 /\ i \in Nat /\ i' = i /\ pc' = "start"
    BY <1>1, <1>3, ItemsFit
  <2>2. QED
    BY <1>1, <1>2, <1>3, <2>1, ItemsFit
       DEF WGInv, Starting, Resuming, Running, Checking, Idle, Items
<1>4. CASE ~(blk + 1 < nblk)
  BY <1>1, <1>2, <1>4
     DEF WGInv, Starting, Resuming, Running, Checking, Idle, Items
<1>5. QED BY <1>3, <1>4

(* The invariant is inductive. *)
LEMMA WGNext == WGInv /\ [Next]_vars => WGInv'
<1>1. WGInv /\ UNCHANGED vars => WGInv'
  BY DEF vars, WGInv, Types, Starting, Resuming, Running, Checking, Idle,
         Items, Rest, Ring, AllAt
<1>2. QED
  BY <1>1, LaunchStep, StartStep, ResumeStep, BarrierStep, ReturnStep,
     EndStep DEF Next, EngineStep

(* The inductive invariant of the engine's block loop. *)
THEOREM WorkGroupInductive == Spec => []WGInv
BY WGInit, WGNext, PTL DEF Spec

(* The variables keep their types: no longjmp takes an unset buffer and    *)
(* the engine never reaches exit(-1).                                      *)
THEOREM WorkGroupTypes == Spec => []TypeOK
<1>1. WGInv => TypeOK
  BY BoundsAreNumbers
     DEF WGInv, Types, Starting, Resuming, Running, Checking, Idle, Items,
         Buffers, Rest, Ring, AllAt, TypeOK
<1>2. QED BY WorkGroupInductive, <1>1, PTL

(* For every kernel and block size a barrier is passed by nobody before    *)
(* all items of the block have reached it.                                 *)
THEOREM BarriersSeparate == Spec => []BarrierSeparates
<1>1. WGInv => BarrierSeparates
  <2> SUFFICES ASSUME WGInv PROVE BarrierSeparates
    OBVIOUS
  <2> USE DEF WGInv, BarrierSeparates
  <2>1. Types
    OBVIOUS
  <2>2. CASE pc \in {"start", "check", "idle"}
    BY <2>1, <2>2, ItemsFit DEF Starting, Checking, Idle
  <2>3. CASE pc = "resume"
    BY <2>1, <2>3, ItemsFit DEF Resuming, Rest, AllAt
  <2>4. CASE pc = "item" /\ i > 0
    BY <2>1, <2>4, ItemsFit DEF Running, Rest
  <2>5. CASE pc = "item" /\ i = 0
    BY <2>1, <2>5, ItemsFit DEF Running, Ring
  <2>6. QED
    BY <2>1, <2>2, <2>3, <2>4, <2>5, ItemsFit DEF Types
<1>2. QED BY WorkGroupInductive, <1>1, PTL

(* Every item resumes at the first segment it has not run. *)
THEOREM SegmentsRunInOrder == Spec => []SegmentsInOrder
<1>1. WGInv => SegmentsInOrder
  BY BoundsAreNumbers
     DEF WGInv, Types, Starting, Resuming, Running, Checking, Idle, Items,
         Buffers, Rest, Ring, AllAt, SegmentsInOrder
<1>2. QED BY WorkGroupInductive, <1>1, PTL

(* Every finished block has run every segment of every item once. *)
THEOREM BlocksRunWhole == Spec => []BlockRunsWhole
<1>1. WGInv => BlockRunsWhole
  BY DEF WGInv, Checking, BlockRunsWhole
<1>2. QED BY WorkGroupInductive, <1>1, PTL
=============================================================================
