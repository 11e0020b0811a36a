------------------------------- MODULE WorkGroup -------------------------------
(***************************************************************************)
(* How one x86_64 engine runs the work-items of its blocks as coroutines   *)
(* on private stacks (the block loop of sl_engine.c, with the wrapper that *)
(* xclnm.c generates around a kernel and the barrier macro of sl_engine.h).*)
(*                                                                         *)
(* For every block the engine calls each item once, which only records     *)
(* where to begin, and then longjmps to each item in turn.  A barrier      *)
(* records where to resume and longjmps to the next item of the ring; the  *)
(* end of the kernel longjmps to the engine.                               *)
(*                                                                         *)
(* A kernel is what OpenCL allows: every item meets the same barriers.  It *)
(* is then nbar + 1 segments, and a jump buffer is the segment to resume.  *)
(***************************************************************************)
EXTENDS Integers

CONSTANTS
  MaxItems,     \* MAX_NUM_THR, the size of the stacks and jump buffers
  MaxBarriers,  \* bound: barriers in a kernel
  MaxBlocks     \* bound: blocks in the engine's entry

ASSUME BoundsAreNumbers ==
  MaxItems \in Nat \ {0} /\ MaxBarriers \in Nat /\ MaxBlocks \in Nat

VARIABLES
  nc, nbar, nblk,  \* items in a block, barriers in the kernel, blocks to run
  blk,             \* blocks finished
  pc,              \* the loop of the engine, or "item": an item is running
  i,               \* the index of that loop
  item,            \* the item that runs
  thr_jbuf,        \* thr_jbuf[k]: the segment item k resumes; -1: never set
  thr_runc,        \* items that have been started and have not returned
  done             \* history: done[k], segments item k has run in this block

vars == <<nc, nbar, nblk, blk, pc, i, item, thr_jbuf, thr_runc, done>>

Buffers == 0 .. MaxItems - 1
Items   == 0 .. nc - 1

Init ==
  /\ nc = 1 /\ nbar = 0 /\ nblk = 0
  /\ blk = 0 /\ pc = "idle" /\ i = 0 /\ item = 0
  /\ thr_jbuf = [k \in Buffers |-> -1]
  /\ thr_runc = 0
  /\ done = [k \in Buffers |-> 0]

-----------------------------------------------------------------------------
(* A loop of the engine over its items, and where it goes after the last.  *)
NextIndex(after) ==
  IF i + 1 < nc THEN i' = i + 1 /\ pc' = pc ELSE i' = 0 /\ pc' = after

(* A launch, of any kernel on any entry.  The jump buffers are those of    *)
(* the launches before it.                                                 *)
Launch ==
  /\ pc = "idle"
  /\ nc' \in 1 .. MaxItems /\ nbar' \in 0 .. MaxBarriers
  /\ nblk' \in 0 .. MaxBlocks
  /\ thr_runc' = 0 /\ blk' = 0 /\ i' = 0
  /\ IF nblk' = 0 THEN pc' = "idle" ELSE pc' = "start"
  /\ done' = [k \in Buffers |-> 0]
  /\ UNCHANGED <<item, thr_jbuf>>

(* First loop: setjmp for the engine, call the wrapper on the item's own   *)
(* stack; it counts itself, records its beginning and jumps back.          *)
StartItem ==
  /\ pc = "start"
  /\ thr_runc' = thr_runc + 1
  /\ thr_jbuf' = [thr_jbuf EXCEPT ![i] = 0]
  /\ NextIndex("resume")
  /\ UNCHANGED <<nc, nbar, nblk, blk, item, done>>

(* Second loop: setjmp for the engine, longjmp to the item. *)
ResumeItem ==
  /\ pc = "resume"
  /\ pc' = "item" /\ item' = i
  /\ UNCHANGED <<nc, nbar, nblk, blk, i, thr_jbuf, thr_runc, done>>

(* The ring of next_jbufp, (k+1)%nc; the slip closes it an item early.     *)
NextItemShort(k) == IF k + 1 >= nc - 1 THEN 0 ELSE k + 1

NextItem(k) == IF k + 1 = nc THEN 0 ELSE k + 1

(* An item runs a segment up to a barrier and jumps to the next item; the  *)
(* slip leaves its own buffer as it was.                                   *)
BarrierUnsaved ==
  /\ pc = "item" /\ thr_jbuf[item] < nbar
  /\ done' = [done EXCEPT ![item] = @ + 1]
  /\ item' = NextItem(item)
  /\ UNCHANGED <<nc, nbar, nblk, blk, pc, i, thr_jbuf, thr_runc>>

Barrier ==
  /\ pc = "item" /\ thr_jbuf[item] < nbar
  /\ done' = [done EXCEPT ![item] = @ + 1]
  /\ thr_jbuf' = [thr_jbuf EXCEPT ![item] = @ + 1]
  /\ item' = NextItem(item)
  /\ UNCHANGED <<nc, nbar, nblk, blk, pc, i, thr_runc>>

(* The slip starts the second loop over instead of going on.               *)
ReturnAgain ==
  /\ pc = "item" /\ thr_jbuf[item] = nbar
  /\ done' = [done EXCEPT ![item] = @ + 1]
  /\ thr_runc' = thr_runc - 1
  /\ i' = 0 /\ pc' = IF thr_runc' = 0 THEN "check" ELSE "resume"
  /\ UNCHANGED <<nc, nbar, nblk, blk, item, thr_jbuf>>

(* The slip ends the loop one item early.                                  *)
ReturnEarly ==
  /\ pc = "item" /\ thr_jbuf[item] = nbar
  /\ done' = [done EXCEPT ![item] = @ + 1]
  /\ thr_runc' = thr_runc - 1
  /\ IF i + 2 < nc THEN i' = i + 1 /\ pc' = "resume"
                   ELSE i' = 0 /\ pc' = "check"
  /\ UNCHANGED <<nc, nbar, nblk, blk, item, thr_jbuf>>

(* The last segment: the wrapper counts the item off and jumps to the      *)
(* engine, which goes on with its loop.                                    *)
Return ==
  /\ pc = "item" /\ thr_jbuf[item] = nbar
  /\ done' = [done EXCEPT ![item] = @ + 1]
  /\ thr_runc' = thr_runc - 1
  /\ IF i + 1 < nc THEN i' = i + 1 /\ pc' = "resume"
                   ELSE i' = 0 /\ pc' = "check"
  /\ UNCHANGED <<nc, nbar, nblk, blk, item, thr_jbuf>>

(* The slip does not count the block.                                      *)
EndBlockUncounted ==
  /\ pc = "check"
  /\ IF thr_runc # 0
     THEN pc' = "exit" /\ UNCHANGED done
     ELSE pc' = "start" /\ done' = [k \in Buffers |-> 0]
  /\ UNCHANGED <<nc, nbar, nblk, blk, i, item, thr_jbuf, thr_runc>>

(* After a block: exit(-1) if an item is left, otherwise the next block.   *)
EndBlock ==
  /\ pc = "check"
  /\ IF thr_runc # 0
     THEN pc' = "exit" /\ UNCHANGED <<blk, done>>
     ELSE /\ blk' = blk + 1
          /\ pc' = IF blk + 1 < nblk THEN "start" ELSE "idle"
          /\ done' = IF blk + 1 < nblk THEN [k \in Buffers |-> 0] ELSE done
  /\ UNCHANGED <<nc, nbar, nblk, i, item, thr_jbuf, thr_runc>>

EngineStep == StartItem \/ ResumeItem \/ Barrier \/ Return \/ EndBlock

Next == Launch \/ EngineStep

Spec == Init /\ [][Next]_vars

(* The engine's thread runs as long as it has work. *)
FairSpec == Spec /\ WF_vars(EngineStep)

-----------------------------------------------------------------------------
(* Every variable keeps its type; a running item has a segment to run, so  *)
(* no longjmp takes a buffer that was never set.                           *)
TypeOK ==
  /\ nc \in 1 .. MaxItems /\ nbar \in 0 .. MaxBarriers
  /\ nblk \in 0 .. MaxBlocks /\ blk \in 0 .. nblk
  /\ pc \in {"idle", "start", "resume", "item", "check"}
  /\ i \in Items /\ item \in Buffers
  /\ thr_jbuf \in [Buffers -> -1 .. MaxBarriers]
  /\ thr_runc \in 0 .. nc
  /\ done \in [Buffers -> 0 .. MaxBarriers + 1]
  /\ pc = "item" => thr_jbuf[item] \in 0 .. nbar

(* A barrier is one: no item of a block is more than a segment ahead of    *)
(* another, so nobody leaves a barrier before all have reached it.         *)
BarrierSeparates == \A j, k \in Items : done[j] <= done[k] + 1

(* An item resumes exactly where it stopped: the segment it is about to    *)
(* run is the first it has not run in this block.                          *)
SegmentsInOrder == pc = "item" => thr_jbuf[item] = done[item]

(* When the engine takes the block for finished every item has run every   *)
(* segment, and the count that would end the program is zero.              *)
BlockRunsWhole ==
  pc = "check" => thr_runc = 0 /\ \A k \in Items : done[k] = nbar + 1

(* A launch ends: the jumps between items do not go round for ever.        *)
LaunchEnds == pc = "start" ~> pc = "idle"
=============================================================================
