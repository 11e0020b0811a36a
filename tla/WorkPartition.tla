---------------------------- MODULE WorkPartition ----------------------------
(***************************************************************************)
(* How an NDRange becomes work for the x86_64 engines: exec_ndrange_kernel *)
(* turns the request into blocks (devcmds_x86_64.c), workp_genpart cuts    *)
(* dimension 0 of the blocks into one run per engine (workp.h), and every  *)
(* engine enumerates the work-items of its blocks (sl_engine.c).           *)
(***************************************************************************)
EXTENDS Integers, Sequences, FiniteSets, Functions

CONSTANTS
  Engines,   \* the numbers of engines (nve) to partition for
  Requests   \* NDRanges: [gsz, lsz], each a sequence over the dimensions

ASSUME EnginesArePositive == Engines \subseteq Nat \ {0}
ASSUME RequestsAreRanges ==
  \A r \in Requests :
    /\ r.gsz \in Seq(Nat) /\ r.lsz \in Seq(Nat)
    /\ Len(r.gsz) \in 1..3 /\ Len(r.lsz) = Len(r.gsz)

VARIABLES
  nve,    \* wp->n
  req,    \* e0, the request
  part,   \* the entries filled in so far: blocks [first, end) of dimension 0
  done,   \* whether workp_genpart has returned
  used    \* ... and what

vars == <<nve, req, part, done, used>>

-----------------------------------------------------------------------------
(* Dimension 0 of the code is dimension 1 here.                            *)
(* safe_div: the blocks of dimension d; a remainder is dropped.            *)
Blocks(r, d) == IF r.lsz[d] = 0 THEN 0 ELSE r.gsz[d] \div r.lsz[d]

Least(a, b) == IF a < b THEN a ELSE b

(* ndp_blk_end[0] of entry i when delta blocks go to n engines: the first  *)
(* beta = delta % n entries get one block more than the others.  The slips *)
(* forget the rest, or give all of it to the last entry.                   *)
BlkEndNoRest(n, delta, i) == (delta \div n) * (i + 1)
BlkEndRestLast(n, delta, i) ==
  IF i = n - 1 THEN delta ELSE (delta \div n) * (i + 1)
BlkEnd(n, delta, i) ==
  (delta \div n) * (i + 1) + Least(i + 1, delta % n)

(* ndp_blk_first[0]: where the previous entry ends.                        *)
BlkFirst(prev) ==
  IF prev = <<>> THEN 0 ELSE prev[Len(prev)].end

(* The value returned: the entries that have work; the slip counts blocks. *)
UsedBlocks(n, delta) == delta
Used(n, delta) == IF delta \div n = 0 THEN delta % n ELSE n

-----------------------------------------------------------------------------
Init ==
  /\ nve \in Engines /\ req \in Requests
  /\ part = <<>> /\ done = FALSE /\ used = 0

(* one turn of the loop: entry i = Len(part) *)
Fill ==
  /\ ~done /\ Len(part) < nve
  /\ part' = Append(part,
       [first |-> BlkFirst(part),
        end   |-> BlkEnd(nve, Blocks(req, 1), Len(part))])
  /\ UNCHANGED <<nve, req, done, used>>

Return ==
  /\ ~done /\ Len(part) = nve
  /\ done' = TRUE /\ used' = Used(nve, Blocks(req, 1))
  /\ UNCHANGED <<nve, req, part>>

Next == Fill \/ Return

Spec == Init /\ [][Next]_vars

-----------------------------------------------------------------------------
(* The work-items an engine runs: nc = ltdsz[0] * ... coroutines a block,  *)
(* coroutine t being the work-item whose local ids are t decoded with      *)
(* the first dimension running fastest; the slip takes the radix of the    *)
(* next dimension.                                                         *)
ProductOver(f, D) == FoldFunctionOnSet(LAMBDA a, b : a * b, 1, f, D)

StrideNext(r, d) == ProductOver(r.lsz, 2 .. d)
Stride(r, d)     == ProductOver(r.lsz, 1 .. d - 1)

Dims(r)       == 1 .. Len(r.lsz)
Coroutines(r) == 0 .. ProductOver(r.lsz, Dims(r)) - 1

LocalId(r, t, d) == (t \div Stride(r, d)) % r.lsz[d]

(* The block loops: dimension 0 over the entry, the others over all.       *)
EntryBlocks(r, e) ==
  {blk \in [Dims(r) -> UNION {0 .. Blocks(r, d) - 1 : d \in Dims(r)}] :
     /\ blk[1] >= e.first /\ blk[1] < e.end
     /\ \A d \in Dims(r) \ {1} : blk[d] < Blocks(r, d)}

GlobalId(r, blk, t) ==
  [d \in Dims(r) |-> blk[d] * r.lsz[d] + LocalId(r, t, d)]

WorkItems(r, p) ==
  UNION {{<<e, blk, t>> : blk \in EntryBlocks(r, p[e]), t \in Coroutines(r)}
           : e \in DOMAIN p}

(* The work-items of whole work-groups: all of an NDRange that the local   *)
(* size divides, nothing of the rest otherwise.                            *)
WholeGroups(r) ==
  {g \in [Dims(r) -> UNION {0 .. r.gsz[d] - 1 : d \in Dims(r)}] :
     \A d \in Dims(r) : g[d] < Blocks(r, d) * r.lsz[d]}

-----------------------------------------------------------------------------
(* The entries are runs of blocks in order, and the loop has filled in one *)
(* per turn; only a finished loop has a result.                            *)
TypeOK ==
  /\ nve \in Engines /\ req \in Requests
  /\ part \in Seq([first : Nat, end : Nat]) /\ Len(part) <= nve
  /\ done \in BOOLEAN /\ used \in 0 .. nve
  /\ done => Len(part) = nve

(* Every block of dimension 0 is in the run of exactly one engine: none is *)
(* dropped at a boundary and none is run twice.                            *)
Tiles ==
  done => \A b \in 0 .. Blocks(req, 1) - 1 :
            \E e \in 1 .. nve :
              /\ part[e].first <= b /\ b < part[e].end
              /\ \A f \in 1 .. nve :
                   part[f].first <= b /\ b < part[f].end => f = e

(* No engine is given a block that does not exist, and no engine has two   *)
(* blocks more than another.                                               *)
Balanced ==
  done => \A e, f \in 1 .. nve :
            /\ part[e].end <= Blocks(req, 1)
            /\ part[e].end - part[e].first
                 <= part[f].end - part[f].first + 1

(* The result counts the engines with work, and those come first: this is  *)
(* what lets a caller launch on a prefix of the engines.                   *)
UsedCountsBusy ==
  done => \A e \in 1 .. nve : e <= used <=> part[e].first < part[e].end

(* The engines between them run every work-item of the whole work-groups   *)
(* exactly once, with its own global id, and no other: coprthr_dexec, which *)
(* asks for groups of 16 (event.c 758), never runs the threads beyond the  *)
(* last full group, although "the argument `nthr` specifies the number of   *)
(* threads over which the kernel should be executed" (coprthr_api_ref.txt   *)
(* 307).                                                                   *)
EveryItemOnce ==
  done => LET items == WorkItems(req, part) IN
          /\ {GlobalId(req, i[2], i[3]) : i \in items} = WholeGroups(req)
          /\ Cardinality(items) = Cardinality(WholeGroups(req))
=============================================================================
