----------------------------- MODULE DeviceTable -------------------------------
(***************************************************************************)
(* The devices of a process: descriptors (coprthr_dopen, coprthr_dclose),  *)
(* the one command queue of a device, which coprthr_dopen, coprthr_devget  *)
(* and clCreateCommandQueue create and clReleaseCommandQueue frees for     *)
(* everybody, and the events its list of completed commands refers to.     *)
(*                                                                         *)
(* None of these calls takes a lock, so a call is split where another      *)
(* thread can see what it did; what happens in a queue that runs is        *)
(* CommandQueue's, here commands only come and complete in order.          *)
(***************************************************************************)
EXTENDS Integers, Sequences

CONSTANTS
  Thread,    \* host threads
  Device,    \* __devtab
  Handle,    \* OpenCL command queues the program makes, each at most once
  NSlot,     \* size of __ddtab, 256
  MaxQueue,  \* bound: struct coprthr_command_queue allocated
  MaxEvent,  \* bound: commands enqueued
  Null

ASSUME SizesAreNatural == {NSlot, MaxQueue, MaxEvent} \subseteq Nat
ASSUME NullIsNoDevice  == Null \notin Device
ASSUME HandlesAreNames == Handle \cap {"none", "open", "get", "close", "release"} = {}

VARIABLES
  ddtab,   \* __ddtab
  nxt,     \* __ddtab_nxt
  cmdq,    \* cmdq[d]: devstate->cmdq, a queue or NoQueue
  made,    \* queues allocated so far, numbered from 1
  qst,     \* qst[q]: "none", "raw", "running", "ended" or "freed"
  fifo,    \* fifo[q]: commands queued
  list,    \* list[q]: cmds_complete
  nev,     \* commands enqueued so far
  freed,   \* events of threads that were joined
  pc,      \* pc[t]: the call t is in
  loc,     \* loc[t]: its locals
  mine,    \* open descriptors, each with the device it was opened for
  got,     \* devices whose pointer the program has (coprthr_devget)
  clq,     \* clq[h]: device and reference count of an OpenCL queue
  raced,   \* history: two threads were in such calls at once
  shared,  \* history: a queue was released that others also used
  bad      \* "no", or what was used that is not there

vars == <<ddtab, nxt, cmdq, made, qst, fifo, list, nev, freed, pc, loc, mine,
          got, clq, raced, shared, bad>>

table  == <<ddtab, nxt>>
queues == <<cmdq, made, qst, fifo, list>>
cmds   == <<nev, freed>>
held   == <<mine, got, clq>>

Slots   == 0 .. NSlot - 1
Queues  == 1 .. MaxQueue
Event   == 1 .. MaxEvent
NoQueue == 0
MaxRef  == 2      \* bound: references to an OpenCL queue
NoLocals == [dd |-> 0, dev |-> Null, at |-> Null, by |-> "none", q |-> NoQueue]

Init ==
  /\ ddtab = [s \in Slots |-> Null] /\ nxt = 0
  /\ cmdq = [d \in Device |-> NoQueue] /\ made = 0
  /\ qst = [q \in Queues |-> "none"]
  /\ fifo = [q \in Queues |-> <<>>] /\ list = [q \in Queues |-> <<>>]
  /\ nev = 0 /\ freed = {}
  /\ pc = [t \in Thread |-> "idle"] /\ loc = [t \in Thread |-> NoLocals]
  /\ mine = {} /\ got = {}
  /\ clq = [h \in Handle |-> [dev |-> Null, refc |-> 0]]
  /\ raced = FALSE /\ shared = FALSE /\ bad = "no"

-----------------------------------------------------------------------------
(* A call begins; whether another is under way is remembered.              *)
Begin(t, l, s) ==
  /\ bad = "no" /\ pc[t] = "idle"
  /\ pc' = [pc EXCEPT ![t] = s]
  /\ loc' = [loc EXCEPT ![t] = l]
  /\ raced' = (raced \/ \E u \in Thread : pc[u] # "idle")

At(t, s)   == bad = "no" /\ pc[t] = s
Goto(t, s) == pc' = [pc EXCEPT ![t] = s]

(* The call returns; what it made is the program's.                        *)
Return(t) ==
  LET l == loc[t] IN
  /\ pc' = [pc EXCEPT ![t] = "idle"]
  /\ loc' = [loc EXCEPT ![t] = NoLocals]
  /\ mine' = IF l.by = "open" THEN mine \cup {<<l.dd, l.dev>>} ELSE mine
  /\ got' = IF l.by = "get" THEN got \cup {l.dev} ELSE got
  /\ clq' = IF l.by \in Handle THEN [clq EXCEPT ![l.by] = [dev |-> l.dev, refc |-> 1]]
            ELSE clq

(* coprthr_dopen: a full table is refused.                                 *)
DOpen(t, d) ==
  /\ nxt # NSlot
  /\ Begin(t, [NoLocals EXCEPT !.dev = d, !.by = "open"], "slot")
  /\ UNCHANGED <<table, queues, cmds, held, shared, bad>>

DevGet(t, d) ==
  /\ Begin(t, [NoLocals EXCEPT !.dev = d, !.by = "get"], "test")
  /\ UNCHANGED <<table, queues, cmds, held, shared, bad>>

CreateCommandQueue(t, h, d) ==
  /\ clq[h].dev = Null /\ \A u \in Thread : loc[u].by # h
  /\ Begin(t, [NoLocals EXCEPT !.dev = d, !.by = h], "test")
  /\ UNCHANGED <<table, queues, cmds, held, shared, bad>>

(* __ddtab[__ddtab_nxt] = ...; only a second thread can have used up the   *)
(* table since it was looked at.                                           *)
Fill(t) ==
  /\ At(t, "slot")
  /\ \/ /\ nxt \in Slots
        /\ ddtab' = [ddtab EXCEPT ![nxt] = loc[t].dev]
        /\ UNCHANGED bad
     \/ nxt \notin Slots /\ bad' = "table" /\ UNCHANGED ddtab
  /\ Goto(t, "take")
  /\ UNCHANGED <<nxt, queues, cmds, held, loc, raced, shared>>

Take(t) ==
  /\ At(t, "take")
  /\ loc' = [loc EXCEPT ![t].dd = nxt]
  /\ Goto(t, "advance")
  /\ UNCHANGED <<table, queues, cmds, held, raced, shared, bad>>

(* Slip of Advance: the slots above are not looked at.                     *)
AdvanceOnce(t) ==
  /\ At(t, "advance")
  /\ nxt' = nxt + 1
  /\ Goto(t, "test")
  /\ UNCHANGED <<ddtab, queues, cmds, held, loc, raced, shared, bad>>

(* One turn of the loop that looks for the next free slot.                 *)
Advance(t) ==
  /\ At(t, "advance")
  /\ nxt' = nxt + 1
  /\ Goto(t, IF nxt' \in Slots /\ ddtab[nxt'] # Null THEN "advance" ELSE "test")
  /\ UNCHANGED <<ddtab, queues, cmds, held, loc, raced, shared, bad>>

-----------------------------------------------------------------------------
(* __do_create_command_queue_1: a queue that is there is used.             *)
(* coprthr_dopen passes on what its slot holds by now: after a race another *)
(* device, none, or what lies behind the table.                            *)
Test(t) ==
  LET l == loc[t]
      d == IF l.by # "open" THEN l.dev ELSE IF l.dd \in Slots THEN ddtab[l.dd] ELSE Null
  IN
  /\ At(t, "test")
  /\ \/ /\ d = Null /\ bad' = "table"
        /\ UNCHANGED <<pc, loc, held>>
     \/ /\ d # Null /\ cmdq[d] # NoQueue
        /\ Return(t) /\ UNCHANGED bad
     \/ /\ d # Null /\ cmdq[d] = NoQueue /\ made < MaxQueue
        /\ loc' = [loc EXCEPT ![t].at = d]
        /\ Goto(t, "publish")
        /\ UNCHANGED <<held, bad>>
  /\ UNCHANGED <<table, queues, cmds, raced, shared>>

(* devstate->cmdq is set before the queue is initialised.                  *)
Publish(t) ==
  /\ At(t, "publish") /\ made < MaxQueue
  /\ made' = made + 1
  /\ cmdq' = [cmdq EXCEPT ![loc[t].at] = made + 1]
  /\ qst' = [qst EXCEPT ![made + 1] = "raw"]
  /\ loc' = [loc EXCEPT ![t].q = made + 1]
  /\ Goto(t, "start")
  /\ UNCHANGED <<table, fifo, list, cmds, held, raced, shared, bad>>

(* __coprthr_init_command_queue, pthread_create and qstat = 1, on the      *)
(* queue this call allocated.  (Its scheduler reads devstate->cmdq anew:   *)
(* after a race it may serve the queue another thread published.)          *)
Start(t) ==
  /\ At(t, "start")
  /\ qst' = [qst EXCEPT ![loc[t].q] = "running"]
  /\ Return(t)
  /\ UNCHANGED <<table, cmdq, made, fifo, list, cmds, raced, shared, bad>>

-----------------------------------------------------------------------------
(* coprthr_dclose; the program closes a descriptor it opened.              *)
DClose(t) ==
  \E m \in mine :
    /\ Begin(t, [NoLocals EXCEPT !.dd = m[1], !.by = "close"], "reset")
    /\ mine' = mine \ {m}
    /\ ddtab' = [ddtab EXCEPT ![m[1]] = Null]
    /\ UNCHANGED <<nxt, queues, cmds, got, clq, shared, bad>>

(* Slips of Reset: the next slot is the one below; it is taken back to any *)
(* slot that was closed.                                                   *)
ResetBelow(t) ==
  /\ At(t, "reset")
  /\ nxt' = IF loc[t].dd <= nxt THEN loc[t].dd - 1 ELSE nxt
  /\ Return(t)
  /\ UNCHANGED <<ddtab, queues, cmds, raced, shared, bad>>

ResetAlways(t) ==
  /\ At(t, "reset")
  /\ nxt' = loc[t].dd
  /\ Return(t)
  /\ UNCHANGED <<ddtab, queues, cmds, raced, shared, bad>>

Reset(t) ==
  /\ At(t, "reset")
  /\ nxt' = IF loc[t].dd < nxt THEN loc[t].dd ELSE nxt
  /\ Return(t)
  /\ UNCHANGED <<ddtab, queues, cmds, raced, shared, bad>>

-----------------------------------------------------------------------------
(* clRetainCommandQueue, clReleaseCommandQueue: neither takes a lock; one  *)
(* step each.  The last reference releases the queue of the device.        *)
RetainCommandQueue(h) ==
  /\ bad = "no"
  /\ clq[h].refc \in 1 .. MaxRef - 1
  /\ clq' = [clq EXCEPT ![h].refc = @ + 1]
  /\ UNCHANGED <<table, queues, cmds, pc, loc, mine, got, raced, shared, bad>>

(* Who else the queue of h's device serves.                                *)
Shares(h) ==
  \/ clq[h].dev \in got
  \/ \E m \in mine : m[2] = clq[h].dev
  \/ \E g \in Handle \ {h} : clq[g].dev = clq[h].dev /\ clq[g].refc > 0

(* Slip of Release: every reference that is given back ends the queue.     *)
ReleaseEach(t, h) ==
  /\ clq[h].refc > 0
  /\ clq' = [clq EXCEPT ![h].refc = @ - 1]
  /\ Begin(t, [NoLocals EXCEPT !.dev = clq[h].dev, !.by = "release"], "stop")
  /\ shared' = (shared \/ Shares(h))
  /\ UNCHANGED <<table, queues, cmds, mine, got, bad>>

Release(t, h) ==
  /\ clq[h].refc > 0
  /\ clq' = [clq EXCEPT ![h].refc = @ - 1]
  /\ \/ /\ clq[h].refc = 1
        /\ Begin(t, [NoLocals EXCEPT !.dev = clq[h].dev, !.by = "release"], "stop")
        /\ shared' = (shared \/ Shares(h))
     \/ /\ clq[h].refc > 1 /\ bad = "no"
        /\ UNCHANGED <<pc, loc, raced, shared>>
  /\ UNCHANGED <<table, queues, cmds, mine, got, bad>>

(* What a call finds when it follows devstate->cmdq.                       *)
Usable(d) == cmdq[d] \in Queues /\ qst[cmdq[d]] \in {"running", "ended"}

Joinable(d) == cmdq[d] \in Queues /\ qst[cmdq[d]] = "running"

(* __do_release_command_queue_1: qstat = 2, and the scheduler is joined.   *)
(* One that sleeps leaves what is queued behind, one that runs runs it.    *)
Stop(t) ==
  LET d == loc[t].dev
      q == cmdq[d]
  IN
  /\ At(t, "stop")
  /\ \/ /\ ~ Joinable(d) /\ bad' = "queue"
        /\ UNCHANGED <<pc, loc, qst>>
     \/ /\ Joinable(d)
        /\ qst' = [qst EXCEPT ![q] = "ended"]
        /\ loc' = [loc EXCEPT ![t].q = q]
        /\ Goto(t, "free")
        /\ UNCHANGED bad
  /\ UNCHANGED <<table, cmdq, made, fifo, list, cmds, held, raced, shared>>

(* Slip of Free: the pointer stays.                                        *)
FreeKept(t) ==
  /\ At(t, "free")
  /\ qst' = [qst EXCEPT ![loc[t].q] = "freed"]
  /\ Return(t)
  /\ UNCHANGED <<table, cmdq, made, fifo, list, cmds, raced, shared, bad>>

(* __free_command_queue frees what devstate->cmdq points to and clears the *)
(* pointer, as the macro __free does.                                      *)
Free(t) ==
  LET q == cmdq[loc[t].dev] IN
  /\ At(t, "free")
  /\ \/ /\ q = NoQueue /\ bad' = "queue"
        /\ UNCHANGED <<qst, cmdq, pc, loc, held>>
     \/ /\ q # NoQueue
        /\ qst' = [qst EXCEPT ![q] = "freed"]
        /\ cmdq' = [cmdq EXCEPT ![loc[t].dev] = NoQueue]
        /\ Return(t) /\ UNCHANGED bad
  /\ UNCHANGED <<table, made, fifo, list, cmds, raced, shared>>

-----------------------------------------------------------------------------
(* What the program can enqueue on: a descriptor, which is looked up, the  *)
(* pointer of coprthr_devget, an OpenCL queue.                             *)
Reached ==
  {ddtab[m[1]] : m \in mine} \cup got
    \cup {clq[h].dev : h \in {g \in Handle : clq[g].refc > 0}}

(* A command: coprthr_create, coprthr_dexec, clEnqueue...                  *)
Enqueue(d) ==
  /\ bad = "no" /\ nev < MaxEvent
  /\ nev' = nev + 1
  /\ \/ /\ d = Null /\ bad' = "table" /\ UNCHANGED fifo
     \/ /\ d # Null /\ ~ Usable(d) /\ bad' = "queue" /\ UNCHANGED fifo
     \/ /\ d # Null /\ Usable(d)
        /\ fifo' = [fifo EXCEPT ![cmdq[d]] = Append(@, nev + 1)]
        /\ UNCHANGED bad
  /\ UNCHANGED <<table, cmdq, made, qst, list, freed, pc, loc, held, raced, shared>>

(* The scheduler completes a command and links its event behind the last   *)
(* one of cmds_complete.                                                   *)
Complete(q) ==
  LET e == Head(fifo[q]) IN
  /\ bad = "no" /\ qst[q] = "running" /\ fifo[q] # <<>>
  /\ fifo' = [fifo EXCEPT ![q] = Tail(@)]
  /\ list' = [list EXCEPT ![q] = Append(@, e)]
  /\ bad' = IF e \in freed THEN "event"
            ELSE IF list[q] # <<>> /\ list[q][Len(list[q])] \in freed THEN "tail"
            ELSE "no"
  /\ UNCHANGED <<table, cmdq, made, qst, nev, freed, pc, loc, held, raced, shared>>

(* Slip of Join: the thread is not waited for.                             *)
JoinUnwaited(e) ==
  /\ bad = "no" /\ e \in 1 .. nev \ freed
  /\ freed' = freed \cup {e}
  /\ UNCHANGED <<table, queues, nev, pc, loc, held, raced, shared, bad>>

(* coprthr_join waits for the event of the thread and frees both; the      *)
(* event stays linked.                                                     *)
Join(e) ==
  /\ bad = "no" /\ e \in 1 .. nev \ freed
  /\ \E q \in Queues : \E i \in 1 .. Len(list[q]) : list[q][i] = e
  /\ freed' = freed \cup {e}
  /\ UNCHANGED <<table, queues, nev, pc, loc, held, raced, shared, bad>>

-----------------------------------------------------------------------------
Step(t) ==
  \/ \E d \in Device : DOpen(t, d) \/ DevGet(t, d)
  \/ \E h \in Handle : Release(t, h) \/ \E d \in Device : CreateCommandQueue(t, h, d)
  \/ DClose(t) \/ Reset(t)
  \/ Fill(t) \/ Take(t) \/ Advance(t) \/ Test(t) \/ Publish(t) \/ Start(t)
  \/ Stop(t) \/ Free(t)

Next ==
  \/ \E t \in Thread : Step(t)
  \/ \E h \in Handle : RetainCommandQueue(h)
  \/ \E d \in Reached : Enqueue(d)
  \/ \E q \in Queues : Complete(q)
  \/ \E e \in Event : Join(e)

Spec == Init /\ [][Next]_vars

-----------------------------------------------------------------------------
TypeOK ==
  /\ ddtab \in [Slots -> Device \cup {Null}] /\ nxt \in Nat
  /\ cmdq \in [Device -> 0 .. made] /\ made \in 0 .. MaxQueue
  /\ qst \in [Queues -> {"none", "raw", "running", "ended", "freed"}]
  /\ fifo \in [Queues -> Seq(1 .. nev)] /\ list \in [Queues -> Seq(1 .. nev)]
  /\ nev \in 0 .. MaxEvent /\ freed \subseteq 1 .. nev
  /\ pc \in [Thread -> {"idle", "slot", "take", "advance", "test", "publish", "start",
                         "reset", "stop", "free"}]
  /\ loc \in [Thread -> [dd : Nat, dev : Device \cup {Null}, at : Device \cup {Null}, q : 0 .. made,
                          by : Handle \cup {"none", "open", "get", "close", "release"}]]
  /\ mine \subseteq Slots \X Device /\ got \subseteq Device
  /\ clq \in [Handle -> [dev : Device \cup {Null}, refc : 0 .. MaxRef]]
  /\ raced \in BOOLEAN /\ shared \in BOOLEAN
  /\ bad \in {"no", "table", "queue", "event", "tail"}

(* As long as the calls of different threads do not overlap, a descriptor  *)
(* names the device it was opened for until it is closed, no slot is given *)
(* twice, and the table is used up before an open is refused: between the  *)
(* calls every slot below __ddtab_nxt is open and that one is free         *)
(* (device.c 367-405).                                                     *)
DescriptorsStand ==
  ~ raced =>
    /\ \A m \in mine : ddtab[m[1]] = m[2]
    /\ (\A t \in Thread : pc[t] \notin {"slot", "take", "advance", "reset"}) =>
         /\ \A s \in Slots : s < nxt => ddtab[s] # Null
         /\ nxt = NSlot \/ (nxt \in Slots /\ ddtab[nxt] = Null)

(* As long as the calls do not overlap, a device has one scheduler at most *)
(* and devstate->cmdq leads to it: no scheduler is left behind and none    *)
(* serves freed memory (command_queue.c 33-68).                            *)
OneScheduler ==
  ~ raced =>
    /\ \A q \in Queues :
         qst[q] \in {"raw", "running", "ended"} => \E d \in Device : cmdq[d] = q
    /\ \A d \in Device : cmdq[d] # NoQueue => qst[cmdq[d]] # "freed"

(* A command finds the queue of its device unless calls overlapped or an   *)
(* OpenCL queue was released while somebody else used that device; the     *)
(* event of a joined thread is not the scheduler's any more, only the list *)
(* still refers to it (thread.c 141-152).                                  *)
NothingMissing ==
  /\ bad = "table" => raced
  /\ bad = "queue" => raced \/ shared
  /\ bad # "event"
=============================================================================
