--------------------------- MODULE DeviceTableProofs ---------------------------
(***************************************************************************)
(* The devices of a process for any number of threads, devices, OpenCL     *)
(* queues, descriptors and commands: types, and what holds while no two    *)
(* calls overlap. The calls then follow one another, so each finds what    *)
(* the one before it left: every slot below __ddtab_nxt open, a queue      *)
(* behind devstate->cmdq from its publication to its release.              *)
(***************************************************************************)
EXTENDS DeviceTable, SequenceTheorems, TLAPS

-----------------------------------------------------------------------------
(* What the locals of a call hold at each of its steps.                    *)
Opening == {"slot", "take", "advance"}
Making  == {"test", "publish", "start"}

LocalsOf(t) ==
  /\ pc[t] \in Opening => loc[t].by = "open" /\ loc[t].dev \in Device
  /\ pc[t] \in Making =>
       loc[t].by \in Handle \cup {"open", "get"} /\ loc[t].dev \in Device
  /\ pc[t] \in {"publish", "start"} =>
       loc[t].at \in Device /\ (loc[t].by = "open" => loc[t].dd \in Slots)
  /\ pc[t] = "start" => loc[t].q \in Queues
  /\ pc[t] = "reset" => loc[t].by = "close" /\ loc[t].dd \in Slots
  /\ pc[t] \in {"stop", "free"} => loc[t].by = "release" /\ loc[t].dev \in Device

TypeInv ==
  /\ TypeOK
  /\ \A t \in Thread : LocalsOf(t)
  /\ \A h \in Handle : clq[h].refc > 0 => clq[h].dev \in Device
  /\ \A q \in Queues : qst[q] = "none" <=> q > made

(* While no two calls overlapped, one thread at most is in a call.         *)
Solo == \A t, u \in Thread : pc[t] # "idle" /\ pc[u] # "idle" => t = u

(* The descriptor table: below __ddtab_nxt, but for the slot that is being *)
(* given up, every slot is open, and __ddtab_nxt itself is free unless it  *)
(* is being filled.                                                        *)
Full(s) == s \in Slots /\ ddtab[s] # Null
NextFree == nxt = NSlot \/ (nxt \in Slots /\ ddtab[nxt] = Null)
TableOf(t) ==
  /\ pc[t] = "slot" => nxt \in Slots
  /\ pc[t] \in {"take", "advance"} => Full(nxt)
  /\ pc[t] = "take" => ddtab[nxt] = loc[t].dev
  /\ pc[t] \in {"advance"} \cup Making /\ loc[t].by = "open" =>
       loc[t].dd \in Slots /\ ddtab[loc[t].dd] = loc[t].dev
  /\ pc[t] = "reset" => ddtab[loc[t].dd] = Null
TableInv ==
  /\ \A m \in mine : ddtab[m[1]] = m[2]
  /\ \A t \in Thread : TableOf(t)
  /\ (\A t \in Thread : pc[t] \notin {"take", "advance"}) => NextFree
  /\ \A s \in Slots : s < nxt =>
       Full(s) \/ \E t \in Thread : pc[t] = "reset" /\ loc[t].dd = s

(* The queues: devstate->cmdq leads to every queue from its publication to *)
(* its release, to each from one device.                                   *)
QueueOf(t) ==
  /\ pc[t] \in {"publish", "start"} => loc[t].at = loc[t].dev
  /\ pc[t] = "publish" => cmdq[loc[t].at] = NoQueue
  /\ pc[t] = "start" => cmdq[loc[t].at] = loc[t].q
  /\ pc[t] = "free" => loc[t].q \in Queues /\ cmdq[loc[t].dev] = loc[t].q
QueueInv ==
  /\ \A t \in Thread : QueueOf(t)
  /\ \A q \in Queues :
       qst[q] \in {"raw", "running", "ended"} => \E d \in Device : cmdq[d] = q
  /\ \A d \in Device : cmdq[d] # NoQueue => qst[cmdq[d]] # "freed"
  /\ \A d, e \in Device : cmdq[d] = cmdq[e] /\ cmdq[d] # NoQueue => d = e
  /\ \A q \in Queues :
       /\ qst[q] = "raw" => \E t \in Thread : pc[t] = "start" /\ loc[t].q = q
       /\ qst[q] = "ended" => \E t \in Thread : pc[t] = "free" /\ loc[t].q = q

(* Whoever uses a device, unless its queue was released under him, has its *)
(* queue, with a scheduler; the last release has no other user.            *)
Used ==
  {m[2] : m \in mine} \cup got \cup {clq[h].dev : h \in {g \in Handle : clq[g].refc > 0}}
UsedInv ==
  /\ \A d \in Used : Joinable(d)
  /\ \A t \in Thread : pc[t] \in {"stop", "free"} => loc[t].dev \notin Used
  /\ \A t \in Thread : pc[t] = "stop" => Joinable(loc[t].dev)

(* An event is in one queue once, or in one list of completed commands;    *)
(* only the event of a completed command is freed.                         *)
EventInv ==
  /\ \A p, q \in Queues : \A i \in 1 .. Len(fifo[p]), j \in 1 .. Len(fifo[q]) :
       fifo[p][i] = fifo[q][j] => p = q /\ i = j
  /\ \A p, q \in Queues : \A i \in 1 .. Len(fifo[p]), j \in 1 .. Len(list[q]) :
       fifo[p][i] # list[q][j]
  /\ \A q \in Queues : \A i \in 1 .. Len(fifo[q]) : fifo[q][i] \notin freed
  /\ bad # "event"

TableAlone == ~raced => Solo /\ TableInv /\ bad # "table"
QueueAlone == ~raced => QueueInv
UsedAlone  == ~raced /\ ~shared => UsedInv /\ bad # "queue"

-----------------------------------------------------------------------------
(* Types.                                                                  *)
Steps ==
  {"idle", "slot", "take", "advance", "test", "publish", "start", "reset", "stop", "free"}
CallNames == Handle \cup {"none", "open", "get", "close", "release"}
LocalsAre(n) ==
  [dd : Nat, dev : Device \cup {Null}, at : Device \cup {Null}, q : 0 .. n, by : CallNames]

(* The bounds of the constants. *)
LEMMA Bounds ==
  /\ NSlot \in Nat /\ MaxQueue \in Nat /\ MaxEvent \in Nat
  /\ Slots \subseteq Nat /\ \A s \in Nat : s \in Slots <=> s < NSlot
  /\ \A q : q \in Queues <=> q \in Nat /\ q # 0 /\ q <= MaxQueue
  /\ \A d \in Device : d # Null
  /\ \A h \in Handle : h \notin {"none", "open", "get", "close", "release"}
<1>1. NSlot \in Nat /\ MaxQueue \in Nat /\ MaxEvent \in Nat
  BY SizesAreNatural
<1>2. Slots \subseteq Nat /\ \A s \in Nat : s \in Slots <=> s < NSlot
  BY <1>1 DEF Slots
<1>3. \A q : q \in Queues <=> q \in Nat /\ q # 0 /\ q <= MaxQueue
  BY <1>1 DEF Queues
<1>4. \A h \in Handle : h \notin {"none", "open", "get", "close", "release"}
  BY HandlesAreNames
<1> QED BY <1>1, <1>2, <1>3, <1>4, NullIsNoDevice

(* The locals of an idle thread. *)
LEMMA NoLocalsType == ASSUME NEW n \in Nat PROVE NoLocals \in LocalsAre(n)
BY DEF NoLocals, LocalsAre, CallNames, NoQueue

(* The types that a step of a thread is argued from. *)
LEMMA ThreadTypes ==
  ASSUME TypeInv
  PROVE  /\ pc \in [Thread -> Steps] /\ loc \in [Thread -> LocalsAre(made)]
         /\ cmdq \in [Device -> 0 .. made] /\ made \in 0 .. MaxQueue /\ made \in Nat
         /\ qst \in [Queues -> {"none", "raw", "running", "ended", "freed"}]
         /\ ddtab \in [Slots -> Device \cup {Null}] /\ nxt \in Nat
         /\ mine \subseteq Slots \X Device /\ got \subseteq Device
         /\ clq \in [Handle -> [dev : Device \cup {Null}, refc : 0 .. MaxRef]]
<1>1. TypeOK
  BY DEF TypeInv
<1>2. made \in Nat
  BY <1>1 DEF TypeOK
<1> QED BY <1>1, <1>2 DEF TypeOK, Steps, LocalsAre, CallNames

(* A thread moves, and nothing else of what the types speak of.            *)
LEMMA MoveKeepsType ==
  ASSUME TypeInv, NEW t \in Thread, NEW s \in Steps, NEW r \in LocalsAre(made),
         pc' = [pc EXCEPT ![t] = s], loc' = [loc EXCEPT ![t] = r],
         LocalsOf(t)', UNCHANGED <<queues, cmds>>,
         ddtab' \in [Slots -> Device \cup {Null}], nxt' \in Nat,
         mine' \subseteq Slots \X Device, got' \subseteq Device,
         clq' \in [Handle -> [dev : Device \cup {Null}, refc : 0 .. MaxRef]],
         \A h \in Handle : clq'[h].refc > 0 => clq'[h].dev \in Device,
         raced' \in BOOLEAN, shared' \in BOOLEAN,
         bad' \in {"no", "table", "queue", "event", "tail"}
  PROVE  TypeInv'
<1>1. pc \in [Thread -> Steps] /\ loc \in [Thread -> LocalsAre(made)]
  BY ThreadTypes
<1>2. pc' \in [Thread -> Steps] /\ loc' \in [Thread -> LocalsAre(made)]
  BY <1>1
<1>3. TypeOK'
  BY <1>2 DEF TypeInv, TypeOK, queues, cmds, Steps, LocalsAre, CallNames
<1>4. \A u \in Thread : LocalsOf(u)'
  <2> SUFFICES ASSUME NEW u \in Thread, u # t PROVE LocalsOf(u)'
    OBVIOUS
  <2>1. pc'[u] = pc[u] /\ loc'[u] = loc[u]
    BY <1>1
  <2> QED BY <2>1 DEF TypeInv, LocalsOf
<1>5. \A q \in Queues : qst'[q] = "none" <=> q > made'
  BY DEF TypeInv, queues
<1> QED BY <1>3, <1>4, <1>5 DEF TypeInv

(* A call that returns gives the program what it made.                     *)
LEMMA ReturnTypes ==
  ASSUME TypeInv, NEW t \in Thread, Return(t),
         loc[t].by = "open" => loc[t].dd \in Slots,
         loc[t].by \in Handle \cup {"open", "get"} => loc[t].dev \in Device
  PROVE  /\ pc' = [pc EXCEPT ![t] = "idle"] /\ loc' = [loc EXCEPT ![t] = NoLocals]
         /\ mine' \subseteq Slots \X Device /\ got' \subseteq Device
         /\ clq' \in [Handle -> [dev : Device \cup {Null}, refc : 0 .. MaxRef]]
         /\ \A h \in Handle : clq'[h].refc > 0 => clq'[h].dev \in Device
         /\ LocalsOf(t)'
<1>1. pc' = [pc EXCEPT ![t] = "idle"] /\ loc' = [loc EXCEPT ![t] = NoLocals]
  BY DEF Return
<1>2. mine' \subseteq Slots \X Device /\ got' \subseteq Device
  BY ThreadTypes DEF Return
<1>3. /\ clq' \in [Handle -> [dev : Device \cup {Null}, refc : 0 .. MaxRef]]
      /\ \A h \in Handle : clq'[h].refc > 0 => clq'[h].dev \in Device
  <2>1. CASE loc[t].by \in Handle
    <3>1. clq' = [clq EXCEPT ![loc[t].by] = [dev |-> loc[t].dev, refc |-> 1]]
      BY <2>1 DEF Return
    <3>2. [dev |-> loc[t].dev, refc |-> 1] \in [dev : Device \cup {Null}, refc : 0 .. MaxRef]
      BY <2>1 DEF MaxRef
    <3>3. clq \in [Handle -> [dev : Device \cup {Null}, refc : 0 .. MaxRef]]
      BY ThreadTypes
    <3>4. \A h \in Handle :
            clq'[h] = IF h = loc[t].by THEN [dev |-> loc[t].dev, refc |-> 1] ELSE clq[h]
      BY <3>1, <3>3
    <3> QED BY <2>1, <3>1, <3>2, <3>3, <3>4 DEF TypeInv
  <2>2. CASE loc[t].by \notin Handle
    BY <2>2, ThreadTypes DEF Return, TypeInv
  <2> QED BY <2>1, <2>2
<1>4. LocalsOf(t)'
  <2>1. pc'[t] = "idle"
    BY <1>1, ThreadTypes
  <2> QED BY <2>1 DEF LocalsOf, Opening, Making
<1> QED BY <1>1, <1>2, <1>3, <1>4

(* Before the first call. *)
LEMMA TypeInit == Init => TypeInv
<1> SUFFICES ASSUME Init PROVE TypeInv
  OBVIOUS
<1>1. loc \in [Thread -> LocalsAre(0)]
  BY NoLocalsType DEF Init
<1>2. <<>> \in Seq(1 .. 0)
  OBVIOUS
<1>3. fifo \in [Queues -> Seq(1 .. 0)] /\ list \in [Queues -> Seq(1 .. 0)]
  BY <1>2, Zenon DEF Init
<1>4. clq \in [Handle -> [dev : Device \cup {Null}, refc : 0 .. MaxRef]]
  BY DEF Init, MaxRef
<1>5. TypeOK
  <2>1. /\ made = 0 /\ nev = 0 /\ 0 \in Nat /\ 0 \in 0 .. MaxQueue /\ 0 \in 0 .. MaxEvent
        /\ 0 \in 0 .. 0
    BY Bounds DEF Init
  <2>2. loc \in [Thread -> LocalsAre(made)]
    BY <1>1, <2>1
  <2>3. cmdq \in [Device -> 0 .. made]
    BY <2>1 DEF Init, NoQueue
  <2> QED BY <1>3, <1>4, <2>1, <2>2, <2>3 DEF Init, TypeOK, LocalsAre, CallNames
<1>6. \A t \in Thread : LocalsOf(t)
  BY DEF Init, LocalsOf, Opening, Making
<1>7. \A q \in Queues : qst[q] = "none" <=> q > made
  BY DEF Init, Queues
<1>8. \A h \in Handle : ~(clq[h].refc > 0)
  BY DEF Init
<1> QED BY <1>5, <1>6, <1>7, <1>8 DEF TypeInv
(* A call begins, or goes on, without touching a queue.                    *)
LEMMA BeginKeepsType ==
  ASSUME TypeInv, NEW t \in Thread,
         \/ \E d \in Device : DOpen(t, d) \/ DevGet(t, d)
         \/ \E h \in Handle : Release(t, h) \/ \E d \in Device : CreateCommandQueue(t, h, d)
         \/ DClose(t)
  PROVE  TypeInv'
<1>0. /\ TypeOK /\ NoLocals \in LocalsAre(made)
      /\ \A h \in Handle : clq[h].refc > 0 => clq[h].dev \in Device
  BY ThreadTypes, NoLocalsType DEF TypeInv
<1>1. ASSUME NEW r \in LocalsAre(made), NEW s \in Steps, Begin(t, r, s)
      PROVE  /\ pc' = [pc EXCEPT ![t] = s] /\ loc' = [loc EXCEPT ![t] = r]
             /\ pc'[t] = s /\ loc'[t] = r /\ raced' \in BOOLEAN
  BY <1>0, <1>1, ThreadTypes DEF Begin, TypeOK
<1>2. ASSUME NEW d \in Device, DOpen(t, d)
      PROVE  TypeInv'
  <2> DEFINE r == [NoLocals EXCEPT !.dev = d, !.by = "open"]
  <2>1. r \in LocalsAre(made) /\ r.by = "open" /\ r.dev = d
    BY <1>0 DEF LocalsAre, CallNames
  <2> HIDE DEF r
  <2>2. Begin(t, r, "slot") /\ UNCHANGED <<table, queues, cmds, held, shared, bad>>
    BY <1>2 DEF DOpen, r
  <2>3. LocalsOf(t)'
    BY <1>1, <2>1, <2>2 DEF LocalsOf, Opening, Making, Steps
  <2> QED
    BY <1>0, <1>1, <2>1, <2>2, <2>3, MoveKeepsType DEF TypeOK, Steps, table, held
<1>3. ASSUME NEW d \in Device, DevGet(t, d)
      PROVE  TypeInv'
  <2> DEFINE r == [NoLocals EXCEPT !.dev = d, !.by = "get"]
  <2>1. r \in LocalsAre(made) /\ r.by = "get" /\ r.dev = d
    BY <1>0 DEF LocalsAre, CallNames
  <2> HIDE DEF r
  <2>2. Begin(t, r, "test") /\ UNCHANGED <<table, queues, cmds, held, shared, bad>>
    BY <1>3 DEF DevGet, r
  <2>3. LocalsOf(t)'
    BY <1>1, <2>1, <2>2 DEF LocalsOf, Opening, Making, Steps
  <2> QED
    BY <1>0, <1>1, <2>1, <2>2, <2>3, MoveKeepsType DEF TypeOK, Steps, table, held
<1>4. ASSUME NEW h \in Handle, NEW d \in Device, CreateCommandQueue(t, h, d)
      PROVE  TypeInv'
  <2> DEFINE r == [NoLocals EXCEPT !.dev = d, !.by = h]
  <2>1. r \in LocalsAre(made) /\ r.by = h /\ r.dev = d
    BY <1>0 DEF LocalsAre, CallNames
  <2> HIDE DEF r
  <2>2. Begin(t, r, "test") /\ UNCHANGED <<table, queues, cmds, held, shared, bad>>
    BY <1>4 DEF CreateCommandQueue, r
  <2>3. LocalsOf(t)'
    BY <1>1, <2>1, <2>2 DEF LocalsOf, Opening, Making, Steps
  <2> QED
    BY <1>0, <1>1, <2>1, <2>2, <2>3, MoveKeepsType DEF TypeOK, Steps, table, held
<1>5. ASSUME NEW h \in Handle, Release(t, h)
      PROVE  TypeInv'
  <2>1. /\ clq[h].refc \in 1 .. MaxRef /\ clq[h].dev \in Device
        /\ clq[h].refc - 1 \in 0 .. MaxRef
    <3>1. clq[h] \in [dev : Device \cup {Null}, refc : 0 .. MaxRef]
      BY ThreadTypes
    <3>2. clq[h].refc > 0
      BY <1>5 DEF Release
    <3> QED BY <1>0, <3>1, <3>2 DEF MaxRef
  <2>2. /\ clq' = [clq EXCEPT ![h].refc = clq[h].refc - 1]
        /\ UNCHANGED <<table, queues, cmds, mine, got, bad>>
    BY <1>5 DEF Release
  <2>3. /\ clq' \in [Handle -> [dev : Device \cup {Null}, refc : 0 .. MaxRef]]
        /\ \A g \in Handle : clq'[g].refc > 0 => clq'[g].dev \in Device
    <3>1. clq \in [Handle -> [dev : Device \cup {Null}, refc : 0 .. MaxRef]]
      BY ThreadTypes
    <3>2. \A g \in Handle :
            /\ g # h => clq'[g] = clq[g]
            /\ g = h => clq'[g] = [clq[h] EXCEPT !.refc = clq[h].refc - 1]
      BY <2>2, <3>1
    <3>3. clq' = [g \in Handle |-> clq'[g]]
      BY <2>2, <3>1
    <3>4. clq'[h] \in [dev : Device \cup {Null}, refc : 0 .. MaxRef] /\ clq'[h].dev = clq[h].dev
      BY <2>1, <3>1, <3>2
    <3> QED BY <1>0, <2>1, <3>1, <3>2, <3>3, <3>4
  <2>4. CASE clq[h].refc = 1
    <3> DEFINE r == [NoLocals EXCEPT !.dev = clq[h].dev, !.by = "release"]
    <3>1. r \in LocalsAre(made) /\ r.by = "release" /\ r.dev = clq[h].dev
      BY <1>0, <2>1 DEF LocalsAre, CallNames
    <3> HIDE DEF r
    <3>2. Begin(t, r, "stop") /\ shared' = (shared \/ Shares(h))
      <4>1. ~(clq[h].refc > 1)
        BY <2>4
      <4> QED BY <1>5, <4>1, Zenon DEF Release, r
    <3>3. LocalsOf(t)'
      BY <1>1, <2>1, <3>1, <3>2 DEF LocalsOf, Opening, Making, Steps
    <3>4. shared' \in BOOLEAN
      BY <1>0, <3>2 DEF TypeOK
    <3> QED
      BY <1>0, <1>1, <2>2, <2>3, <3>1, <3>2, <3>3, <3>4, MoveKeepsType
         DEF TypeOK, Steps, table
  <2>5. CASE clq[h].refc # 1
    <3>1. UNCHANGED <<pc, loc, raced, shared>>
      BY <1>5, <2>5 DEF Release
    <3>2. TypeOK'
      BY <1>0, <2>2, <2>3, <3>1 DEF TypeOK, table, queues, cmds
    <3>3. \A u \in Thread : LocalsOf(u)'
      BY <3>1 DEF TypeInv, LocalsOf
    <3> QED
      BY <2>2, <2>3, <3>2, <3>3 DEF TypeInv, queues
  <2> QED BY <2>4, <2>5
<1>6. CASE DClose(t)
  <2>1. PICK m \in mine :
          /\ Begin(t, [NoLocals EXCEPT !.dd = m[1], !.by = "close"], "reset")
          /\ mine' = mine \ {m}
          /\ ddtab' = [ddtab EXCEPT ![m[1]] = Null]
          /\ UNCHANGED <<nxt, queues, cmds, got, clq, shared, bad>>
    BY <1>6 DEF DClose
  <2> DEFINE r == [NoLocals EXCEPT !.dd = m[1], !.by = "close"]
  <2>2. m[1] \in Slots /\ m[1] \in Nat
    BY ThreadTypes, Bounds
  <2>3. r \in LocalsAre(made) /\ r.by = "close" /\ r.dd = m[1]
    BY <1>0, <2>2 DEF LocalsAre, CallNames
  <2> HIDE DEF r
  <2>4. Begin(t, r, "reset")
    BY <2>1 DEF r
  <2>5. LocalsOf(t)'
    BY <1>1, <2>2, <2>3, <2>4 DEF LocalsOf, Opening, Making, Steps
  <2>6. ddtab' \in [Slots -> Device \cup {Null}] /\ mine' \subseteq Slots \X Device
    BY <2>1, ThreadTypes
  <2> QED
    BY <1>0, <1>1, <2>1, <2>3, <2>4, <2>5, <2>6, MoveKeepsType DEF TypeOK, Steps
<1> QED BY <1>2, <1>3, <1>4, <1>5, <1>6
(* The steps that open a descriptor and look for the next slot, and the    *)
(* last one of a close.                                                    *)
LEMMA TableKeepsType ==
  ASSUME TypeInv, NEW t \in Thread,
         Fill(t) \/ Take(t) \/ Advance(t) \/ Reset(t)
  PROVE  TypeInv'
<1>0. /\ TypeOK /\ loc[t] \in LocalsAre(made) /\ LocalsOf(t)
      /\ \A h \in Handle : clq[h].refc > 0 => clq[h].dev \in Device
  BY ThreadTypes DEF TypeInv
<1>1. ASSUME NEW s \in Steps, Goto(t, s), UNCHANGED loc
      PROVE  /\ pc' = [pc EXCEPT ![t] = s] /\ pc'[t] = s
             /\ loc' = [loc EXCEPT ![t] = loc[t]] /\ loc'[t] = loc[t]
  BY <1>1, ThreadTypes DEF Goto
<1>2. CASE Fill(t)
  <2>1. /\ pc[t] = "slot" /\ Goto(t, "take")
        /\ UNCHANGED <<nxt, queues, cmds, held, loc, raced, shared>>
        /\ bad' \in {"no", "table", "queue", "event", "tail"}
    BY <1>0, <1>2 DEF Fill, At, TypeOK
  <2>2. ddtab' \in [Slots -> Device \cup {Null}]
    BY <1>0, <1>2, ThreadTypes DEF Fill, LocalsAre
  <2>3. LocalsOf(t)'
    BY <1>0, <1>1, <2>1 DEF LocalsOf, Opening, Making, Steps
  <2> QED
    BY <1>0, <1>1, <2>1, <2>2, <2>3, MoveKeepsType DEF TypeOK, Steps, held
<1>3. CASE Take(t)
  <2> DEFINE r == [loc[t] EXCEPT !.dd = nxt]
  <2>1. /\ pc[t] = "take" /\ Goto(t, "advance") /\ loc' = [loc EXCEPT ![t] = r]
        /\ UNCHANGED <<table, queues, cmds, held, raced, shared, bad>>
    BY <1>3 DEF Take, At
  <2>2. r \in LocalsAre(made) /\ r.by = loc[t].by /\ r.dev = loc[t].dev
    BY <1>0, ThreadTypes DEF LocalsAre
  <2> HIDE DEF r
  <2>3. pc' = [pc EXCEPT ![t] = "advance"] /\ pc'[t] = "advance" /\ loc'[t] = r
    BY <2>1, ThreadTypes DEF Goto
  <2>4. LocalsOf(t)'
    BY <1>0, <2>1, <2>2, <2>3 DEF LocalsOf, Opening, Making
  <2> QED
    BY <1>0, <2>1, <2>2, <2>3, <2>4, MoveKeepsType DEF TypeOK, Steps, table, held
<1>4. CASE Advance(t)
  <2>1. /\ pc[t] = "advance" /\ nxt' = nxt + 1
        /\ Goto(t, "advance") \/ Goto(t, "test")
        /\ UNCHANGED <<ddtab, queues, cmds, held, loc, raced, shared, bad>>
    BY <1>4 DEF Advance, At
  <2>2. \A s \in {"advance", "test"} : Goto(t, s) => LocalsOf(t)'
    BY <1>0, <1>1, <2>1 DEF LocalsOf, Opening, Making, Steps
  <2>3. nxt' \in Nat
    BY <2>1, ThreadTypes
  <2> QED
    BY <1>0, <1>1, <2>1, <2>2, <2>3, MoveKeepsType DEF TypeOK, Steps, held
<1>5. CASE Reset(t)
  <2>1. /\ pc[t] = "reset" /\ Return(t) /\ nxt' \in Nat
        /\ UNCHANGED <<ddtab, queues, cmds, raced, shared, bad>>
    BY <1>0, <1>5, ThreadTypes DEF Reset, At, LocalsAre
  <2>2. loc[t].by = "close"
    BY <1>0, <2>1 DEF LocalsOf
  <2>3. loc[t].by \notin Handle \cup {"open", "get"}
    BY <2>2, Bounds
  <2>4. NoLocals \in LocalsAre(made)
    BY ThreadTypes, NoLocalsType
  <2> QED
    BY <1>0, <2>1, <2>3, <2>4, ReturnTypes, MoveKeepsType DEF TypeOK, Steps
<1> QED BY <1>2, <1>3, <1>4, <1>5
(* The steps that make a queue.                                            *)
LEMMA MakingKeepsType ==
  ASSUME TypeInv, NEW t \in Thread, Test(t) \/ Publish(t) \/ Start(t)
  PROVE  TypeInv'
<1>0. /\ TypeOK /\ loc[t] \in LocalsAre(made) /\ LocalsOf(t)
      /\ NoLocals \in LocalsAre(made)
      /\ \A h \in Handle : clq[h].refc > 0 => clq[h].dev \in Device
  BY ThreadTypes, NoLocalsType DEF TypeInv
<1>2. CASE Test(t)
  <2> DEFINE d == IF loc[t].by # "open" THEN loc[t].dev
                  ELSE IF loc[t].dd \in Slots THEN ddtab[loc[t].dd] ELSE Null
  <2>1. pc[t] = "test" /\ UNCHANGED <<table, queues, cmds, raced, shared>>
    BY <1>2 DEF Test, At
  <2>2. /\ loc[t].by \in Handle \cup {"open", "get"} /\ loc[t].dev \in Device
        /\ d # Null => d \in Device /\ (loc[t].by = "open" => loc[t].dd \in Slots)
    BY <1>0, <2>1, ThreadTypes DEF LocalsOf, Making
  <2>3. \/ /\ bad' = "table" /\ UNCHANGED <<pc, loc, held>>
        \/ /\ d # Null /\ Return(t) /\ UNCHANGED bad
        \/ /\ d # Null /\ loc' = [loc EXCEPT ![t] = [loc[t] EXCEPT !.at = d]]
           /\ Goto(t, "publish") /\ UNCHANGED <<held, bad>>
    BY <1>2 DEF Test
  <2> HIDE DEF d
  <2>4. CASE bad' = "table" /\ UNCHANGED <<pc, loc, held>>
    <3>1. TypeOK'
      BY <1>0, <2>1, <2>4 DEF TypeOK, table, queues, cmds, held
    <3>2. \A u \in Thread : LocalsOf(u)'
      BY <2>4 DEF TypeInv, LocalsOf
    <3> QED BY <1>0, <2>1, <2>4, <3>1, <3>2 DEF TypeInv, queues, held
  <2>5. CASE d # Null /\ Return(t) /\ UNCHANGED bad
    <3>1. ddtab' \in [Slots -> Device \cup {Null}] /\ nxt' \in Nat
      BY <2>1, ThreadTypes DEF table
    <3> QED
      BY <1>0, <2>1, <2>2, <2>5, <3>1, ReturnTypes, MoveKeepsType DEF TypeOK, Steps
  <2>6. CASE /\ d # Null /\ loc' = [loc EXCEPT ![t] = [loc[t] EXCEPT !.at = d]]
             /\ Goto(t, "publish") /\ UNCHANGED <<held, bad>>
    <3> DEFINE r == [loc[t] EXCEPT !.at = d]
    <3>1. /\ r \in LocalsAre(made) /\ r.at = d
          /\ r.by = loc[t].by /\ r.dev = loc[t].dev /\ r.dd = loc[t].dd
      BY <1>0, <2>2, <2>6 DEF LocalsAre
    <3>2. loc' = [loc EXCEPT ![t] = r]
      BY <2>6
    <3> HIDE DEF r
    <3>3. pc' = [pc EXCEPT ![t] = "publish"] /\ pc'[t] = "publish" /\ loc'[t] = r
      BY <2>6, <3>2, ThreadTypes DEF Goto
    <3>4. LocalsOf(t)'
      BY <2>2, <2>6, <3>1, <3>3 DEF LocalsOf, Opening, Making
    <3> QED
      BY <1>0, <2>1, <2>6, <3>1, <3>2, <3>3, <3>4, MoveKeepsType
         DEF TypeOK, Steps, table, held
  <2> QED BY <2>3, <2>4, <2>5, <2>6
<1>3. CASE Publish(t)
  <2> DEFINE r == [loc[t] EXCEPT !.q = made + 1]
             n == made + 1
  <2>1. /\ pc[t] = "publish" /\ made < MaxQueue /\ made' = n
        /\ cmdq' = [cmdq EXCEPT ![loc[t].at] = n]
        /\ qst' = [qst EXCEPT ![n] = "raw"]
        /\ loc' = [loc EXCEPT ![t] = r] /\ pc' = [pc EXCEPT ![t] = "start"]
        /\ UNCHANGED <<table, fifo, list, cmds, held, raced, shared, bad>>
    BY <1>3 DEF Publish, At, Goto
  <2>2. /\ made \in Nat /\ n \in Nat /\ n > made /\ n \in 0 .. MaxQueue
        /\ n \in 0 .. n /\ n \in Queues
    BY <2>1, ThreadTypes, Bounds
  <2>3. /\ r \in LocalsAre(n) /\ r.q = n /\ r.at = loc[t].at
        /\ r.by = loc[t].by /\ r.dev = loc[t].dev /\ r.dd = loc[t].dd
    <3>1. loc[t].q \in 0 .. n
      BY <1>0, <2>2 DEF LocalsAre
    <3> QED BY <1>0, <2>2, <3>1 DEF LocalsAre
  <2> HIDE DEF r, n
  <2>4. LocalsAre(made) \subseteq LocalsAre(n) /\ 0 .. made \subseteq 0 .. n
    BY <2>2 DEF LocalsAre
  <2>5. /\ loc' \in [Thread -> LocalsAre(n)] /\ pc' \in [Thread -> Steps]
        /\ loc'[t] = r /\ pc'[t] = "start"
        /\ \A u \in Thread : u # t => loc'[u] = loc[u] /\ pc'[u] = pc[u]
    <3>1. loc \in [Thread -> LocalsAre(n)]
      BY <2>4, ThreadTypes
    <3> QED BY <2>1, <2>3, <3>1, ThreadTypes DEF Steps
  <2>6. cmdq' \in [Device -> 0 .. n]
    <3>1. cmdq \in [Device -> 0 .. n]
      BY <2>4, ThreadTypes
    <3> QED BY <2>1, <2>2, <3>1
  <2>7. /\ qst' \in [Queues -> {"none", "raw", "running", "ended", "freed"}]
        /\ \A q \in Queues : qst'[q] = IF q = n THEN "raw" ELSE qst[q]
    BY <2>1, ThreadTypes
  <2>8. TypeOK'
    BY <1>0, <2>1, <2>2, <2>5, <2>6, <2>7
       DEF TypeOK, table, cmds, held, Steps, LocalsAre, CallNames
  <2>9. \A u \in Thread : LocalsOf(u)'
    <3>1. LocalsOf(t)'
      BY <1>0, <2>1, <2>2, <2>3, <2>5 DEF LocalsOf, Opening, Making
    <3>2. ASSUME NEW u \in Thread, u # t PROVE LocalsOf(u)'
      BY <2>5, <3>2 DEF TypeInv, LocalsOf
    <3> QED BY <3>1, <3>2
  <2>10. \A q \in Queues : qst'[q] = "none" <=> q > made'
    <3>1. \A q \in Queues : q \in Nat
      BY Bounds
    <3>2. \A q \in Queues : q > n <=> q > made /\ q # n
      BY <2>2, <3>1 DEF n
    <3> QED BY <2>1, <2>7, <3>2 DEF TypeInv
  <2> QED BY <1>0, <2>1, <2>8, <2>9, <2>10 DEF TypeInv, held
<1>4. CASE Start(t)
  <2>1. /\ pc[t] = "start" /\ Return(t)
        /\ qst' = [qst EXCEPT ![loc[t].q] = "running"]
        /\ UNCHANGED <<table, cmdq, made, fifo, list, cmds, raced, shared, bad>>
    BY <1>4 DEF Start, At
  <2>2. /\ loc[t].by = "open" => loc[t].dd \in Slots
        /\ loc[t].dev \in Device /\ loc[t].q \in Queues
    BY <1>0, <2>1 DEF LocalsOf, Making
  <2>3. /\ pc' = [pc EXCEPT ![t] = "idle"] /\ loc' = [loc EXCEPT ![t] = NoLocals]
        /\ mine' \subseteq Slots \X Device /\ got' \subseteq Device
        /\ clq' \in [Handle -> [dev : Device \cup {Null}, refc : 0 .. MaxRef]]
        /\ \A h \in Handle : clq'[h].refc > 0 => clq'[h].dev \in Device
        /\ LocalsOf(t)'
    BY <2>1, <2>2, ReturnTypes
  <2>4. /\ qst' \in [Queues -> {"none", "raw", "running", "ended", "freed"}]
        /\ \A q \in Queues : qst'[q] = IF q = loc[t].q THEN "running" ELSE qst[q]
    BY <2>1, ThreadTypes
  <2>5. loc[t].q <= made
    <3>1. loc[t].q \in 0 .. made
      BY <1>0 DEF LocalsAre
    <3> QED BY <3>1
  <2>6. \A q \in Queues : qst'[q] = "none" <=> q > made'
    <3>1. \A q \in Queues : q \in Nat
      BY Bounds
    <3>2. ~(loc[t].q > made)
      BY <2>2, <2>5, <3>1, ThreadTypes
    <3> QED BY <2>1, <2>4, <3>2 DEF TypeInv
  <2>7. loc' \in [Thread -> LocalsAre(made)] /\ pc' \in [Thread -> Steps]
    BY <1>0, <2>3, ThreadTypes DEF Steps
  <2>8. TypeOK'
    BY <1>0, <2>1, <2>3, <2>4, <2>7 DEF TypeOK, table, cmds, Steps, LocalsAre, CallNames
  <2>9. \A u \in Thread : LocalsOf(u)'
    <3> SUFFICES ASSUME NEW u \in Thread, u # t PROVE LocalsOf(u)'
      BY <2>3
    <3>1. pc'[u] = pc[u] /\ loc'[u] = loc[u]
      BY <2>3, ThreadTypes
    <3> QED BY <3>1 DEF TypeInv, LocalsOf
  <2> QED BY <2>3, <2>6, <2>8, <2>9 DEF TypeInv
<1> QED BY <1>2, <1>3, <1>4
(* The steps that release a queue.                                         *)
LEMMA ReleaseKeepsType ==
  ASSUME TypeInv, NEW t \in Thread, Stop(t) \/ Free(t)
  PROVE  TypeInv'
<1>0. /\ TypeOK /\ loc[t] \in LocalsAre(made) /\ LocalsOf(t)
      /\ NoLocals \in LocalsAre(made)
      /\ \A h \in Handle : clq[h].refc > 0 => clq[h].dev \in Device
  BY ThreadTypes, NoLocalsType DEF TypeInv
<1>1. loc[t].by = "release" /\ loc[t].dev \in Device
  BY <1>0 DEF LocalsOf, Stop, Free, At
<1> DEFINE q == cmdq[loc[t].dev]
<1>2. q \in 0 .. made /\ q \in Nat /\ q <= made
  <2>1. q \in 0 .. made
    BY <1>1, ThreadTypes
  <2> QED BY <2>1, ThreadTypes
<1> HIDE DEF q
<1>3. CASE Stop(t)
  <2>1. /\ pc[t] = "stop"
        /\ \/ bad' = "queue" /\ UNCHANGED <<pc, loc, qst>>
           \/ /\ q \in Queues /\ qst[q] = "running"
              /\ qst' = [qst EXCEPT ![q] = "ended"]
              /\ loc' = [loc EXCEPT ![t] = [loc[t] EXCEPT !.q = q]]
              /\ pc' = [pc EXCEPT ![t] = "free"] /\ UNCHANGED bad
        /\ UNCHANGED <<table, cmdq, made, fifo, list, cmds, held, raced, shared>>
    BY <1>3 DEF Stop, At, Goto, Joinable, q
  <2>2. /\ loc' \in [Thread -> LocalsAre(made)] /\ pc' \in [Thread -> Steps]
        /\ \A u \in Thread : LocalsOf(u)'
    <3>1. CASE UNCHANGED <<pc, loc>>
      BY <3>1, ThreadTypes DEF TypeInv, LocalsOf
    <3>2. CASE loc' = [loc EXCEPT ![t] = [loc[t] EXCEPT !.q = q]] /\ pc' = [pc EXCEPT ![t] = "free"]
      <4> DEFINE r == [loc[t] EXCEPT !.q = q]
      <4>1. r \in LocalsAre(made) /\ r.by = loc[t].by /\ r.dev = loc[t].dev
        BY <1>0, <1>2 DEF LocalsAre
      <4> HIDE DEF r
      <4>2. /\ loc' = [loc EXCEPT ![t] = r] /\ loc'[t] = r /\ pc'[t] = "free"
            /\ \A u \in Thread : u # t => loc'[u] = loc[u] /\ pc'[u] = pc[u]
        BY <3>2, ThreadTypes DEF r
      <4>3. LocalsOf(t)'
        BY <1>1, <4>1, <4>2 DEF LocalsOf, Opening, Making
      <4>4. ASSUME NEW u \in Thread, u # t PROVE LocalsOf(u)'
        BY <4>2, <4>4 DEF TypeInv, LocalsOf
      <4> QED BY <3>2, <4>1, <4>2, <4>3, <4>4, ThreadTypes DEF Steps
    <3> QED BY <2>1, <3>1, <3>2
  <2>3. /\ qst' \in [Queues -> {"none", "raw", "running", "ended", "freed"}]
        /\ \A p \in Queues : qst'[p] = "none" <=> p > made'
    BY <2>1, ThreadTypes DEF TypeInv
  <2>4. TypeOK'
    BY <1>0, <2>1, <2>2, <2>3 DEF TypeOK, table, cmds, held, Steps, LocalsAre, CallNames
  <2> QED BY <1>0, <2>1, <2>2, <2>3, <2>4 DEF TypeInv, held
<1>4. CASE Free(t)
  <2>1. /\ pc[t] = "free"
        /\ \/ bad' = "queue" /\ UNCHANGED <<qst, cmdq, pc, loc, held>>
           \/ /\ q # NoQueue /\ Return(t) /\ UNCHANGED bad
              /\ qst' = [qst EXCEPT ![q] = "freed"]
              /\ cmdq' = [cmdq EXCEPT ![loc[t].dev] = NoQueue]
        /\ UNCHANGED <<table, made, fifo, list, cmds, raced, shared>>
    BY <1>4 DEF Free, At, q
  <2>2. CASE bad' = "queue" /\ UNCHANGED <<qst, cmdq, pc, loc, held>>
    <3>1. TypeOK'
      BY <1>0, <2>1, <2>2 DEF TypeOK, table, cmds, held
    <3>2. \A u \in Thread : LocalsOf(u)'
      BY <2>2 DEF TypeInv, LocalsOf
    <3> QED BY <1>0, <2>1, <2>2, <3>1, <3>2 DEF TypeInv, held
  <2>3. CASE /\ q # NoQueue /\ Return(t) /\ UNCHANGED bad
             /\ qst' = [qst EXCEPT ![q] = "freed"]
             /\ cmdq' = [cmdq EXCEPT ![loc[t].dev] = NoQueue]
    <3>1. loc[t].by \notin Handle \cup {"open", "get"}
      BY <1>1, Bounds
    <3>2. /\ pc' = [pc EXCEPT ![t] = "idle"] /\ loc' = [loc EXCEPT ![t] = NoLocals]
          /\ mine' \subseteq Slots \X Device /\ got' \subseteq Device
          /\ clq' \in [Handle -> [dev : Device \cup {Null}, refc : 0 .. MaxRef]]
          /\ \A h \in Handle : clq'[h].refc > 0 => clq'[h].dev \in Device
          /\ LocalsOf(t)'
      BY <2>3, <3>1, ReturnTypes
    <3>3. /\ qst' \in [Queues -> {"none", "raw", "running", "ended", "freed"}]
          /\ \A p \in Queues : qst'[p] = IF p = q THEN "freed" ELSE qst[p]
      BY <2>3, ThreadTypes
    <3>4. \A p \in Queues : qst'[p] = "none" <=> p > made'
      BY <1>2, <2>1, <3>3, ThreadTypes DEF TypeInv
    <3>5. cmdq' \in [Device -> 0 .. made]
      <4>1. 0 \in 0 .. made
        BY ThreadTypes
      <4> QED BY <2>3, <4>1, ThreadTypes DEF NoQueue
    <3>6. loc' \in [Thread -> LocalsAre(made)] /\ pc' \in [Thread -> Steps]
      BY <1>0, <3>2, ThreadTypes DEF Steps
    <3>7. TypeOK'
      BY <1>0, <2>1, <2>3, <3>2, <3>3, <3>5, <3>6
         DEF TypeOK, table, cmds, Steps, LocalsAre, CallNames
    <3>8. \A u \in Thread : LocalsOf(u)'
      <4> SUFFICES ASSUME NEW u \in Thread, u # t PROVE LocalsOf(u)'
        BY <3>2
      <4>1. pc'[u] = pc[u] /\ loc'[u] = loc[u]
        BY <3>2, ThreadTypes
      <4> QED BY <4>1 DEF TypeInv, LocalsOf
    <3> QED BY <3>2, <3>4, <3>7, <3>8 DEF TypeInv
  <2> QED BY <2>1, <2>2, <2>3
<1> QED BY <1>3, <1>4

(* What is no thread's call: references, commands and joins.               *)
LEMMA OtherKeepsType ==
  ASSUME TypeInv,
         \/ \E h \in Handle : RetainCommandQueue(h)
         \/ \E d \in Reached : Enqueue(d)
         \/ \E q \in Queues : Complete(q)
         \/ \E e \in Event : Join(e)
  PROVE  TypeInv'
<1>0. /\ TypeOK /\ nev \in Nat /\ nev \in 0 .. MaxEvent
      /\ fifo \in [Queues -> Seq(1 .. nev)] /\ list \in [Queues -> Seq(1 .. nev)]
      /\ \A h \in Handle : clq[h].refc > 0 => clq[h].dev \in Device
  <2>1. TypeOK
    BY DEF TypeInv
  <2> QED BY <2>1 DEF TypeInv, TypeOK
<1>1. UNCHANGED <<pc, loc>> => \A u \in Thread : LocalsOf(u)'
  BY DEF TypeInv, LocalsOf
<1>2. ASSUME NEW h \in Handle, RetainCommandQueue(h)
      PROVE  TypeInv'
  <2>1. /\ clq[h].refc \in 1 .. MaxRef - 1
        /\ clq' = [clq EXCEPT ![h].refc = clq[h].refc + 1]
        /\ UNCHANGED <<table, queues, cmds, pc, loc, mine, got, raced, shared, bad>>
    BY <1>2 DEF RetainCommandQueue
  <2>2. clq \in [Handle -> [dev : Device \cup {Null}, refc : 0 .. MaxRef]]
    BY ThreadTypes
  <2>3. clq[h].refc > 0 /\ clq[h].refc + 1 \in 0 .. MaxRef
    BY <2>1 DEF MaxRef
  <2>4. /\ \A g \in Handle : g # h => clq'[g] = clq[g]
        /\ clq'[h] = [clq[h] EXCEPT !.refc = clq[h].refc + 1]
        /\ clq' = [g \in Handle |-> clq'[g]]
    BY <2>1, <2>2
  <2>5. clq'[h] \in [dev : Device \cup {Null}, refc : 0 .. MaxRef] /\ clq'[h].dev = clq[h].dev
    BY <2>2, <2>3, <2>4
  <2>6. /\ clq' \in [Handle -> [dev : Device \cup {Null}, refc : 0 .. MaxRef]]
        /\ \A g \in Handle : clq'[g].refc > 0 => clq'[g].dev \in Device
    BY <1>0, <2>2, <2>3, <2>4, <2>5
  <2>7. TypeOK'
    BY <1>0, <2>1, <2>6 DEF TypeOK, table, queues, cmds
  <2> QED BY <1>1, <2>1, <2>6, <2>7 DEF TypeInv, queues
<1>3. ASSUME NEW d \in Reached, Enqueue(d)
      PROVE  TypeInv'
  <2> DEFINE n == nev + 1
  <2>1. /\ nev < MaxEvent /\ nev' = n
        /\ \/ fifo' = fifo
           \/ Usable(d) /\ fifo' = [fifo EXCEPT ![cmdq[d]] = Append(fifo[cmdq[d]], n)]
        /\ bad' \in {"table", "queue", bad}
        /\ UNCHANGED <<table, cmdq, made, qst, list, freed, pc, loc, held, raced, shared>>
    BY <1>3 DEF Enqueue
  <2>2. n \in 0 .. MaxEvent /\ 1 .. nev \subseteq 1 .. n /\ n \in 1 .. n
    BY <1>0, <2>1, Bounds
  <2> HIDE DEF n
  <2>3. fifo \in [Queues -> Seq(1 .. n)] /\ list \in [Queues -> Seq(1 .. n)]
    <3>1. Seq(1 .. nev) \subseteq Seq(1 .. n)
      BY <2>2, SeqMonotonic
    <3> QED BY <1>0, <3>1
  <2>4. fifo' \in [Queues -> Seq(1 .. n)]
    <3>1. CASE fifo' = fifo
      BY <2>3, <3>1
    <3>2. CASE Usable(d) /\ fifo' = [fifo EXCEPT ![cmdq[d]] = Append(fifo[cmdq[d]], n)]
      <4>1. cmdq[d] \in Queues
        BY <3>2 DEF Usable
      <4>2. Append(fifo[cmdq[d]], n) \in Seq(1 .. n)
        BY <2>2, <2>3, <4>1
      <4> QED BY <2>3, <3>2, <4>1, <4>2
    <3> QED BY <2>1, <3>1, <3>2
  <2>5. freed' \subseteq 1 .. n
    BY <1>0, <2>1, <2>2 DEF TypeOK
  <2>6. TypeOK'
    BY <1>0, <2>1, <2>2, <2>3, <2>4, <2>5 DEF TypeOK, table, held
  <2> QED BY <1>0, <1>1, <2>1, <2>6 DEF TypeInv, held
<1>4. ASSUME NEW q \in Queues, Complete(q)
      PROVE  TypeInv'
  <2>1. /\ fifo[q] # <<>>
        /\ fifo' = [fifo EXCEPT ![q] = Tail(fifo[q])]
        /\ list' = [list EXCEPT ![q] = Append(list[q], Head(fifo[q]))]
        /\ bad' \in {"event", "tail", "no"}
        /\ UNCHANGED <<table, cmdq, made, qst, nev, freed, pc, loc, held, raced, shared>>
    BY <1>4 DEF Complete
  <2>2. fifo[q] \in Seq(1 .. nev) /\ list[q] \in Seq(1 .. nev)
    BY <1>0
  <2>3. Tail(fifo[q]) \in Seq(1 .. nev) /\ Append(list[q], Head(fifo[q])) \in Seq(1 .. nev)
    BY <2>1, <2>2, HeadTailProperties, AppendProperties
  <2>4. fifo' \in [Queues -> Seq(1 .. nev)] /\ list' \in [Queues -> Seq(1 .. nev)]
    BY <1>0, <2>1, <2>3
  <2>5. TypeOK'
    BY <1>0, <2>1, <2>4 DEF TypeOK, table, held
  <2> QED BY <1>0, <1>1, <2>1, <2>5 DEF TypeInv, held
<1>5. ASSUME NEW e \in Event, Join(e)
      PROVE  TypeInv'
  <2>1. /\ e \in 1 .. nev /\ freed' = freed \cup {e}
        /\ UNCHANGED <<table, queues, nev, pc, loc, held, raced, shared, bad>>
    BY <1>5 DEF Join
  <2>2. TypeOK'
    BY <1>0, <2>1 DEF TypeOK, table, queues, held
  <2> QED BY <1>0, <1>1, <2>1, <2>2 DEF TypeInv, held, queues
<1> QED BY <1>2, <1>3, <1>4, <1>5

(* Every step keeps the types. *)
LEMMA NextKeepsType == TypeInv /\ [Next]_vars => TypeInv'
<1> SUFFICES ASSUME TypeInv, [Next]_vars PROVE TypeInv'
  OBVIOUS
<1>1. ASSUME NEW t \in Thread, Step(t) PROVE TypeInv'
  BY <1>1, BeginKeepsType, TableKeepsType, MakingKeepsType, ReleaseKeepsType DEF Step
<1>2. CASE UNCHANGED vars
  <2>1. TypeOK'
    BY <1>2 DEF TypeInv, TypeOK, vars
  <2>2. \A u \in Thread : LocalsOf(u)'
    BY <1>2 DEF TypeInv, LocalsOf, vars
  <2> QED BY <1>2, <2>1, <2>2 DEF TypeInv, vars
<1> QED BY <1>1, <1>2, OtherKeepsType DEF Next

(* Every variable keeps its type however the calls interleave: no slot     *)
(* behind the table enters a descriptor, and a call in which a device is   *)
(* followed to its queue has one.                                          *)
THEOREM TypeCorrect == Spec => []TypeOK
<1>1. TypeInv => TypeOK
  BY DEF TypeInv
<1> QED BY <1>1, TypeInit, NextKeepsType, PTL DEF Spec
-----------------------------------------------------------------------------
(* One call at a time. A step of a call is then the step of the only one;  *)
(* what remains gives a reference of an OpenCL queue back, or takes one.   *)
Alone(t) == \A u \in Thread : u # t => pc[u] = "idle"

Recount ==
  /\ UNCHANGED <<table, queues, cmds, pc, loc, mine, got, raced, shared, bad>>
  /\ \A h \in Handle : clq'[h].dev = clq[h].dev /\ (clq'[h].refc > 0 <=> clq[h].refc > 0)

(* Only a step of a thread in a call moves it. *)
LEMMA CallFacts ==
  ASSUME TypeInv, NEW t \in Thread, Step(t)
  PROVE  \/ Recount
         \/ /\ bad = "no" /\ pc' = [pc EXCEPT ![t] = pc'[t]]
            /\ loc' = [loc EXCEPT ![t] = loc'[t]]
            /\ \A u \in Thread : u # t => pc'[u] = pc[u] /\ loc'[u] = loc[u]
            /\ \/ pc[t] = "idle" /\ raced' = (raced \/ \E u \in Thread : pc[u] # "idle")
               \/ pc[t] # "idle" /\ raced' = raced
<1>0. pc \in [Thread -> Steps] /\ loc \in [Thread -> LocalsAre(made)]
  BY ThreadTypes
<1>1. ASSUME bad = "no", \/ UNCHANGED pc \/ \E s : pc' = [pc EXCEPT ![t] = s],
             \/ UNCHANGED loc \/ \E r : loc' = [loc EXCEPT ![t] = r],
             \/ pc[t] = "idle" /\ raced' = (raced \/ \E u \in Thread : pc[u] # "idle")
             \/ pc[t] # "idle" /\ raced' = raced
      PROVE  /\ bad = "no" /\ pc' = [pc EXCEPT ![t] = pc'[t]]
             /\ loc' = [loc EXCEPT ![t] = loc'[t]]
             /\ \A u \in Thread : u # t => pc'[u] = pc[u] /\ loc'[u] = loc[u]
             /\ \/ pc[t] = "idle" /\ raced' = (raced \/ \E u \in Thread : pc[u] # "idle")
                \/ pc[t] # "idle" /\ raced' = raced
  <2>1. /\ pc' = [pc EXCEPT ![t] = pc'[t]]
        /\ \A u \in Thread : u # t => pc'[u] = pc[u]
    BY <1>0, <1>1
  <2>2. /\ loc' = [loc EXCEPT ![t] = loc'[t]]
        /\ \A u \in Thread : u # t => loc'[u] = loc[u]
    BY <1>0, <1>1
  <2> QED BY <1>1, <2>1, <2>2
<1>2. CASE \E d \in Device : DOpen(t, d) \/ DevGet(t, d)
  BY <1>1, <1>2 DEF DOpen, DevGet, Begin
<1>3. CASE \E h \in Handle, d \in Device : CreateCommandQueue(t, h, d)
  BY <1>1, <1>3 DEF CreateCommandQueue, Begin
<1>4. ASSUME NEW h \in Handle, Release(t, h), clq[h].refc = 1
      PROVE  /\ bad = "no" /\ pc' = [pc EXCEPT ![t] = pc'[t]]
             /\ loc' = [loc EXCEPT ![t] = loc'[t]]
             /\ \A u \in Thread : u # t => pc'[u] = pc[u] /\ loc'[u] = loc[u]
             /\ \/ pc[t] = "idle" /\ raced' = (raced \/ \E u \in Thread : pc[u] # "idle")
                \/ pc[t] # "idle" /\ raced' = raced
  <2>1. ~(clq[h].refc > 1)
    BY <1>4
  <2> QED BY <1>1, <1>4, <2>1 DEF Release, Begin
<1>5. ASSUME NEW h \in Handle, Release(t, h), clq[h].refc # 1
      PROVE  Recount
  <2>1. /\ clq[h].refc > 1 /\ clq' = [clq EXCEPT ![h].refc = clq[h].refc - 1]
        /\ UNCHANGED <<table, queues, cmds, pc, loc, mine, got, raced, shared, bad>>
    BY <1>5 DEF Release
  <2>2. /\ clq \in [Handle -> [dev : Device \cup {Null}, refc : 0 .. MaxRef]]
        /\ clq[h] \in [dev : Device \cup {Null}, refc : 0 .. MaxRef]
    BY ThreadTypes
  <2>3. /\ \A g \in Handle : g # h => clq'[g] = clq[g]
        /\ clq'[h] = [clq[h] EXCEPT !.refc = clq[h].refc - 1]
    BY <2>1, <2>2
  <2>4. clq'[h].dev = clq[h].dev /\ clq'[h].refc > 0 /\ clq[h].refc > 0
    BY <2>1, <2>2, <2>3 DEF MaxRef
  <2>5. \A g \in Handle :
          clq'[g].dev = clq[g].dev /\ (clq'[g].refc > 0 <=> clq[g].refc > 0)
    BY <2>3, <2>4
  <2> QED BY <2>1, <2>5, Zenon DEF Recount
<1>6. CASE DClose(t)
  BY <1>1, <1>6 DEF DClose, Begin
<1>7. CASE Reset(t) \/ Fill(t) \/ Take(t) \/ Advance(t)
  BY <1>1, <1>7 DEF Reset, Fill, Take, Advance, Return, Goto, At
<1>8. CASE Test(t) \/ Publish(t) \/ Start(t)
  BY <1>1, <1>8 DEF Test, Publish, Start, Return, Goto, At
<1>9. CASE Stop(t) \/ Free(t)
  BY <1>1, <1>9 DEF Stop, Free, Return, Goto, At
<1> QED BY <1>2, <1>3, <1>4, <1>5, <1>6, <1>7, <1>8, <1>9 DEF Step

(* So calls that have not overlapped still have not, or it is remembered.  *)
LEMMA AloneFacts ==
  ASSUME TypeInv, ~raced => Solo, NEW t \in Thread, Step(t), ~raced'
  PROVE  /\ ~raced
         /\ \/ Recount
            \/ /\ bad = "no" /\ Alone(t) /\ Alone(t)'
               /\ pc' = [pc EXCEPT ![t] = pc'[t]] /\ loc' = [loc EXCEPT ![t] = loc'[t]]
<1>1. CASE Recount
  BY <1>1 DEF Recount
<1>2. CASE ~Recount
  <2>1. ~raced /\ Alone(t)
    BY <1>2, CallFacts DEF Alone, Solo
  <2> QED BY <1>2, <2>1, CallFacts DEF Alone
<1> QED BY <1>1, <1>2
(* What a call that returns hands over. *)
LEMMA ReturnFacts ==
  ASSUME TypeInv, NEW t \in Thread, Return(t)
  PROVE  /\ pc'[t] = "idle"
         /\ loc[t].by = "open" => mine' = mine \cup {<<loc[t].dd, loc[t].dev>>}
         /\ loc[t].by # "open" => mine' = mine
         /\ loc[t].by = "get" => got' = got \cup {loc[t].dev}
         /\ loc[t].by # "get" => got' = got
         /\ loc[t].by \in Handle =>
              clq' = [clq EXCEPT ![loc[t].by] = [dev |-> loc[t].dev, refc |-> 1]]
         /\ loc[t].by \notin Handle => clq' = clq
BY ThreadTypes DEF Return

(* The descriptor table after a step of the only call, from four facts.    *)
LEMMA TableAfter ==
  ASSUME TypeInv, NEW t \in Thread, Alone(t)',
         \A m \in mine' : ddtab'[m[1]] = m[2], TableOf(t)',
         pc'[t] \notin {"take", "advance"} => NextFree',
         \A s \in Slots : s < nxt' => Full(s)' \/ (pc'[t] = "reset" /\ loc'[t].dd = s)
  PROVE  TableInv'
<1>1. \A u \in Thread : u # t => TableOf(u)'
  BY DEF Alone, TableOf, Making
<1> QED BY <1>1 DEF TableInv

(* Beginning a call. *)
LEMMA BeginKeepsTable ==
  ASSUME TypeInv, TableInv, bad # "table", NEW t \in Thread, Alone(t), Alone(t)',
         \/ \E d \in Device : DOpen(t, d) \/ DevGet(t, d)
         \/ \E h \in Handle : Release(t, h) /\ clq[h].refc = 1
         \/ \E h \in Handle, d \in Device : CreateCommandQueue(t, h, d)
         \/ DClose(t)
  PROVE  TableInv' /\ bad' # "table"
<1>1. /\ pc[t] = "idle"
      /\ \A r, s : Begin(t, r, s) => pc'[t] = s /\ loc'[t] = r
  <2>1. /\ \A r, s : Begin(t, r, s) => pc'[t] = s /\ loc'[t] = r
        /\ \A r, s : Begin(t, r, s) => pc[t] = "idle"
    BY ThreadTypes DEF Begin
  <2>2. \A h \in Handle : clq[h].refc = 1 => ~(clq[h].refc > 1)
    OBVIOUS
  <2> QED BY <2>1, <2>2 DEF DOpen, DevGet, Release, CreateCommandQueue, DClose
<1>2. /\ \A m \in mine : ddtab[m[1]] = m[2]
      /\ NextFree
      /\ \A s \in Slots : s < nxt => Full(s)
  BY <1>1 DEF TableInv, Alone
<1>3. ASSUME UNCHANGED <<table, mine, bad>>, TableOf(t)',
             pc'[t] \in {"slot", "test", "stop"}
      PROVE  TableInv' /\ bad' # "table"
  <2>1. NextFree' /\ \A s \in Slots : s < nxt' => Full(s)'
    BY <1>2, <1>3 DEF NextFree, Full, table
  <2> QED BY <1>2, <1>3, <2>1, TableAfter DEF table
<1>4. ASSUME NEW d \in Device, DOpen(t, d)
      PROVE  TableInv' /\ bad' # "table"
  <2>1. /\ nxt # NSlot /\ pc'[t] = "slot"
        /\ UNCHANGED <<table, queues, cmds, held, shared, bad>>
    BY <1>1, <1>4 DEF DOpen
  <2>2. TableOf(t)'
    BY <1>2, <2>1 DEF TableOf, Making, NextFree, table
  <2> QED BY <1>3, <2>1, <2>2 DEF held
<1>5. ASSUME NEW d \in Device, DevGet(t, d)
      PROVE  TableInv' /\ bad' # "table"
  <2>1. /\ pc'[t] = "test" /\ loc'[t] = [NoLocals EXCEPT !.dev = d, !.by = "get"]
        /\ UNCHANGED <<table, queues, cmds, held, shared, bad>>
    BY <1>1, <1>5 DEF DevGet
  <2>2. loc'[t].by = "get"
    BY <2>1 DEF NoLocals
  <2>3. TableOf(t)'
    BY <2>1, <2>2 DEF TableOf, Making
  <2> QED BY <1>3, <2>1, <2>3 DEF held
<1>6. ASSUME NEW h \in Handle, NEW d \in Device, CreateCommandQueue(t, h, d)
      PROVE  TableInv' /\ bad' # "table"
  <2>1. /\ pc'[t] = "test" /\ loc'[t] = [NoLocals EXCEPT !.dev = d, !.by = h]
        /\ UNCHANGED <<table, queues, cmds, held, shared, bad>>
    BY <1>1, <1>6 DEF CreateCommandQueue
  <2>2. loc'[t].by = h /\ h # "open"
    BY <2>1, Bounds DEF NoLocals
  <2>3. TableOf(t)'
    BY <2>1, <2>2 DEF TableOf, Making
  <2> QED BY <1>3, <2>1, <2>3 DEF held
<1>7. ASSUME NEW h \in Handle, Release(t, h), clq[h].refc = 1
      PROVE  TableInv' /\ bad' # "table"
  <2>0. ~(clq[h].refc > 1)
    BY <1>7
  <2>1. /\ pc'[t] = "stop"
        /\ UNCHANGED <<table, queues, cmds, mine, got, bad>>
    BY <1>1, <1>7, <2>0 DEF Release
  <2>2. TableOf(t)'
    BY <2>1 DEF TableOf, Making
  <2> QED BY <1>3, <2>1, <2>2
<1>8. CASE DClose(t)
  <2>1. PICK m \in mine :
          /\ Begin(t, [NoLocals EXCEPT !.dd = m[1], !.by = "close"], "reset")
          /\ mine' = mine \ {m}
          /\ ddtab' = [ddtab EXCEPT ![m[1]] = Null]
          /\ UNCHANGED <<nxt, queues, cmds, got, clq, shared, bad>>
    BY <1>8 DEF DClose
  <2>2. /\ pc'[t] = "reset" /\ loc'[t].dd = m[1] /\ loc'[t].by = "close"
        /\ m \in Slots \X Device
    <3>1. loc'[t] = [NoLocals EXCEPT !.dd = m[1], !.by = "close"] /\ pc'[t] = "reset"
      BY <1>1, <2>1
    <3> QED BY <3>1, ThreadTypes DEF NoLocals
  <2>3. ddtab'[m[1]] = Null /\ \A s \in Slots : s # m[1] => ddtab'[s] = ddtab[s]
    BY <2>1, <2>2, ThreadTypes
  <2>4. \A n \in mine' : ddtab'[n[1]] = n[2]
    <3> SUFFICES ASSUME NEW n \in mine' PROVE ddtab'[n[1]] = n[2]
      OBVIOUS
    <3>1. n \in mine /\ n # m /\ n \in Slots \X Device
      BY <2>1, ThreadTypes
    <3>2. n[1] # m[1]
      BY <1>2, <2>2, <3>1
    <3> QED BY <1>2, <2>3, <3>1, <3>2
  <2>5. NextFree'
    BY <1>2, <2>1, <2>3 DEF NextFree
  <2>6. \A s \in Slots : s < nxt' => Full(s)' \/ s = m[1]
    BY <1>2, <2>1, <2>3 DEF Full
  <2>7. TableOf(t)'
    BY <2>2, <2>3 DEF TableOf, Making
  <2> QED BY <2>1, <2>2, <2>4, <2>5, <2>6, <2>7, TableAfter
<1> QED BY <1>4, <1>5, <1>6, <1>7, <1>8
(* Opening and closing: each finds the table as the step before left it.   *)
LEMMA TableKeepsTable ==
  ASSUME TypeInv, TableInv, bad # "table", NEW t \in Thread, Alone(t), Alone(t)',
         Fill(t) \/ Take(t) \/ Advance(t) \/ Reset(t)
  PROVE  TableInv' /\ bad' # "table"
<1>0. /\ LocalsOf(t) /\ TableOf(t)
      /\ \A m \in mine : ddtab[m[1]] = m[2] /\ m \in Slots \X Device
      /\ pc[t] \notin {"take", "advance"} => NextFree
      /\ \A s \in Slots : s < nxt => Full(s) \/ (pc[t] = "reset" /\ loc[t].dd = s)
      /\ ddtab \in [Slots -> Device \cup {Null}] /\ nxt \in Nat
      /\ \A s \in Slots : s \in Nat
      /\ pc \in [Thread -> Steps] /\ loc \in [Thread -> LocalsAre(made)]
  BY ThreadTypes, Bounds DEF TypeInv, TableInv, Alone
<1>1. CASE Fill(t)
  <2>1. nxt \in Slots /\ ddtab[nxt] = Null /\ loc[t].dev \in Device
    BY <1>0, <1>1, Bounds DEF Fill, At, TableOf, LocalsOf, NextFree, Opening
  <2>2. /\ ddtab' = [ddtab EXCEPT ![nxt] = loc[t].dev] /\ pc'[t] = "take"
        /\ UNCHANGED <<nxt, queues, cmds, held, loc, raced, shared, bad>>
        /\ pc[t] = "slot"
    BY <1>0, <1>1, <2>1 DEF Fill, At, Goto
  <2>3. /\ ddtab'[nxt] = loc[t].dev
        /\ \A s \in Slots : s # nxt => ddtab'[s] = ddtab[s]
    BY <1>0, <2>1, <2>2
  <2>4. TableOf(t)'
    BY <2>1, <2>2, <2>3, NullIsNoDevice DEF TableOf, Full, Making
  <2>5. \A m \in mine' : ddtab'[m[1]] = m[2]
    BY <1>0, <2>1, <2>2, <2>3, NullIsNoDevice DEF held
  <2>6. \A s \in Slots : s < nxt' => Full(s)'
    BY <1>0, <2>2, <2>3 DEF Full
  <2> QED BY <2>2, <2>4, <2>5, <2>6, TableAfter
<1>2. CASE Take(t)
  <2>1. /\ pc[t] = "take" /\ pc'[t] = "advance" /\ loc'[t] = [loc[t] EXCEPT !.dd = nxt]
        /\ UNCHANGED <<table, queues, cmds, held, raced, shared, bad>>
    BY <1>0, <1>2 DEF Take, At, Goto
  <2>2. loc'[t].dd = nxt /\ loc'[t].dev = loc[t].dev
    BY <1>0, <2>1 DEF LocalsAre
  <2>3. TableOf(t)'
    BY <1>0, <2>1, <2>2 DEF TableOf, Full, Making, table
  <2>4. \A s \in Slots : s < nxt' => Full(s)'
    BY <1>0, <2>1 DEF Full, table
  <2> QED BY <1>0, <2>1, <2>3, <2>4, TableAfter DEF table, held
<1>3. CASE Advance(t)
  <2>1. /\ pc[t] = "advance" /\ nxt' = nxt + 1
        /\ pc'[t] = IF nxt' \in Slots /\ ddtab[nxt'] # Null THEN "advance" ELSE "test"
        /\ UNCHANGED <<ddtab, queues, cmds, held, loc, raced, shared, bad>>
    BY <1>0, <1>3 DEF Advance, At, Goto
  <2>2. Full(nxt) /\ nxt < NSlot
    BY <1>0, <2>1, Bounds DEF TableOf, Full
  <2>3. \A s \in Slots : s < nxt' => Full(s)'
    BY <1>0, <2>1, <2>2 DEF Full
  <2>4. pc'[t] # "advance" => NextFree'
    BY <1>0, <2>1, <2>2, Bounds DEF NextFree
  <2>5. TableOf(t)'
    BY <1>0, <2>1 DEF TableOf, Full, Making
  <2> QED BY <1>0, <2>1, <2>3, <2>4, <2>5, TableAfter DEF held
<1>4. CASE Reset(t)
  <2>1. /\ pc[t] = "reset" /\ Return(t)
        /\ nxt' = IF loc[t].dd < nxt THEN loc[t].dd ELSE nxt
        /\ UNCHANGED <<ddtab, queues, cmds, raced, shared, bad>>
    BY <1>4 DEF Reset, At
  <2>2. loc[t].by = "close" /\ loc[t].dd \in Slots /\ ddtab[loc[t].dd] = Null
    BY <1>0, <2>1 DEF LocalsOf, TableOf
  <2>3. pc'[t] = "idle" /\ mine' = mine
    BY <2>1, <2>2, ReturnFacts
  <2>4. NextFree'
    BY <1>0, <2>1, <2>2 DEF NextFree
  <2>5. \A s \in Slots : s < nxt' => Full(s)'
    BY <1>0, <2>1, <2>2 DEF Full
  <2>6. TableOf(t)'
    BY <2>3 DEF TableOf, Making
  <2> QED BY <1>0, <2>1, <2>3, <2>4, <2>5, <2>6, TableAfter
<1> QED BY <1>1, <1>2, <1>3, <1>4

(* Making or releasing a queue leaves the table alone; an open that ends   *)
(* hands over a slot that holds its device.                                *)
LEMMA QueueKeepsTable ==
  ASSUME TypeInv, TableInv, bad # "table", NEW t \in Thread, Alone(t), Alone(t)',
         Test(t) \/ Publish(t) \/ Start(t) \/ Stop(t) \/ Free(t)
  PROVE  TableInv' /\ bad' # "table"
<1>0. /\ LocalsOf(t) /\ TableOf(t)
      /\ \A m \in mine : ddtab[m[1]] = m[2]
      /\ pc \in [Thread -> Steps] /\ loc \in [Thread -> LocalsAre(made)]
  BY ThreadTypes DEF TypeInv, TableInv
<1>1. pc[t] \in Making \cup {"stop", "free"} /\ UNCHANGED table
  BY DEF Test, Publish, Start, Stop, Free, At, Making
<1>2. NextFree' /\ \A s \in Slots : s < nxt' => Full(s)'
  <2>1. NextFree /\ \A s \in Slots : s < nxt => Full(s)
    BY <1>1 DEF TableInv, Alone, Making
  <2> QED BY <1>1, <2>1 DEF NextFree, Full, table
<1>3. ASSUME Return(t) PROVE TableInv'
  <2>1. pc'[t] = "idle"
    BY <1>3, ReturnFacts
  <2>2. \A m \in mine' : ddtab'[m[1]] = m[2]
    <3>1. CASE loc[t].by = "open"
      <4>1. mine' = mine \cup {<<loc[t].dd, loc[t].dev>>}
        BY <1>3, <3>1, ReturnFacts
      <4>2. ddtab[loc[t].dd] = loc[t].dev
        BY <1>0, <1>1, <3>1 DEF TableOf, LocalsOf
      <4> QED BY <1>0, <1>1, <4>1, <4>2 DEF table
    <3>2. CASE loc[t].by # "open"
      <4>1. mine' = mine
        BY <1>3, <3>2, ReturnFacts
      <4> QED BY <1>0, <1>1, <4>1 DEF table
    <3> QED BY <3>1, <3>2
  <2>3. TableOf(t)'
    BY <2>1 DEF TableOf, Making
  <2> QED BY <1>2, <2>1, <2>2, <2>3, TableAfter
<1>4. ASSUME UNCHANGED mine, pc'[t] \in Making \cup {"stop", "free"},
             loc'[t].by = loc[t].by, loc'[t].dd = loc[t].dd, loc'[t].dev = loc[t].dev
      PROVE  TableInv'
  <2>1. TableOf(t)'
    <3>1. pc'[t] \in Making => pc[t] \in Making \/ loc[t].by = "release"
      BY <1>0, <1>1 DEF LocalsOf
    <3>2. pc[t] \in Making /\ loc[t].by = "open" =>
            loc[t].dd \in Slots /\ ddtab[loc[t].dd] = loc[t].dev
      BY <1>0 DEF TableOf
    <3> QED BY <1>1, <1>4, <3>1, <3>2 DEF TableOf, Making, table
  <2> QED BY <1>0, <1>1, <1>2, <1>4, <2>1, TableAfter DEF Making, table
<1>5. CASE Test(t)
  <2> DEFINE d == IF loc[t].by # "open" THEN loc[t].dev
                  ELSE IF loc[t].dd \in Slots THEN ddtab[loc[t].dd] ELSE Null
  <2>1. d = loc[t].dev /\ d # Null
    BY <1>0, <1>5, NullIsNoDevice DEF Test, At, TableOf, LocalsOf, Making
  <2>2. \/ Return(t) /\ UNCHANGED bad
        \/ /\ loc' = [loc EXCEPT ![t] = [loc[t] EXCEPT !.at = d]]
           /\ Goto(t, "publish") /\ UNCHANGED <<held, bad>>
    BY <1>5, <2>1 DEF Test
  <2>3. CASE Return(t) /\ UNCHANGED bad
    BY <1>3, <2>3
  <2>4. CASE /\ loc' = [loc EXCEPT ![t] = [loc[t] EXCEPT !.at = d]]
             /\ Goto(t, "publish") /\ UNCHANGED <<held, bad>>
    <3>1. pc'[t] = "publish" /\ loc'[t] = [loc[t] EXCEPT !.at = d]
      BY <1>0, <2>4 DEF Goto
    <3>2. loc'[t].by = loc[t].by /\ loc'[t].dd = loc[t].dd /\ loc'[t].dev = loc[t].dev
      BY <1>0, <3>1 DEF LocalsAre
    <3> QED BY <1>4, <2>4, <3>1, <3>2 DEF Making, held
  <2> QED BY <2>2, <2>3, <2>4
<1>6. CASE Publish(t)
  <2>1. pc'[t] = "start" /\ loc'[t] = [loc[t] EXCEPT !.q = made + 1] /\ UNCHANGED <<held, bad>>
    BY <1>0, <1>6 DEF Publish, Goto
  <2>2. loc'[t].by = loc[t].by /\ loc'[t].dd = loc[t].dd /\ loc'[t].dev = loc[t].dev
    BY <1>0, <2>1 DEF LocalsAre
  <2> QED BY <1>4, <2>1, <2>2 DEF Making, held
<1>7. CASE Start(t)
  BY <1>3, <1>7 DEF Start
<1>8. CASE Stop(t)
  <2> DEFINE q == cmdq[loc[t].dev]
  <2>1. \/ bad' = "queue" /\ UNCHANGED <<pc, loc>>
        \/ /\ loc' = [loc EXCEPT ![t] = [loc[t] EXCEPT !.q = q]]
           /\ Goto(t, "free") /\ UNCHANGED bad
    BY <1>8 DEF Stop
  <2>2. /\ loc'[t].by = loc[t].by /\ loc'[t].dd = loc[t].dd /\ loc'[t].dev = loc[t].dev
        /\ pc'[t] \in Making \cup {"stop", "free"}
    <3>1. CASE UNCHANGED <<pc, loc>>
      BY <1>1, <3>1
    <3>2. CASE loc' = [loc EXCEPT ![t] = [loc[t] EXCEPT !.q = q]] /\ Goto(t, "free")
      BY <1>0, <3>2 DEF Goto, LocalsAre
    <3> QED BY <2>1, <3>1, <3>2
  <2>3. UNCHANGED mine
    BY <1>8 DEF Stop, held
  <2> QED BY <1>4, <2>1, <2>2, <2>3
<1>9. CASE Free(t)
  <2>1. \/ bad' = "queue" /\ UNCHANGED <<pc, loc, held>>
        \/ Return(t) /\ UNCHANGED bad
    BY <1>9 DEF Free
  <2>2. CASE bad' = "queue" /\ UNCHANGED <<pc, loc, held>>
    BY <1>1, <1>4, <2>2 DEF held
  <2> QED BY <1>3, <2>1, <2>2
<1> QED BY <1>5, <1>6, <1>7, <1>8, <1>9

(* While calls do not overlap a descriptor names its device.               *)
LEMMA TableStep ==
  ASSUME TypeInv, TableAlone, [Next]_vars
  PROVE  TableAlone'
<1> SUFFICES ASSUME ~raced' PROVE Solo' /\ TableInv' /\ bad' # "table"
  BY DEF TableAlone
<1>1. ASSUME UNCHANGED <<table, pc, loc, mine, raced>>, bad' # "table"
      PROVE  Solo' /\ TableInv' /\ bad' # "table"
  <2>1. Solo /\ TableInv
    BY <1>1 DEF TableAlone
  <2> QED BY <1>1, <2>1 DEF Solo, TableInv, TableOf, NextFree, Full, table
<1>2. ASSUME NEW t \in Thread, Step(t)
      PROVE  Solo' /\ TableInv' /\ bad' # "table"
  <2>1. /\ ~raced /\ Solo /\ TableInv /\ bad # "table"
        /\ Recount \/ (Alone(t) /\ Alone(t)')
    BY <1>2, AloneFacts DEF TableAlone
  <2>2. CASE Recount
    BY <1>1, <2>1, <2>2 DEF Recount
  <2>3. CASE Alone(t) /\ Alone(t)'
    <3>1. Solo'
      BY <2>3 DEF Alone, Solo
    <3>2. ASSUME NEW h \in Handle, Release(t, h), clq[h].refc # 1
          PROVE  TableInv' /\ bad' # "table"
      <4>1. UNCHANGED <<table, pc, loc, mine, raced, bad>>
        BY <3>2 DEF Release
      <4> QED BY <1>1, <2>1, <4>1
    <3> QED
      BY <1>2, <2>1, <2>3, <3>1, <3>2, BeginKeepsTable, TableKeepsTable,
         QueueKeepsTable DEF Step
  <2> QED BY <2>1, <2>2, <2>3
<1>3. CASE \E h \in Handle : RetainCommandQueue(h)
  BY <1>1, <1>3 DEF RetainCommandQueue, TableAlone
<1>4. ASSUME NEW d \in Reached, Enqueue(d)
      PROVE  Solo' /\ TableInv' /\ bad' # "table"
  <2>1. UNCHANGED <<table, pc, loc, held, raced>> /\ (bad' = "table" => d = Null \/ bad = "table")
    BY <1>4 DEF Enqueue
  <2>2. ~raced /\ TableInv /\ bad # "table"
    BY <2>1 DEF TableAlone
  <2>3. d # Null
    <3>1. d \in {ddtab[m[1]] : m \in mine} \/ d \in got
            \/ \E h \in Handle : clq[h].refc > 0 /\ d = clq[h].dev
      BY <1>4 DEF Reached
    <3>2. \A m \in mine : ddtab[m[1]] \in Device
      BY <2>2, ThreadTypes DEF TableInv
    <3> QED BY <3>1, <3>2, ThreadTypes, NullIsNoDevice DEF TypeInv
  <2> QED BY <1>1, <2>1, <2>2, <2>3 DEF held
<1>5. CASE \E q \in Queues : Complete(q)
  BY <1>1, <1>5 DEF Complete, held
<1>6. CASE \E e \in Event : Join(e)
  BY <1>1, <1>6 DEF Join, TableAlone, held
<1>7. CASE UNCHANGED vars
  BY <1>1, <1>7 DEF vars, table, TableAlone
<1> QED BY <1>2, <1>3, <1>4, <1>5, <1>6, <1>7 DEF Next
-----------------------------------------------------------------------------
(* The queues.                                                             *)

(* The queues after a step of the only call: one that is being started or  *)
(* freed is the caller's.                                                  *)
LEMMA QueuesAfter ==
  ASSUME TypeInv, NEW t \in Thread, Alone(t)', QueueOf(t)',
         \A q \in Queues :
           qst'[q] \in {"raw", "running", "ended"} => \E d \in Device : cmdq'[d] = q,
         \A d \in Device : cmdq'[d] # NoQueue => qst'[cmdq'[d]] # "freed",
         \A d, e \in Device : cmdq'[d] = cmdq'[e] /\ cmdq'[d] # NoQueue => d = e,
         \A q \in Queues :
           /\ qst'[q] = "raw" => pc'[t] = "start" /\ loc'[t].q = q
           /\ qst'[q] = "ended" => pc'[t] = "free" /\ loc'[t].q = q
  PROVE  QueueInv'
<1>1. \A u \in Thread : u # t => QueueOf(u)'
  BY DEF Alone, QueueOf
<1>2. \A q \in Queues :
        /\ qst'[q] = "raw" => \E u \in Thread : pc'[u] = "start" /\ loc'[u].q = q
        /\ qst'[q] = "ended" => \E u \in Thread : pc'[u] = "free" /\ loc'[u].q = q
  OBVIOUS
<1> QED BY <1>1, <1>2 DEF QueueInv

(* What the only call knows of the queues.                                 *)
LEMMA QueuesBefore ==
  ASSUME TypeInv, QueueInv, NEW t \in Thread, Alone(t)
  PROVE  /\ LocalsOf(t) /\ QueueOf(t)
         /\ \A q \in Queues :
              qst[q] \in {"raw", "running", "ended"} => \E d \in Device : cmdq[d] = q
         /\ \A d \in Device : cmdq[d] # NoQueue => qst[cmdq[d]] # "freed"
         /\ \A d, e \in Device : cmdq[d] = cmdq[e] /\ cmdq[d] # NoQueue => d = e
         /\ \A q \in Queues :
              /\ qst[q] = "raw" => pc[t] = "start" /\ loc[t].q = q
              /\ qst[q] = "ended" => pc[t] = "free" /\ loc[t].q = q
         /\ \A d \in Device : cmdq[d] # NoQueue => cmdq[d] \in Queues /\ cmdq[d] <= made
         /\ \A d \in Device :
              cmdq[d] # NoQueue /\ pc[t] \notin {"start", "free"} => Joinable(d)
<1>1. /\ \A q \in Queues :
           qst[q] \in {"raw", "running", "ended"} => \E d \in Device : cmdq[d] = q
      /\ \A d \in Device : cmdq[d] # NoQueue => qst[cmdq[d]] # "freed"
      /\ \A d, e \in Device : cmdq[d] = cmdq[e] /\ cmdq[d] # NoQueue => d = e
      /\ LocalsOf(t) /\ QueueOf(t)
  BY DEF QueueInv, TypeInv
<1>2. \A q \in Queues :
        /\ qst[q] = "raw" => pc[t] = "start" /\ loc[t].q = q
        /\ qst[q] = "ended" => pc[t] = "free" /\ loc[t].q = q
  BY DEF QueueInv, Alone
<1>3. \A d \in Device : cmdq[d] # NoQueue => cmdq[d] \in Queues /\ cmdq[d] <= made
  <2> SUFFICES ASSUME NEW d \in Device, cmdq[d] # NoQueue
               PROVE  cmdq[d] \in Queues /\ cmdq[d] <= made
    OBVIOUS
  <2>1. cmdq[d] \in 0 .. made /\ made \in 0 .. MaxQueue
    BY ThreadTypes
  <2> QED BY <2>1, Bounds DEF NoQueue
<1>4. \A d \in Device :
        cmdq[d] # NoQueue /\ pc[t] \notin {"start", "free"} => Joinable(d)
  <2> SUFFICES ASSUME NEW d \in Device, cmdq[d] # NoQueue, pc[t] \notin {"start", "free"}
               PROVE  Joinable(d)
    OBVIOUS
  <2>1. cmdq[d] \in Queues /\ cmdq[d] <= made /\ cmdq[d] \in Nat /\ made \in Nat
    BY <1>3, Bounds, ThreadTypes
  <2>2. qst[cmdq[d]] # "none"
    <3>1. ~(cmdq[d] > made)
      BY <2>1
    <3> QED BY <2>1, <3>1 DEF TypeInv
  <2>3. qst[cmdq[d]] \in {"none", "raw", "running", "ended", "freed"}
    BY <2>1, ThreadTypes
  <2> QED BY <1>1, <1>2, <2>1, <2>2, <2>3 DEF Joinable
<1> QED BY <1>1, <1>2, <1>3, <1>4

(* A step that leaves the queues alone.                                    *)
LEMMA QueuesStill ==
  ASSUME TypeInv, QueueInv, NEW t \in Thread, Alone(t), Alone(t)',
         UNCHANGED <<cmdq, qst>>, pc[t] \notin {"start", "free"},
         pc'[t] \notin {"publish", "start", "free"}
  PROVE  QueueInv'
<1>1. QueueOf(t)'
  BY DEF QueueOf
<1> QED BY <1>1, QueuesBefore, QueuesAfter

(* A call publishes a queue where there is none, starts it, and a release  *)
(* takes it from its one device.                                           *)
LEMMA CallKeepsQueues ==
  ASSUME TypeInv, TableInv, QueueInv, NEW t \in Thread, Alone(t), Alone(t)', Step(t)
  PROVE  QueueInv'
<1>0. pc \in [Thread -> Steps] /\ loc \in [Thread -> LocalsAre(made)]
  BY ThreadTypes
<1>b. \A q \in Queues : q # NoQueue /\ q \in Nat
  BY Bounds DEF NoQueue
<1>1. CASE \E d \in Device : DOpen(t, d) \/ DevGet(t, d)
  <2>1. pc'[t] \in {"slot", "test"} /\ pc[t] = "idle" /\ UNCHANGED queues
    BY <1>0, <1>1 DEF DOpen, DevGet, Begin
  <2> QED BY <2>1, QueuesStill DEF queues
<1>2. CASE \E h \in Handle, d \in Device : CreateCommandQueue(t, h, d)
  <2>1. pc'[t] = "test" /\ pc[t] = "idle" /\ UNCHANGED queues
    BY <1>0, <1>2 DEF CreateCommandQueue, Begin
  <2> QED BY <2>1, QueuesStill DEF queues
<1>3. ASSUME NEW h \in Handle, Release(t, h) PROVE QueueInv'
  <2>1. CASE clq[h].refc = 1
    <3>0. ~(clq[h].refc > 1)
      BY <2>1
    <3>1. pc'[t] = "stop" /\ pc[t] = "idle" /\ UNCHANGED queues
      BY <1>0, <1>3, <3>0 DEF Release, Begin
    <3> QED BY <3>1, QueuesStill DEF queues
  <2>2. CASE clq[h].refc # 1
    <3>1. UNCHANGED <<queues, pc, loc>>
      BY <1>3, <2>2 DEF Release
    <3> QED BY <3>1 DEF QueueInv, QueueOf, queues
  <2> QED BY <2>1, <2>2
<1>4. CASE DClose(t)
  <2>1. pc'[t] = "reset" /\ pc[t] = "idle" /\ UNCHANGED queues
    BY <1>0, <1>4 DEF DClose, Begin
  <2> QED BY <2>1, QueuesStill DEF queues
<1>5. CASE Fill(t) \/ Take(t) \/ Advance(t) \/ Reset(t)
  <2>1. /\ pc'[t] \in {"take", "advance", "test", "idle"}
        /\ pc[t] \in {"slot", "take", "advance", "reset"} /\ UNCHANGED queues
    BY <1>0, <1>5 DEF Fill, Take, Advance, Reset, Return, Goto, At
  <2> QED BY <2>1, QueuesStill DEF queues
<1>6. CASE Test(t)
  <2> DEFINE d == IF loc[t].by # "open" THEN loc[t].dev
                  ELSE IF loc[t].dd \in Slots THEN ddtab[loc[t].dd] ELSE Null
  <2>1. d = loc[t].dev /\ loc[t].dev \in Device /\ pc[t] = "test"
    <3>1. LocalsOf(t) /\ TableOf(t) /\ pc[t] = "test"
      BY <1>6 DEF TypeInv, TableInv, Test, At
    <3> QED BY <3>1 DEF TableOf, LocalsOf, Making
  <2>2. /\ UNCHANGED queues
        /\ \/ UNCHANGED pc
           \/ Return(t)
           \/ /\ cmdq[d] = NoQueue /\ Goto(t, "publish")
              /\ loc' = [loc EXCEPT ![t] = [loc[t] EXCEPT !.at = d]]
    BY <1>6 DEF Test
  <2>3. CASE UNCHANGED pc \/ Return(t)
    <3>1. pc'[t] \in {"test", "idle"}
      BY <2>1, <2>3, ReturnFacts
    <3> QED BY <2>1, <2>2, <3>1, QueuesStill DEF queues
  <2>4. CASE /\ cmdq[d] = NoQueue /\ Goto(t, "publish")
             /\ loc' = [loc EXCEPT ![t] = [loc[t] EXCEPT !.at = d]]
    <3>1. pc'[t] = "publish" /\ loc'[t].at = loc[t].dev /\ loc'[t].dev = loc[t].dev
      BY <1>0, <2>1, <2>4 DEF Goto, LocalsAre
    <3>2. QueueOf(t)'
      BY <2>1, <2>2, <2>4, <3>1 DEF QueueOf, queues
    <3>3. \A q \in Queues : qst[q] # "raw" /\ qst[q] # "ended"
      BY <2>1, QueuesBefore
    <3> QED BY <2>2, <3>2, <3>3, QueuesBefore, QueuesAfter DEF queues
  <2> QED BY <2>2, <2>3, <2>4
<1>7. CASE Publish(t)
  <2> DEFINE n == made + 1
             a == loc[t].at
  <2>1. /\ pc[t] = "publish" /\ made < MaxQueue
        /\ cmdq' = [cmdq EXCEPT ![a] = n]
        /\ qst' = [qst EXCEPT ![n] = "raw"]
        /\ loc' = [loc EXCEPT ![t] = [loc[t] EXCEPT !.q = n]]
        /\ Goto(t, "start")
    BY <1>7 DEF Publish, At
  <2>2. a \in Device /\ a = loc[t].dev /\ cmdq[a] = NoQueue
    BY <2>1, QueuesBefore DEF LocalsOf, QueueOf
  <2>3. n \in Queues /\ n # NoQueue /\ made \in Nat /\ n > made
    BY <2>1, ThreadTypes, Bounds DEF NoQueue
  <2>4. \A d \in Device : cmdq[d] # n
    BY <2>3, QueuesBefore
  <2>5. pc'[t] = "start" /\ loc'[t].q = n /\ loc'[t].at = a /\ loc'[t].dev = loc[t].dev
    BY <1>0, <2>1 DEF Goto, LocalsAre
  <2> HIDE DEF n, a
  <2>6. /\ cmdq'[a] = n /\ \A d \in Device : d # a => cmdq'[d] = cmdq[d]
        /\ qst'[n] = "raw" /\ \A q \in Queues : q # n => qst'[q] = qst[q]
    BY <2>1, <2>2, <2>3, ThreadTypes
  <2>7. QueueOf(t)'
    BY <2>2, <2>5, <2>6 DEF QueueOf
  <2>8. \A q \in Queues :
          qst'[q] \in {"raw", "running", "ended"} => \E d \in Device : cmdq'[d] = q
    <3> SUFFICES ASSUME NEW q \in Queues, qst'[q] \in {"raw", "running", "ended"}
                 PROVE  \E d \in Device : cmdq'[d] = q
      OBVIOUS
    <3>1. CASE q = n
      BY <2>2, <2>6, <3>1
    <3>2. CASE q # n
      <4>1. PICK d \in Device : cmdq[d] = q
        BY <2>6, <3>2, QueuesBefore
      <4>2. d # a
        BY <2>2, <4>1, <1>b
      <4> QED BY <2>6, <4>1, <4>2
    <3> QED BY <3>1, <3>2
  <2>9. \A d \in Device : cmdq'[d] # NoQueue => qst'[cmdq'[d]] # "freed"
    BY <2>4, <2>6, QueuesBefore
  <2>10. \A d, e \in Device : cmdq'[d] = cmdq'[e] /\ cmdq'[d] # NoQueue => d = e
    BY <2>4, <2>6, QueuesBefore
  <2>11. \A q \in Queues :
           /\ qst'[q] = "raw" => pc'[t] = "start" /\ loc'[t].q = q
           /\ qst'[q] = "ended" => pc'[t] = "free" /\ loc'[t].q = q
    BY <2>1, <2>5, <2>6, QueuesBefore
  <2> QED BY <2>7, <2>8, <2>9, <2>10, <2>11, QueuesAfter
<1>8. CASE Start(t)
  <2> DEFINE k == loc[t].q
  <2>1. pc[t] = "start" /\ Return(t) /\ qst' = [qst EXCEPT ![k] = "running"] /\ UNCHANGED cmdq
    BY <1>8 DEF Start, At
  <2>2. k \in Queues /\ loc[t].at \in Device /\ cmdq[loc[t].at] = k
    BY <2>1, QueuesBefore DEF LocalsOf, QueueOf
  <2>3. pc'[t] = "idle"
    BY <2>1, ReturnFacts
  <2> HIDE DEF k
  <2>4. qst'[k] = "running" /\ \A q \in Queues : q # k => qst'[q] = qst[q]
    BY <2>1, <2>2, ThreadTypes
  <2>5. QueueOf(t)'
    BY <2>3 DEF QueueOf
  <2>6. \A q \in Queues : qst'[q] # "raw" /\ qst'[q] # "ended"
    BY <2>1, <2>4, QueuesBefore DEF k
  <2>7. \A q \in Queues :
          qst'[q] \in {"raw", "running", "ended"} => \E d \in Device : cmdq'[d] = q
    BY <2>1, <2>2, <2>4, QueuesBefore
  <2>8. \A d \in Device : cmdq'[d] # NoQueue => qst'[cmdq'[d]] # "freed"
    BY <2>1, <2>4, QueuesBefore
  <2> QED BY <2>1, <2>5, <2>6, <2>7, <2>8, QueuesBefore, QueuesAfter
<1>9. CASE Stop(t)
  <2> DEFINE k == cmdq[loc[t].dev]
  <2>1. /\ pc[t] = "stop" /\ UNCHANGED cmdq
        /\ \/ UNCHANGED <<pc, loc, qst>>
           \/ /\ k \in Queues /\ qst' = [qst EXCEPT ![k] = "ended"]
              /\ loc' = [loc EXCEPT ![t] = [loc[t] EXCEPT !.q = k]] /\ Goto(t, "free")
    BY <1>9 DEF Stop, At, Joinable
  <2>2. CASE UNCHANGED <<pc, loc, qst>>
    BY <2>1, <2>2, QueuesStill
  <2>3. CASE /\ k \in Queues /\ qst' = [qst EXCEPT ![k] = "ended"]
             /\ loc' = [loc EXCEPT ![t] = [loc[t] EXCEPT !.q = k]] /\ Goto(t, "free")
    <3>1. pc'[t] = "free" /\ loc'[t].q = k /\ loc'[t].dev = loc[t].dev
      BY <1>0, <2>3 DEF Goto, LocalsAre
    <3>2. loc[t].dev \in Device
      BY <2>1, QueuesBefore DEF LocalsOf
    <3>3. QueueOf(t)'
      BY <2>1, <2>3, <3>1 DEF QueueOf
    <3>a. k = cmdq[loc[t].dev]
      OBVIOUS
    <3> HIDE DEF k
    <3>4. qst'[k] = "ended" /\ \A q \in Queues : q # k => qst'[q] = qst[q]
      BY <2>3, ThreadTypes
    <3>5. \A q \in Queues :
            qst'[q] \in {"raw", "running", "ended"} => \E d \in Device : cmdq'[d] = q
      BY <2>1, <3>2, <3>4, <3>a, QueuesBefore
    <3>6. \A d \in Device : cmdq'[d] # NoQueue => qst'[cmdq'[d]] # "freed"
      BY <2>1, <3>4, QueuesBefore
    <3>7. \A q \in Queues :
            /\ qst'[q] = "raw" => pc'[t] = "start" /\ loc'[t].q = q
            /\ qst'[q] = "ended" => pc'[t] = "free" /\ loc'[t].q = q
      BY <2>1, <3>1, <3>4, QueuesBefore
    <3> QED BY <2>1, <3>3, <3>5, <3>6, <3>7, QueuesBefore, QueuesAfter
  <2> QED BY <2>1, <2>2, <2>3
<1>10. CASE Free(t)
  <2> DEFINE v == loc[t].dev
             k == cmdq[v]
  <2>1. pc[t] = "free"
    BY <1>10 DEF Free, At
  <2>2. v \in Device /\ k \in Queues /\ k = loc[t].q
    BY <2>1, QueuesBefore DEF LocalsOf, QueueOf
  <2>3. /\ qst' = [qst EXCEPT ![k] = "freed"] /\ cmdq' = [cmdq EXCEPT ![v] = NoQueue]
        /\ Return(t)
    BY <1>10, <1>b, <2>2 DEF Free
  <2>4. pc'[t] = "idle"
    BY <2>3, ReturnFacts
  <2>a. k = cmdq[v]
    OBVIOUS
  <2> HIDE DEF k, v
  <2>5. /\ qst'[k] = "freed" /\ \A q \in Queues : q # k => qst'[q] = qst[q]
        /\ cmdq'[v] = NoQueue /\ \A d \in Device : d # v => cmdq'[d] = cmdq[d]
    BY <2>2, <2>3, ThreadTypes
  <2>6. QueueOf(t)'
    BY <2>4 DEF QueueOf
  <2>7. \A q \in Queues :
          qst'[q] \in {"raw", "running", "ended"} => \E d \in Device : cmdq'[d] = q
    <3> SUFFICES ASSUME NEW q \in Queues, qst'[q] \in {"raw", "running", "ended"}
                 PROVE  \E d \in Device : cmdq'[d] = q
      OBVIOUS
    <3>1. q # k
      BY <2>5
    <3>2. PICK d \in Device : cmdq[d] = q
      BY <2>5, <3>1, QueuesBefore
    <3> QED BY <2>5, <2>a, <3>1, <3>2
  <2>8. \A d \in Device : cmdq'[d] # NoQueue => qst'[cmdq'[d]] # "freed"
    <3> SUFFICES ASSUME NEW d \in Device, cmdq'[d] # NoQueue PROVE qst'[cmdq'[d]] # "freed"
      OBVIOUS
    <3>1. d # v /\ cmdq'[d] = cmdq[d]
      BY <2>5
    <3>2. cmdq[d] # k /\ cmdq[d] \in Queues /\ qst[cmdq[d]] # "freed"
      BY <2>2, <2>a, <3>1, QueuesBefore
    <3> QED BY <2>5, <3>1, <3>2
  <2>9. \A d, e \in Device : cmdq'[d] = cmdq'[e] /\ cmdq'[d] # NoQueue => d = e
    BY <2>5, QueuesBefore
  <2>10. \A q \in Queues : qst'[q] # "raw" /\ qst'[q] # "ended"
    BY <2>1, <2>2, <2>5, QueuesBefore
  <2> QED BY <2>6, <2>7, <2>8, <2>9, <2>10, QueuesAfter
<1> QED
  BY <1>1, <1>2, <1>3, <1>4, <1>5, <1>6, <1>7, <1>8, <1>9, <1>10 DEF Step

(* While calls do not overlap devstate->cmdq leads to every queue there is. *)
LEMMA QueueStep ==
  ASSUME TypeInv, TableAlone, QueueAlone, [Next]_vars
  PROVE  QueueAlone'
<1> SUFFICES ASSUME ~raced' PROVE QueueInv'
  BY DEF QueueAlone
<1>1. ASSUME UNCHANGED <<cmdq, qst, pc, loc, raced>>
      PROVE  QueueInv'
  <2>1. QueueInv
    BY <1>1 DEF QueueAlone
  <2> QED BY <1>1, <2>1 DEF QueueInv, QueueOf
<1>2. ASSUME NEW t \in Thread, Step(t)
      PROVE  QueueInv'
  <2>1. /\ ~raced /\ TableInv /\ QueueInv
        /\ Recount \/ (Alone(t) /\ Alone(t)')
    BY <1>2, AloneFacts DEF TableAlone, QueueAlone
  <2>2. CASE Recount
    BY <1>1, <2>2 DEF Recount, queues
  <2> QED BY <1>2, <2>1, <2>2, CallKeepsQueues
<1>3. CASE \E h \in Handle : RetainCommandQueue(h)
  BY <1>1, <1>3 DEF RetainCommandQueue, queues
<1>4. CASE \E d \in Reached : Enqueue(d)
  BY <1>1, <1>4 DEF Enqueue
<1>5. CASE \E q \in Queues : Complete(q)
  BY <1>1, <1>5 DEF Complete
<1>6. CASE \E e \in Event : Join(e)
  BY <1>1, <1>6 DEF Join, queues
<1>7. CASE UNCHANGED vars
  BY <1>1, <1>7 DEF vars, queues
<1> QED BY <1>2, <1>3, <1>4, <1>5, <1>6, <1>7 DEF Next

-----------------------------------------------------------------------------
(* The users of a queue.                                                   *)

(* The users after a step of the only call.                                *)
LEMMA UsedAfter ==
  ASSUME NEW t \in Thread, Alone(t)', \A d \in Used' : Joinable(d)',
         pc'[t] \in {"stop", "free"} => loc'[t].dev \notin Used',
         (pc[t] = "stop" => Joinable(loc[t].dev))'
  PROVE  UsedInv'
<1>1. \A u \in Thread : u # t => pc'[u] = "idle"
  BY DEF Alone
<1>2. \A u \in Thread : pc'[u] \in {"stop", "free"} => loc'[u].dev \notin Used'
  BY <1>1
<1>3. \A u \in Thread : (pc[u] = "stop" => Joinable(loc[u].dev))'
  BY <1>1
<1> QED BY <1>2, <1>3 DEF UsedInv

(* What a call that returns adds to the users. *)
LEMMA ReturnUsed ==
  ASSUME TypeInv, NEW t \in Thread, Return(t)
  PROVE  /\ Used' \subseteq Used \cup {loc[t].dev}
         /\ loc[t].by \in {"close", "release"} => Used' \subseteq Used
<1>1. \A m \in mine' : m \in mine \/ (loc[t].by = "open" /\ m = <<loc[t].dd, loc[t].dev>>)
  BY ReturnFacts
<1>2. \A d \in got' : d \in got \/ (loc[t].by = "get" /\ d = loc[t].dev)
  BY ReturnFacts
<1>3. \A h \in Handle : clq'[h].refc > 0 =>
        \/ clq[h].refc > 0 /\ clq'[h].dev = clq[h].dev
        \/ loc[t].by \in Handle /\ clq'[h].dev = loc[t].dev
  <2> SUFFICES ASSUME NEW h \in Handle, clq'[h].refc > 0
               PROVE  \/ clq[h].refc > 0 /\ clq'[h].dev = clq[h].dev
                      \/ loc[t].by \in Handle /\ clq'[h].dev = loc[t].dev
    OBVIOUS
  <2>1. CASE loc[t].by \in Handle
    <3>1. clq' = [clq EXCEPT ![loc[t].by] = [dev |-> loc[t].dev, refc |-> 1]]
      BY <2>1, ReturnFacts
    <3>2. CASE h = loc[t].by
      <4>1. clq'[h] = [dev |-> loc[t].dev, refc |-> 1]
        BY <3>1, <3>2, ThreadTypes
      <4> QED BY <2>1, <4>1
    <3>3. CASE h # loc[t].by
      <4>1. clq'[h] = clq[h]
        BY <3>1, <3>3, ThreadTypes
      <4> QED BY <4>1
    <3> QED BY <3>2, <3>3
  <2>2. CASE loc[t].by \notin Handle
    BY <2>2, ReturnFacts
  <2> QED BY <2>1, <2>2
<1>4. \A d \in Used' : d \in Used \/ d = loc[t].dev
  <2> SUFFICES ASSUME NEW d \in Used' PROVE d \in Used \/ d = loc[t].dev
    OBVIOUS
  <2>1. \/ \E m \in mine' : d = m[2]
        \/ d \in got'
        \/ \E h \in Handle : clq'[h].refc > 0 /\ d = clq'[h].dev
    BY DEF Used
  <2>2. CASE \E m \in mine' : d = m[2]
    BY <1>1, <2>2 DEF Used
  <2>3. CASE d \in got'
    BY <1>2, <2>3 DEF Used
  <2>4. CASE \E h \in Handle : clq'[h].refc > 0 /\ d = clq'[h].dev
    BY <1>3, <2>4 DEF Used
  <2> QED BY <2>1, <2>2, <2>3, <2>4
<1>5. loc[t].by \in {"close", "release"} => Used' \subseteq Used
  <2> SUFFICES ASSUME loc[t].by \in {"close", "release"} PROVE Used' \subseteq Used
    OBVIOUS
  <2>1. loc[t].by \notin Handle /\ loc[t].by # "open" /\ loc[t].by # "get"
    BY Bounds
  <2>2. mine' = mine /\ got' = got /\ clq' = clq
    BY <2>1, ReturnFacts
  <2> QED BY <2>2 DEF Used
<1> QED BY <1>4, <1>5

(* A recount leaves the users. *)
LEMMA RecountUsed == ASSUME Recount PROVE Used' = Used
<1>1. /\ UNCHANGED <<mine, got>>
      /\ \A h \in Handle : clq'[h].dev = clq[h].dev /\ (clq'[h].refc > 0 <=> clq[h].refc > 0)
  BY DEF Recount
<1>2. \A d : d \in Used' <=> d \in Used
  BY <1>1 DEF Used
<1> QED BY <1>2

(* The last release of an OpenCL queue: nobody else uses the device, or it *)
(* is remembered.                                                          *)
LEMMA ReleaseUsed ==
  ASSUME TypeInv, NEW t \in Thread, NEW h \in Handle, Release(t, h), clq[h].refc = 1, ~shared'
  PROVE  /\ Used' \subseteq Used /\ clq[h].dev \in Used /\ clq[h].dev \notin Used'
         /\ pc[t] = "idle" /\ pc'[t] = "stop" /\ loc'[t].dev = clq[h].dev
         /\ UNCHANGED <<table, queues, bad>>
<1>1. ~(clq[h].refc > 1)
  OBVIOUS
<1>2. /\ clq' = [clq EXCEPT ![h].refc = clq[h].refc - 1]
      /\ Begin(t, [NoLocals EXCEPT !.dev = clq[h].dev, !.by = "release"], "stop")
      /\ shared' = (shared \/ Shares(h))
      /\ UNCHANGED <<table, queues, mine, got, bad>>
  BY <1>1 DEF Release
<1>3. pc[t] = "idle" /\ pc'[t] = "stop" /\ loc'[t].dev = clq[h].dev
  <2>1. /\ pc' = [pc EXCEPT ![t] = "stop"]
        /\ loc' = [loc EXCEPT ![t] = [NoLocals EXCEPT !.dev = clq[h].dev, !.by = "release"]]
        /\ pc[t] = "idle"
    BY <1>2 DEF Begin
  <2>2. loc'[t] = [NoLocals EXCEPT !.dev = clq[h].dev, !.by = "release"] /\ pc'[t] = "stop"
    BY <2>1, ThreadTypes
  <2>3. \A d : [NoLocals EXCEPT !.dev = d, !.by = "release"].dev = d
    BY DEF NoLocals
  <2> QED BY <2>1, <2>2, <2>3
<1>4. /\ clq'[h].refc = 0 /\ clq'[h].dev = clq[h].dev
      /\ \A g \in Handle \ {h} : clq'[g] = clq[g]
  <2>1. /\ clq \in [Handle -> [dev : Device \cup {Null}, refc : 0 .. MaxRef]]
        /\ clq[h] \in [dev : Device \cup {Null}, refc : 0 .. MaxRef]
    BY ThreadTypes
  <2>2. clq'[h] = [clq[h] EXCEPT !.refc = clq[h].refc - 1]
    BY <1>2, <2>1
  <2>3. clq'[h].refc = 0 /\ clq'[h].dev = clq[h].dev
    BY <2>1, <2>2
  <2>4. \A g \in Handle \ {h} : clq'[g] = clq[g]
    BY <1>2, <2>1
  <2> QED BY <2>3, <2>4
<1>5. ~Shares(h)
  BY <1>2
<1>6. \A d \in Used' : d \in Used /\ d # clq[h].dev
  <2> SUFFICES ASSUME NEW d \in Used' PROVE d \in Used /\ d # clq[h].dev
    OBVIOUS
  <2>1. \/ \E m \in mine : d = m[2]
        \/ d \in got
        \/ \E g \in Handle : clq'[g].refc > 0 /\ d = clq'[g].dev
    BY <1>2 DEF Used
  <2>2. CASE \E g \in Handle : clq'[g].refc > 0 /\ d = clq'[g].dev
    <3>1. PICK g \in Handle : clq'[g].refc > 0 /\ d = clq'[g].dev
      BY <2>2
    <3>2. g \in Handle \ {h}
      BY <1>4, <3>1
    <3>3. clq[g].refc > 0 /\ d = clq[g].dev
      BY <1>4, <3>1, <3>2
    <3> QED BY <1>5, <3>2, <3>3 DEF Used, Shares
  <2>3. CASE (\E m \in mine : d = m[2]) \/ d \in got
    BY <1>5, <2>3 DEF Used, Shares
  <2> QED BY <2>1, <2>2, <2>3
<1>7. clq[h].dev \in Used
  <2>1. clq[h].refc > 0
    OBVIOUS
  <2> QED BY <2>1 DEF Used
<1> QED BY <1>2, <1>3, <1>6, <1>7

(* A call makes sure of a queue before it gives the device to its user,    *)
(* and takes one away that has no user.                                    *)
LEMMA CallKeepsUsers ==
  ASSUME TypeInv, TableInv, QueueInv, UsedInv, bad # "queue", NEW t \in Thread,
         Alone(t), Alone(t)', Step(t), ~shared'
  PROVE  UsedInv' /\ bad' # "queue"
<1>0. pc \in [Thread -> Steps] /\ loc \in [Thread -> LocalsAre(made)]
  BY ThreadTypes
<1>a. ASSUME UNCHANGED <<cmdq, qst>>, \A d \in Used' : Joinable(d),
             pc'[t] \notin {"stop", "free"}
      PROVE  UsedInv'
  BY <1>a, UsedAfter DEF Joinable
<1>b. \A d \in Used : Joinable(d)
  BY DEF UsedInv
<1>1. CASE \E d \in Device : DOpen(t, d) \/ DevGet(t, d)
  <2>1. pc'[t] \in {"slot", "test"} /\ UNCHANGED <<queues, held, bad>>
    BY <1>0, <1>1 DEF DOpen, DevGet, Begin
  <2> QED BY <1>a, <1>b, <2>1 DEF queues, held, Used
<1>2. CASE \E h \in Handle, d \in Device : CreateCommandQueue(t, h, d)
  <2>1. pc'[t] = "test" /\ UNCHANGED <<queues, held, bad>>
    BY <1>0, <1>2 DEF CreateCommandQueue, Begin
  <2> QED BY <1>a, <1>b, <2>1 DEF queues, held, Used
<1>3. ASSUME NEW h \in Handle, Release(t, h) PROVE UsedInv' /\ bad' # "queue"
  <2>1. CASE clq[h].refc = 1
    <3>1. \A d \in Used' \cup {clq[h].dev} : Joinable(d)'
      BY <1>3, <1>b, <2>1, ReleaseUsed DEF queues, Joinable
    <3> QED BY <1>3, <2>1, <3>1, ReleaseUsed, UsedAfter
  <2>2. CASE clq[h].refc # 1
    <3>1. UNCHANGED <<queues, pc, loc, mine, got, bad>>
      BY <1>3, <2>2 DEF Release
    <3>2. clq' = [clq EXCEPT ![h].refc = clq[h].refc - 1] /\ clq[h].refc > 0
      BY <1>3 DEF Release
    <3>3. clq'[h].dev = clq[h].dev /\ \A g \in Handle : g # h => clq'[g] = clq[g]
      BY <3>2, ThreadTypes
    <3>4. Used' \subseteq Used
      BY <3>1, <3>2, <3>3 DEF Used
    <3> QED BY <3>1, <3>4 DEF UsedInv, queues, Joinable
  <2> QED BY <2>1, <2>2
<1>4. CASE DClose(t)
  <2>1. /\ pc'[t] = "reset" /\ mine' \subseteq mine
        /\ UNCHANGED <<queues, got, clq, bad>>
    BY <1>0, <1>4 DEF DClose, Begin
  <2>2. Used' \subseteq Used
    BY <2>1 DEF Used
  <2> QED BY <1>a, <1>b, <2>1, <2>2 DEF queues
<1>5. CASE Reset(t)
  <2>1. /\ pc'[t] = "idle" /\ Used' \subseteq Used /\ UNCHANGED <<queues, bad>>
    <3>1. Return(t) /\ pc[t] = "reset" /\ UNCHANGED <<queues, bad>>
      BY <1>5 DEF Reset, At
    <3>2. loc[t].by = "close"
      BY <3>1, QueuesBefore DEF LocalsOf
    <3> QED BY <3>1, <3>2, ReturnFacts, ReturnUsed
  <2> QED BY <1>a, <1>b, <2>1 DEF queues
<1>6. CASE Fill(t) \/ Take(t) \/ Advance(t)
  <2>1. /\ pc'[t] \in {"take", "advance", "test"} /\ UNCHANGED <<queues, held>>
        /\ bad' \in {"table", bad}
    BY <1>0, <1>6 DEF Fill, Take, Advance, Goto, At
  <2> QED BY <1>a, <1>b, <2>1 DEF queues, held, Used
<1>7. CASE Test(t)
  <2> DEFINE d == IF loc[t].by # "open" THEN loc[t].dev
                  ELSE IF loc[t].dd \in Slots THEN ddtab[loc[t].dd] ELSE Null
  <2>1. d = loc[t].dev /\ loc[t].dev \in Device /\ pc[t] = "test"
    <3>1. LocalsOf(t) /\ TableOf(t) /\ pc[t] = "test"
      BY <1>7 DEF TypeInv, TableInv, Test, At
    <3> QED BY <3>1 DEF TableOf, LocalsOf, Making
  <2>2. /\ UNCHANGED queues /\ bad' \in {"table", bad}
        /\ \/ UNCHANGED <<pc, held>>
           \/ cmdq[d] # NoQueue /\ Return(t)
           \/ Goto(t, "publish") /\ UNCHANGED held
    BY <1>7 DEF Test
  <2>3. CASE cmdq[d] # NoQueue /\ Return(t)
    <3>1. pc'[t] = "idle" /\ Used' \subseteq Used \cup {d}
      BY <2>1, <2>3, ReturnFacts, ReturnUsed
    <3>2. Joinable(d)
      BY <2>1, <2>3, QueuesBefore
    <3>3. \A e \in Used' : Joinable(e)
      BY <1>b, <3>1, <3>2
    <3> QED BY <1>a, <2>2, <3>1, <3>3 DEF queues
  <2>4. CASE UNCHANGED held /\ (UNCHANGED pc \/ Goto(t, "publish"))
    <3>1. pc'[t] \in {"test", "publish"} /\ Used' = Used
      BY <1>0, <2>1, <2>4 DEF Goto, held, Used
    <3> QED BY <1>a, <1>b, <2>2, <3>1 DEF queues
  <2> QED BY <2>2, <2>3, <2>4
<1>8. CASE Publish(t)
  <2>1. /\ pc[t] = "publish" /\ made < MaxQueue
        /\ cmdq' = [cmdq EXCEPT ![loc[t].at] = made + 1]
        /\ qst' = [qst EXCEPT ![made + 1] = "raw"]
        /\ Goto(t, "start") /\ UNCHANGED <<held, bad>>
    BY <1>8 DEF Publish, At
  <2>2. /\ loc[t].at \in Device /\ cmdq[loc[t].at] = NoQueue
        /\ made + 1 \in Queues /\ made \in Nat /\ ~(made + 1 <= made)
    BY <2>1, QueuesBefore, ThreadTypes, Bounds DEF LocalsOf, QueueOf
  <2>3. ASSUME NEW d \in Used PROVE Joinable(d)'
    <3>1. Joinable(d) /\ d \in Device
      <4>1. Used \subseteq Device
        BY ThreadTypes DEF Used, TypeInv
      <4> QED BY <1>b, <4>1
    <3>2. d # loc[t].at /\ cmdq[d] # made + 1 /\ cmdq[d] \in Queues
      <4>1. cmdq[d] \in Queues /\ cmdq[d] # NoQueue
        BY <3>1, Bounds DEF Joinable, NoQueue
      <4> QED BY <2>2, <3>1, <4>1, QueuesBefore
    <3>3. cmdq'[d] = cmdq[d] /\ qst'[cmdq[d]] = qst[cmdq[d]]
      BY <2>1, <3>1, <3>2, ThreadTypes
    <3> QED BY <3>1, <3>3 DEF Joinable
  <2>4. pc'[t] = "start" /\ Used' = Used
    BY <1>0, <2>1 DEF Goto, held, Used
  <2> QED BY <2>1, <2>3, <2>4, UsedAfter
<1>9. CASE Start(t)
  <2>1. /\ pc[t] = "start" /\ Return(t) /\ qst' = [qst EXCEPT ![loc[t].q] = "running"]
        /\ UNCHANGED <<cmdq, bad>>
    BY <1>9 DEF Start, At
  <2>2. /\ loc[t].q \in Queues /\ loc[t].at = loc[t].dev /\ loc[t].dev \in Device
        /\ cmdq[loc[t].dev] = loc[t].q
    BY <2>1, QueuesBefore DEF LocalsOf, QueueOf
  <2>3. pc'[t] = "idle" /\ Used' \subseteq Used \cup {loc[t].dev}
    BY <2>1, ReturnFacts, ReturnUsed
  <2>4. /\ qst'[loc[t].q] = "running"
        /\ \A q \in Queues : qst[q] = "running" => qst'[q] = "running"
    BY <2>1, <2>2, ThreadTypes
  <2>5. \A d \in Used' : Joinable(d)'
    BY <1>b, <2>1, <2>2, <2>3, <2>4 DEF Joinable
  <2> QED BY <2>1, <2>3, <2>5, UsedAfter
<1>10. CASE Stop(t)
  <2> DEFINE v == loc[t].dev
             k == cmdq[v]
  <2>1. pc[t] = "stop" /\ UNCHANGED <<cmdq, held>>
    BY <1>10 DEF Stop, At
  <2>2. v \in Device /\ Joinable(v) /\ v \notin Used
    BY <2>1, QueuesBefore DEF LocalsOf, UsedInv
  <2>3. /\ k \in Queues /\ qst' = [qst EXCEPT ![k] = "ended"] /\ bad' = bad
        /\ loc' = [loc EXCEPT ![t] = [loc[t] EXCEPT !.q = k]] /\ Goto(t, "free")
    BY <1>10, <2>2 DEF Stop, Joinable
  <2>4. pc'[t] = "free" /\ loc'[t].dev = v /\ Used' = Used
    BY <1>0, <2>1, <2>3 DEF Goto, LocalsAre, held, Used
  <2>5. ASSUME NEW d \in Used PROVE Joinable(d)'
    <3>1. Joinable(d) /\ d \in Device /\ d # v
      <4>1. Used \subseteq Device
        BY ThreadTypes DEF Used, TypeInv
      <4> QED BY <1>b, <2>2, <4>1
    <3>2. cmdq[d] # k
      <4>1. cmdq[d] # NoQueue
        BY <3>1, Bounds DEF Joinable, NoQueue
      <4> QED BY <2>2, <3>1, <4>1, QueuesBefore
    <3>3. qst'[cmdq[d]] = qst[cmdq[d]]
      BY <2>3, <3>1, <3>2, ThreadTypes DEF Joinable
    <3> QED BY <2>1, <3>1, <3>3 DEF Joinable
  <2>6. bad' # "queue" /\ v \notin Used'
    BY <2>2, <2>3, <2>4
  <2> QED BY <2>4, <2>5, <2>6, UsedAfter
<1>11. CASE Free(t)
  <2> DEFINE v == loc[t].dev
             k == cmdq[v]
  <2>1. pc[t] = "free"
    BY <1>11 DEF Free, At
  <2>2. v \in Device /\ k \in Queues /\ k # NoQueue /\ v \notin Used /\ loc[t].by = "release"
    BY <2>1, QueuesBefore, Bounds DEF LocalsOf, QueueOf, UsedInv, NoQueue
  <2>3. /\ qst' = [qst EXCEPT ![k] = "freed"] /\ cmdq' = [cmdq EXCEPT ![v] = NoQueue]
        /\ Return(t) /\ bad' = bad
    BY <1>11, <2>2 DEF Free
  <2>4. pc'[t] = "idle" /\ Used' \subseteq Used
    BY <2>2, <2>3, ReturnFacts, ReturnUsed
  <2>5. ASSUME NEW d \in Used PROVE Joinable(d)'
    <3>1. Joinable(d) /\ d \in Device /\ d # v
      <4>1. Used \subseteq Device
        BY ThreadTypes DEF Used, TypeInv
      <4> QED BY <1>b, <2>2, <4>1
    <3>2. cmdq[d] # k
      BY <2>2, <3>1, QueuesBefore
    <3>3. cmdq'[d] = cmdq[d] /\ qst'[cmdq[d]] = qst[cmdq[d]]
      BY <2>3, <3>1, <3>2, ThreadTypes DEF Joinable
    <3> QED BY <3>1, <3>3 DEF Joinable
  <2> QED BY <2>3, <2>4, <2>5, UsedAfter
<1> QED
  BY <1>1, <1>2, <1>3, <1>4, <1>5, <1>6, <1>7, <1>8, <1>9, <1>10, <1>11 DEF Step

(* As long as no queue was released under somebody else, whoever uses a    *)
(* device finds its queue.                                                 *)
LEMMA UsedStep ==
  ASSUME TypeInv, TableAlone, QueueAlone, UsedAlone, [Next]_vars
  PROVE  UsedAlone'
<1> SUFFICES ASSUME ~raced', ~shared' PROVE UsedInv' /\ bad' # "queue"
  BY DEF UsedAlone
<1>1. ASSUME UNCHANGED <<cmdq, qst, pc, loc, raced, shared>>, Used' = Used,
             bad' = "queue" => bad = "queue"
      PROVE  UsedInv' /\ bad' # "queue"
  <2>1. UsedInv /\ bad # "queue"
    BY <1>1 DEF UsedAlone
  <2> QED BY <1>1, <2>1 DEF UsedInv, Joinable
<1>2. ASSUME NEW t \in Thread, Step(t)
      PROVE  UsedInv' /\ bad' # "queue"
  <2>1. /\ ~raced /\ TableInv /\ QueueInv
        /\ Recount \/ (Alone(t) /\ Alone(t)')
    BY <1>2, AloneFacts DEF TableAlone, QueueAlone
  <2>2. CASE Recount
    BY <1>1, <2>2, RecountUsed DEF Recount, queues
  <2>3. CASE Alone(t) /\ Alone(t)'
    <3>1. ~shared
      BY <1>2 DEF Step, DOpen, DevGet, Release, CreateCommandQueue, DClose, Reset, Fill,
                  Take, Advance, Test, Publish, Start, Stop, Free
    <3>2. UsedInv /\ bad # "queue"
      BY <2>1, <3>1 DEF UsedAlone
    <3> QED BY <1>2, <2>1, <2>3, <3>2, CallKeepsUsers
  <2> QED BY <2>1, <2>2, <2>3
<1>3. ASSUME NEW h \in Handle, RetainCommandQueue(h)
      PROVE  UsedInv' /\ bad' # "queue"
  <2>1. /\ clq' = [clq EXCEPT ![h].refc = clq[h].refc + 1] /\ clq[h].refc > 0
        /\ UNCHANGED <<table, queues, cmds, pc, loc, mine, got, raced, shared, bad>>
    <3>1. clq[h].refc \in 1 .. MaxRef - 1
      BY <1>3 DEF RetainCommandQueue
    <3>2. clq[h].refc > 0
      BY <3>1 DEF MaxRef
    <3> QED BY <1>3, <3>2 DEF RetainCommandQueue
  <2>2. /\ clq \in [Handle -> [dev : Device \cup {Null}, refc : 0 .. MaxRef]]
        /\ clq[h] \in [dev : Device \cup {Null}, refc : 0 .. MaxRef]
    BY ThreadTypes
  <2>3. /\ \A g \in Handle : g # h => clq'[g] = clq[g]
        /\ clq'[h] = [clq[h] EXCEPT !.refc = clq[h].refc + 1]
    BY <2>1, <2>2
  <2>4. clq'[h].dev = clq[h].dev /\ clq'[h].refc > 0
    BY <2>1, <2>2, <2>3 DEF MaxRef
  <2>5. Used' = Used
    <3>1. \A g \in Handle :
            clq'[g].dev = clq[g].dev /\ (clq'[g].refc > 0 <=> clq[g].refc > 0)
      BY <2>1, <2>3, <2>4
    <3>2. \A d : d \in Used' <=> d \in Used
      BY <2>1, <3>1 DEF Used
    <3> QED BY <3>2
  <2> QED BY <1>1, <2>1, <2>5 DEF queues
<1>4. ASSUME NEW d \in Reached, Enqueue(d)
      PROVE  UsedInv' /\ bad' # "queue"
  <2>1. UNCHANGED <<table, cmdq, qst, pc, loc, held, raced, shared>>
    BY <1>4 DEF Enqueue
  <2>2. Used' = Used
    BY <2>1 DEF Used, held
  <2>3. TableInv /\ UsedInv /\ bad # "queue"
    BY <2>1 DEF TableAlone, UsedAlone
  <2>4. d \in Used
    BY <2>3 DEF Reached, Used, TableInv
  <2>5. Usable(d)
    BY <2>3, <2>4 DEF UsedInv, Joinable, Usable
  <2>6. bad' = "queue" => bad = "queue"
    BY <1>4, <2>5 DEF Enqueue
  <2> QED BY <1>1, <2>1, <2>2, <2>6
<1>5. CASE \E q \in Queues : Complete(q)
  BY <1>1, <1>5 DEF Complete, held, Used
<1>6. CASE \E e \in Event : Join(e)
  BY <1>1, <1>6 DEF Join, queues, held, Used
<1>7. CASE UNCHANGED vars
  BY <1>1, <1>7 DEF vars, queues, held, Used
<1> QED BY <1>2, <1>3, <1>4, <1>5, <1>6, <1>7 DEF Next

-----------------------------------------------------------------------------
(* The events.                                                             *)

(* The commands in the queues and the lists are those enqueued.            *)
LEMMA EventTypes ==
  ASSUME TypeInv
  PROVE  /\ fifo \in [Queues -> Seq(1 .. nev)] /\ list \in [Queues -> Seq(1 .. nev)]
         /\ nev \in Nat /\ freed \subseteq 1 .. nev
         /\ \A q \in Queues : Len(fifo[q]) \in Nat /\ Len(list[q]) \in Nat
         /\ \A q \in Queues : \A i \in 1 .. Len(fifo[q]) : fifo[q][i] \in 1 .. nev
         /\ \A q \in Queues : \A i \in 1 .. Len(list[q]) : list[q][i] \in 1 .. nev
<1>1. /\ fifo \in [Queues -> Seq(1 .. nev)] /\ list \in [Queues -> Seq(1 .. nev)]
      /\ nev \in 0 .. MaxEvent /\ freed \subseteq 1 .. nev
  BY DEF TypeInv, TypeOK
<1>2. \A q \in Queues : fifo[q] \in Seq(1 .. nev) /\ list[q] \in Seq(1 .. nev)
  BY <1>1
<1>3. \A q \in Queues : Len(fifo[q]) \in Nat /\ Len(list[q]) \in Nat
  BY <1>2, LenProperties
<1>4. /\ \A q \in Queues : \A i \in 1 .. Len(fifo[q]) : fifo[q][i] \in 1 .. nev
      /\ \A q \in Queues : \A i \in 1 .. Len(list[q]) : list[q][i] \in 1 .. nev
  BY <1>2, ElementOfSeq
<1> QED BY <1>1, <1>3, <1>4, Bounds

(* A new command is in no queue yet.                                       *)
LEMMA EnqueueKeepsEvents ==
  ASSUME TypeInv, EventInv, NEW d \in Reached, Enqueue(d)
  PROVE  EventInv'
<1>1. /\ UNCHANGED <<list, freed>> /\ bad' # "event"
      /\ \/ UNCHANGED fifo
         \/ /\ cmdq[d] \in Queues
            /\ fifo' = [fifo EXCEPT ![cmdq[d]] = Append(fifo[cmdq[d]], nev + 1)]
  BY DEF Enqueue, Usable, EventInv
<1>2. CASE UNCHANGED fifo
  BY <1>1, <1>2 DEF EventInv
<1>3. ASSUME NEW k \in Queues, fifo' = [fifo EXCEPT ![k] = Append(fifo[k], nev + 1)]
      PROVE  EventInv'
  <2>1. ASSUME NEW p \in Queues, NEW i \in 1 .. Len(fifo'[p])
        PROVE  \/ i \in 1 .. Len(fifo[p]) /\ fifo'[p][i] = fifo[p][i]
               \/ p = k /\ i = Len(fifo[k]) + 1 /\ fifo'[p][i] = nev + 1
    <3>1. CASE p # k
      BY <1>3, <2>1, <3>1, EventTypes
    <3>2. CASE p = k
      <4>1. fifo'[k] = Append(fifo[k], nev + 1) /\ fifo[k] \in Seq(1 .. nev) /\ nev + 1 \in Nat
        BY <1>3, EventTypes
      <4>2. fifo[k] \in Seq(Nat)
        BY <4>1, SeqMonotonic, EventTypes
      <4>3. /\ Len(fifo'[k]) = Len(fifo[k]) + 1
            /\ \A j \in 1 .. Len(fifo[k]) : fifo'[k][j] = fifo[k][j]
            /\ fifo'[k][Len(fifo[k]) + 1] = nev + 1
        BY <4>1, <4>2, AppendProperties
      <4> QED BY <2>1, <3>2, <4>3, EventTypes
    <3> QED BY <3>1, <3>2
  <2>2. /\ \A p \in Queues : \A i \in 1 .. Len(fifo[p]) : fifo[p][i] # nev + 1
        /\ \A p \in Queues : \A i \in 1 .. Len(list[p]) : list[p][i] # nev + 1
        /\ nev + 1 \notin freed
    BY EventTypes
  <2>3. \A p, q \in Queues : \A i \in 1 .. Len(fifo'[p]), j \in 1 .. Len(fifo'[q]) :
          fifo'[p][i] = fifo'[q][j] => p = q /\ i = j
    BY <2>1, <2>2 DEF EventInv
  <2>4. \A p, q \in Queues : \A i \in 1 .. Len(fifo'[p]), j \in 1 .. Len(list'[q]) :
          fifo'[p][i] # list'[q][j]
    BY <1>1, <2>1, <2>2 DEF EventInv
  <2>5. \A q \in Queues : \A i \in 1 .. Len(fifo'[q]) : fifo'[q][i] \notin freed'
    BY <1>1, <2>1, <2>2 DEF EventInv
  <2> QED BY <1>1, <2>3, <2>4, <2>5 DEF EventInv
<1> QED BY <1>1, <1>2, <1>3

(* The event of a command that completes was in its queue, so nobody has   *)
(* joined its thread yet.                                                  *)
LEMMA CompleteKeepsEvents ==
  ASSUME TypeInv, EventInv, NEW q \in Queues, Complete(q)
  PROVE  EventInv'
<1>1. /\ fifo[q] # <<>> /\ UNCHANGED freed
      /\ fifo' = [fifo EXCEPT ![q] = Tail(fifo[q])]
      /\ list' = [list EXCEPT ![q] = Append(list[q], Head(fifo[q]))]
      /\ bad' = "event" => Head(fifo[q]) \in freed
  BY DEF Complete
<1>2. /\ fifo[q] \in Seq(1 .. nev) /\ list[q] \in Seq(1 .. nev)
      /\ Len(fifo[q]) \in Nat /\ Len(list[q]) \in Nat
  BY EventTypes
<1>3. Head(fifo[q]) = fifo[q][1] /\ 1 \in 1 .. Len(fifo[q]) /\ fifo[q][1] \in 1 .. nev
  <2>1. Len(fifo[q]) # 0
    BY <1>1, <1>2, EmptySeq
  <2> QED BY <1>2, <2>1, EventTypes
<1>4. ASSUME NEW p \in Queues, NEW i \in 1 .. Len(fifo'[p])
      PROVE  \/ p # q /\ i \in 1 .. Len(fifo[p]) /\ fifo'[p][i] = fifo[p][i]
             \/ p = q /\ i + 1 \in 1 .. Len(fifo[q]) /\ i + 1 # 1 /\ fifo'[p][i] = fifo[q][i + 1]
  <2>1. CASE p # q
    BY <1>1, <1>4, <2>1, EventTypes
  <2>2. CASE p = q
    <3>1. fifo'[q] = Tail(fifo[q])
      BY <1>1, EventTypes
    <3>2. /\ Len(Tail(fifo[q])) = Len(fifo[q]) - 1
          /\ \A j \in 1 .. Len(Tail(fifo[q])) : Tail(fifo[q])[j] = fifo[q][j + 1]
      BY <1>1, <1>2, HeadTailProperties
    <3> QED BY <1>2, <1>4, <2>2, <3>1, <3>2
  <2> QED BY <2>1, <2>2
<1>5. ASSUME NEW p \in Queues, NEW j \in 1 .. Len(list'[p])
      PROVE  \/ j \in 1 .. Len(list[p]) /\ list'[p][j] = list[p][j]
             \/ p = q /\ list'[p][j] = fifo[q][1]
  <2>1. CASE p # q
    BY <1>1, <1>5, <2>1, EventTypes
  <2>2. CASE p = q
    <3>1. list'[q] = Append(list[q], fifo[q][1])
      BY <1>1, <1>3, EventTypes
    <3>2. /\ Len(list'[q]) = Len(list[q]) + 1
          /\ \A i \in 1 .. Len(list[q]) : list'[q][i] = list[q][i]
          /\ list'[q][Len(list[q]) + 1] = fifo[q][1]
      BY <1>2, <1>3, <3>1, AppendProperties
    <3> QED BY <1>2, <1>5, <2>2, <3>2
  <2> QED BY <2>1, <2>2
<1>6. \A p, r \in Queues : \A i \in 1 .. Len(fifo'[p]), j \in 1 .. Len(fifo'[r]) :
        fifo'[p][i] = fifo'[r][j] => p = r /\ i = j
  <2> SUFFICES ASSUME NEW p \in Queues, NEW r \in Queues,
                      NEW i \in 1 .. Len(fifo'[p]), NEW j \in 1 .. Len(fifo'[r]),
                      fifo'[p][i] = fifo'[r][j]
               PROVE  p = r /\ i = j
    OBVIOUS
  <2>1. /\ \/ p # q /\ i \in 1 .. Len(fifo[p]) /\ fifo'[p][i] = fifo[p][i]
           \/ p = q /\ i + 1 \in 1 .. Len(fifo[q]) /\ i + 1 # 1 /\ fifo'[p][i] = fifo[q][i + 1]
        /\ \/ r # q /\ j \in 1 .. Len(fifo[r]) /\ fifo'[r][j] = fifo[r][j]
           \/ r = q /\ j + 1 \in 1 .. Len(fifo[q]) /\ j + 1 # 1 /\ fifo'[r][j] = fifo[q][j + 1]
    BY <1>4
  <2>2. \A x, y \in Queues : \A a \in 1 .. Len(fifo[x]), b \in 1 .. Len(fifo[y]) :
          fifo[x][a] = fifo[y][b] => x = y /\ a = b
    BY DEF EventInv
  <2> QED BY <2>1, <2>2
<1>7. \A p, r \in Queues : \A i \in 1 .. Len(fifo'[p]), j \in 1 .. Len(list'[r]) :
        fifo'[p][i] # list'[r][j]
  BY <1>3, <1>4, <1>5 DEF EventInv
<1>8. \A p \in Queues : \A i \in 1 .. Len(fifo'[p]) : fifo'[p][i] \notin freed'
  BY <1>1, <1>4 DEF EventInv
<1>9. bad' # "event"
  BY <1>1, <1>3 DEF EventInv
<1> QED BY <1>6, <1>7, <1>8, <1>9 DEF EventInv

(* Only the event of a completed command is freed, and it stays one.       *)
LEMMA EventStep == TypeInv /\ EventInv /\ [Next]_vars => EventInv'
<1> SUFFICES ASSUME TypeInv, EventInv, [Next]_vars PROVE EventInv'
  OBVIOUS
<1>1. ASSUME UNCHANGED <<fifo, list, freed>>, bad' # "event"
      PROVE  EventInv'
  BY <1>1 DEF EventInv
<1>2. bad # "event"
  BY DEF EventInv
<1>3. ASSUME NEW t \in Thread, Step(t)
      PROVE  EventInv'
  BY <1>1, <1>2, <1>3 DEF Step, DOpen, DevGet, Release, CreateCommandQueue, DClose, Reset,
     Fill, Take, Advance, Test, Publish, Start, Stop, Free, queues, cmds
<1>4. CASE \E h \in Handle : RetainCommandQueue(h)
  BY <1>1, <1>2, <1>4 DEF RetainCommandQueue, queues, cmds
<1>5. ASSUME NEW e \in Event, Join(e)
      PROVE  EventInv'
  <2>1. /\ UNCHANGED <<fifo, list, bad>> /\ freed' = freed \cup {e}
        /\ \E q \in Queues : \E i \in 1 .. Len(list[q]) : list[q][i] = e
    BY <1>5 DEF Join, queues
  <2>2. \A q \in Queues : \A i \in 1 .. Len(fifo[q]) : fifo[q][i] # e
    BY <2>1 DEF EventInv
  <2> QED BY <2>1, <2>2 DEF EventInv
<1>6. CASE UNCHANGED vars
  BY <1>1, <1>2, <1>6 DEF vars, queues, cmds
<1> QED BY <1>3, <1>4, <1>5, <1>6, EnqueueKeepsEvents, CompleteKeepsEvents DEF Next

-----------------------------------------------------------------------------
(* The theorems.                                                           *)
IInv == TypeInv /\ TableAlone /\ QueueAlone /\ UsedAlone /\ EventInv

(* Before the first call nothing is open and nobody has a queue. *)
LEMMA InvInit == Init => IInv
<1> SUFFICES ASSUME Init PROVE IInv
  OBVIOUS
<1>1. TypeInv
  BY TypeInit
<1>2. \A t \in Thread : pc[t] = "idle"
  BY DEF Init
<1>3. TableAlone
  <2>1. Solo
    BY <1>2 DEF Solo
  <2>2. \A t \in Thread : TableOf(t)
    BY <1>2 DEF TableOf, Making
  <2>3. NextFree /\ \A s \in Slots : ~(s < nxt)
    <3>1. nxt = 0 /\ \A s \in Slots : ddtab[s] = Null
      BY DEF Init
    <3>2. NSlot = 0 \/ 0 \in Slots
      BY Bounds
    <3>3. \A s \in Slots : ~(s < 0)
      BY DEF Slots
    <3> QED BY <3>1, <3>2, <3>3 DEF NextFree
  <2>4. mine = {} /\ bad # "table"
    BY DEF Init
  <2> QED BY <2>1, <2>2, <2>3, <2>4 DEF TableAlone, TableInv
<1>4. QueueAlone
  <2>1. /\ \A d \in Device : cmdq[d] = NoQueue
        /\ \A q \in Queues : qst[q] = "none"
    BY DEF Init
  <2>2. \A t \in Thread : QueueOf(t)
    BY <1>2 DEF QueueOf
  <2> QED BY <2>1, <2>2 DEF QueueAlone, QueueInv
<1>5. UsedAlone
  <2>1. mine = {} /\ got = {} /\ bad # "queue" /\ \A h \in Handle : ~(clq[h].refc > 0)
    BY DEF Init
  <2>2. Used = {}
    BY <2>1 DEF Used
  <2> QED BY <1>2, <2>1, <2>2 DEF UsedAlone, UsedInv
<1>6. EventInv
  <2>1. \A q \in Queues : Len(fifo[q]) = 0
    BY DEF Init
  <2>2. \A q \in Queues : 1 .. Len(fifo[q]) = {}
    BY <2>1
  <2> QED BY <2>2 DEF EventInv, Init
<1> QED BY <1>1, <1>3, <1>4, <1>5, <1>6 DEF IInv

(* The invariant of all the calls. *)
LEMMA Invariant == Spec => []IInv
<1>1. IInv /\ [Next]_vars => IInv'
  <2> SUFFICES ASSUME IInv, [Next]_vars PROVE IInv'
    OBVIOUS
  <2> QED BY NextKeepsType, TableStep, QueueStep, UsedStep, EventStep DEF IInv
<1> QED BY <1>1, InvInit, PTL DEF Spec

(* As long as calls do not overlap, a descriptor names its device until it *)
(* is closed and the table is used up before an open is refused: the slots *)
(* below __ddtab_nxt are open and that one is free, whatever the order of  *)
(* opens and closes and the size of the table (device.c 367-405).          *)
THEOREM DescriptorsOwnTheirSlot == Spec => []DescriptorsStand
<1>1. IInv => DescriptorsStand
  <2> SUFFICES ASSUME IInv, ~raced PROVE DescriptorsStand
    BY DEF DescriptorsStand
  <2>1. TableInv
    BY DEF IInv, TableAlone
  <2> QED BY <2>1 DEF DescriptorsStand, TableInv, NextFree, Full
<1> QED BY <1>1, Invariant, PTL

(* As long as calls do not overlap, devstate->cmdq leads to every queue    *)
(* that has a scheduler and to none that was freed, however many times a   *)
(* queue is made and released (command_queue.c 33-68).                     *)
THEOREM SchedulerIsReachable == Spec => []OneScheduler
<1>1. IInv => OneScheduler
  BY DEF IInv, QueueAlone, QueueInv, OneScheduler
<1> QED BY <1>1, Invariant, PTL

(* A command misses its device only after calls that overlapped, its queue *)
(* only after those or the release of a queue in use, and the event it     *)
(* completes is never freed memory (thread.c 141-152).                     *)
THEOREM CommandsFindTheirQueue == Spec => []NothingMissing
<1>1. IInv => NothingMissing
  BY DEF IInv, TableAlone, UsedAlone, EventInv, NothingMissing
<1> QED BY <1>1, Invariant, PTL
=============================================================================
