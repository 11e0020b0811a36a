------------------------------ MODULE ClRpcProofs ------------------------------
(***************************************************************************)
(* OpenCL over RPC for any number of host threads, events and requests     *)
(* that fail: the types, that a wait the server answers delivers the bytes *)
(* of every listed transfer, and that the server follows a bad pointer     *)
(* only for an event the host was led astray about.                        *)
(***************************************************************************)
EXTENDS ClRpc, SequenceTheorems, FiniteSetTheorems, WellFoundedInduction, TLAPS

-----------------------------------------------------------------------------
(* The calls that make an event. *)
Making == Kinds \cup {Unmap}

(* A thread is in the pool from its request to the callback; the server    *)
(* has at most one request that somebody waits for, the first of the pool. *)
CallOf(t) ==
  /\ pc[t] = "idle" <=> call[t].op = "none"
  /\ pc[t] = "idle" => call[t] = NoCall /\ ans[t] = "none" /\ bytes[t] = <<>>
  /\ pc[t] \in {"made", "asleep"} <=> In(t, pool)
  /\ pc[t] = "woken" => ans[t] # "none"
  /\ call[t].op \in Making \cup {"release", "retain"} => call[t].ev \in Event
  /\ call[t].op \in Making => kind[call[t].ev] = call[t].op
  /\ call[t].op \in {"readB", "mapB"} /\ ans[t] = "ok" => bytes[t] # <<>>

Asked(i) == inbox[i].to # Nobody

RequestOf(i) ==
  /\ inbox[i].op \in Making \cup {"release", "retain"} => inbox[i].ev \in Event
  /\ Asked(i) => LET t == inbox[i].to IN
       /\ sent /\ pool # <<>> /\ t = Head(pool) /\ ans[t] = "none"
       /\ inbox[i].op = call[t].op /\ inbox[i].ev = call[t].ev /\ inbox[i].list = call[t].list
  /\ \A j \in 1 .. Len(inbox) : Asked(i) /\ Asked(j) => i = j

TypeInv ==
  /\ TypeOK
  /\ \A t \in Thread : CallOf(t)
  /\ \A i, j \in 1 .. Len(pool) : pool[i] = pool[j] => i = j
  /\ \A i \in 1 .. Len(inbox) : RequestOf(i)

(* A clWaitForEvents lists events of kinds both sides keep a buffer for,   *)
(* or neither; once answered, each segment is the bytes of its transfer.   *)
HostBuffers == {e \in Event : HostBuffer(e)}

WaitOf(t) ==
  LET l == call[t].list IN
  call[t].op = "wait" =>
    /\ \A i \in 1 .. Len(l) : kind[l[i]] \in Listable
    /\ ans[t] = "ok" =>
         /\ Len(bytes[t]) = Segment(l, Len(l), HostBuffers)
         /\ \A i \in 1 .. Len(l) :
              l[i] \in HostBuffers => bytes[t][Segment(l, i, HostBuffers)] = l[i]

WaitInv == \A t \in Thread : WaitOf(t)

-----------------------------------------------------------------------------
(* Sequences of events.                                                    *)

(* Every non-empty set of natural numbers has a least element. *)
LEMMA LeastNatural ==
  ASSUME NEW S \in SUBSET Nat, S # {}
  PROVE  \E m \in S : \A k \in S : m <= k
<1>1. PICK m \in S : \A k \in S : ~(<<k, m>> \in OpToRel(<, Nat))
  BY NatLessThanWellFounded, WFMin, Zenon
<1>2. \A k \in S : ~(k < m)
  BY <1>1 DEF OpToRel
<1> QED BY <1>2

(* A segment starts one further for each listed event that has a buffer,   *)
(* so two such events have different segments.                             *)
LEMMA SegmentFacts ==
  ASSUME NEW l, NEW B
  PROVE  /\ Segment(l, 0, B) = 0
         /\ \A i \in Nat : Segment(l, i, B) \in Nat /\ Segment(l, i, B) <= i
         /\ \A i \in Nat : Segment(l, i + 1, B) =
              IF l[i + 1] \in B THEN Segment(l, i, B) + 1 ELSE Segment(l, i, B)
         /\ \A i, j \in Nat : i <= j => Segment(l, i, B) <= Segment(l, j, B)
         /\ \A i, j \in Nat : i < j /\ l[j] \in B => Segment(l, i, B) < Segment(l, j, B)
<1> DEFINE P(i) == {j \in 1 .. i : l[j] \in B}
<1>1. \A i \in Nat : IsFiniteSet(P(i)) /\ Cardinality(P(i)) \in Nat /\ Cardinality(P(i)) <= i
  <2> SUFFICES ASSUME NEW i \in Nat
               PROVE  IsFiniteSet(P(i)) /\ Cardinality(P(i)) \in Nat /\ Cardinality(P(i)) <= i
    OBVIOUS
  <2>1. IsFiniteSet(1 .. i) /\ Cardinality(1 .. i) = i
    BY FS_Interval
  <2>2. P(i) \in SUBSET (1 .. i)
    OBVIOUS
  <2> QED BY <2>1, <2>2, FS_Subset, FS_CardinalityType
<1>2. \A i \in Nat : Segment(l, i, B) = Cardinality(P(i))
  BY DEF Segment
<1>3. \A i \in Nat : P(i + 1) = IF l[i + 1] \in B THEN P(i) \cup {i + 1} ELSE P(i)
  OBVIOUS
<1>4. \A i \in Nat : i + 1 \notin P(i)
  OBVIOUS
<1>5. \A i, j \in Nat : i <= j => P(i) \in SUBSET P(j)
  OBVIOUS
<1>6. P(0) = {} /\ 0 \in Nat
  OBVIOUS
<1> HIDE DEF P
<1>7. \A i \in Nat : Cardinality(P(i + 1)) =
        IF l[i + 1] \in B THEN Cardinality(P(i)) + 1 ELSE Cardinality(P(i))
  <2> SUFFICES ASSUME NEW i \in Nat
               PROVE  Cardinality(P(i + 1)) =
                        IF l[i + 1] \in B THEN Cardinality(P(i)) + 1 ELSE Cardinality(P(i))
    OBVIOUS
  <2>1. Cardinality(P(i) \cup {i + 1}) = Cardinality(P(i)) + 1
    BY <1>1, <1>4, FS_AddElement
  <2> QED BY <1>3, <2>1
<1>8. \A i, j \in Nat : i <= j => Cardinality(P(i)) <= Cardinality(P(j))
  BY <1>1, <1>5, FS_Subset
<1>9. \A i, j \in Nat : i < j /\ l[j] \in B => Cardinality(P(i)) < Cardinality(P(j))
  <2> SUFFICES ASSUME NEW i \in Nat, NEW j \in Nat, i < j, l[j] \in B
               PROVE  Cardinality(P(i)) < Cardinality(P(j))
    OBVIOUS
  <2>1. j - 1 \in Nat /\ i <= j - 1 /\ (j - 1) + 1 = j
    OBVIOUS
  <2>2. Cardinality(P(j)) = Cardinality(P(j - 1)) + 1
    BY <1>7, <2>1
  <2>3. Cardinality(P(i)) <= Cardinality(P(j - 1))
    BY <1>8, <2>1
  <2> QED BY <1>1, <2>1, <2>2, <2>3
<1>10. Cardinality(P(0)) = 0
  BY <1>6, FS_EmptySet
<1> QED BY <1>1, <1>2, <1>6, <1>7, <1>8, <1>9, <1>10

(* Every segment is that of a listed event: the least place up to which    *)
(* there are that many.                                                    *)
LEMMA SegmentIsSomebodys ==
  ASSUME NEW l, NEW B, NEW n \in Nat, NEW k \in 1 .. Segment(l, n, B)
  PROVE  \E i \in 1 .. n : l[i] \in B /\ Segment(l, i, B) = k
<1> DEFINE S == {i \in 1 .. n : k <= Segment(l, i, B)}
<1>a. /\ Segment(l, 0, B) = 0
      /\ \A i \in Nat : Segment(l, i, B) \in Nat /\ Segment(l, i, B) <= i
      /\ \A i \in Nat : Segment(l, i + 1, B) =
           IF l[i + 1] \in B THEN Segment(l, i, B) + 1 ELSE Segment(l, i, B)
      /\ \A i, j \in Nat : i <= j => Segment(l, i, B) <= Segment(l, j, B)
      /\ \A i, j \in Nat : i < j /\ l[j] \in B => Segment(l, i, B) < Segment(l, j, B)
  BY SegmentFacts, Zenon
<1>0. Segment(l, n, B) \in Nat /\ k \in Nat /\ 1 <= k /\ k <= Segment(l, n, B)
  BY <1>a
<1>1. n \in S
  <2>1. n # 0
    BY <1>0, <1>a
  <2> QED BY <1>0, <2>1
<1>2. PICK i \in S : \A j \in S : i <= j
  <2>1. S \in SUBSET Nat
    OBVIOUS
  <2> QED BY <1>1, <2>1, LeastNatural
<1>3. i \in 1 .. n /\ k <= Segment(l, i, B) /\ i - 1 \in Nat /\ (i - 1) + 1 = i /\ i \in Nat
  OBVIOUS
<1>4. Segment(l, i - 1, B) < k
  <2>1. CASE i = 1
    BY <1>0, <2>1, <1>a
  <2>2. CASE i # 1
    <3>1. i - 1 \in 1 .. n /\ i - 1 \notin S
      BY <1>2, <1>3, <2>2
    <3> QED BY <1>0, <1>3, <3>1, <1>a
  <2> QED BY <2>1, <2>2
<1>5. Segment(l, i, B) =
        IF l[i] \in B THEN Segment(l, i - 1, B) + 1 ELSE Segment(l, i - 1, B)
  BY <1>3, <1>a
<1>6. Segment(l, i, B) \in Nat /\ Segment(l, i - 1, B) \in Nat
  BY <1>3, <1>a
<1> QED BY <1>0, <1>3, <1>4, <1>5, <1>6

(* What is packed: one segment for each listed event with a buffer, with   *)
(* the contents of that buffer.                                            *)
ServerBuffers == {e \in Event : ServerBuffer(e)}

LEMMA PackedFacts ==
  ASSUME NEW l \in Seq(Event)
  PROVE  /\ Packed(l) \in Seq(Event \cup {Junk})
         /\ Len(Packed(l)) = Segment(l, Len(l), ServerBuffers)
         /\ \A i \in 1 .. Len(l) : l[i] \in ServerBuffers =>
              Packed(l)[Segment(l, i, ServerBuffers)] = Content(l[i])
<1> DEFINE B == ServerBuffers
           n == Segment(l, Len(l), B)
           at(k) == CHOOSE i \in 1 .. Len(l) : l[i] \in B /\ Segment(l, i, B) = k
<1>a. /\ Segment(l, 0, B) = 0
      /\ \A i \in Nat : Segment(l, i, B) \in Nat /\ Segment(l, i, B) <= i
      /\ \A i \in Nat : Segment(l, i + 1, B) =
           IF l[i + 1] \in B THEN Segment(l, i, B) + 1 ELSE Segment(l, i, B)
      /\ \A i, j \in Nat : i <= j => Segment(l, i, B) <= Segment(l, j, B)
      /\ \A i, j \in Nat : i < j /\ l[j] \in B => Segment(l, i, B) < Segment(l, j, B)
  BY SegmentFacts, Zenon
<1>1. Len(l) \in Nat /\ n \in Nat /\ \A i \in 1 .. Len(l) : l[i] \in Event /\ i \in Nat
  BY <1>a, LenProperties, ElementOfSeq
<1>2. Packed(l) = [k \in 1 .. n |-> Content(l[at(k)])]
  BY DEF Packed, ServerBuffers
<1>3. \A k \in 1 .. n : at(k) \in 1 .. Len(l) /\ l[at(k)] \in B /\ Segment(l, at(k), B) = k
  BY <1>1, SegmentIsSomebodys
<1>4. \A i \in 1 .. Len(l) : l[i] \in B =>
        Segment(l, i, B) \in 1 .. n /\ at(Segment(l, i, B)) = i
  <2> SUFFICES ASSUME NEW i \in 1 .. Len(l), l[i] \in B
               PROVE  Segment(l, i, B) \in 1 .. n /\ at(Segment(l, i, B)) = i
    OBVIOUS
  <2>1. Segment(l, i, B) \in 1 .. n
    <3>1. /\ Segment(l, 0, B) = 0 /\ Segment(l, 0, B) < Segment(l, i, B)
          /\ Segment(l, i, B) <= n /\ Segment(l, i, B) \in Nat
      <4>1. 0 \in Nat /\ i \in Nat /\ 0 < i /\ i <= Len(l) /\ Len(l) \in Nat
        BY <1>1
      <4> HIDE DEF B
      <4> QED BY <1>a, <4>1
    <3> QED BY <1>1, <3>1
  <2> DEFINE j == at(Segment(l, i, B))
  <2>2. j \in 1 .. Len(l) /\ l[j] \in B /\ Segment(l, j, B) = Segment(l, i, B)
    BY <1>3, <2>1
  <2> HIDE DEF j
  <2>3. i \in Nat /\ j \in Nat
    BY <1>1, <2>2
  <2>4. ~(i < j) /\ ~(j < i)
    <3>1. /\ i < j => Segment(l, i, B) < Segment(l, j, B)
          /\ j < i => Segment(l, j, B) < Segment(l, i, B)
      BY <2>2, <2>3, <1>a, Zenon
    <3>2. Segment(l, j, B) = Segment(l, i, B) /\ Segment(l, i, B) \in Nat
      BY <2>2, <2>3, <1>a
    <3> QED BY <3>1, <3>2
  <2>5. i = j
    BY <2>3, <2>4
  <2> QED BY <2>1, <2>5 DEF j
<1> HIDE DEF n, at, B
<1>5. \A k \in 1 .. n : Content(l[at(k)]) \in Event \cup {Junk}
  BY <1>1, <1>3 DEF Content
<1>6. Packed(l) \in [1 .. n -> Event \cup {Junk}]
  BY <1>2, <1>5
<1>7. Packed(l) \in Seq(Event \cup {Junk}) /\ Len(Packed(l)) = n
  BY <1>1, <1>6
<1>8. \A i \in 1 .. Len(l) : l[i] \in B => Packed(l)[Segment(l, i, B)] = Content(l[i])
  BY <1>2, <1>4
<1> QED BY <1>7, <1>8 DEF n, B

-----------------------------------------------------------------------------
(* Types.                                                                  *)
Calls    == [op : Ops \cup {"none"}, ev : 0 .. MaxEvent, list : Seq(Event)]
Requests == [to : Thread \cup {Nobody}, op : Ops, ev : 0 .. MaxEvent, list : Seq(Event)]

ClientTypes ==
  /\ kind \in [Event -> Making \cup {"new"}]
  /\ remote \in [Event -> {"unset", "set", "junk"}]
  /\ dst \in [Event -> 0 .. MaxEvent + 1]
  /\ usable \subseteq Event /\ known \subseteq Event
  /\ retained \subseteq Event /\ misled \subseteq Event

ServerTypes ==
  /\ entered \in BOOLEAN /\ up \in BOOLEAN
  /\ xev \in [Event -> {"none", "live", "freed"}] /\ queue \in Seq(Event)

(* The numbers. *)
LEMMA Bounds ==
  /\ MaxEvent \in Nat /\ MaxFaults \in Nat /\ MaxList \in Nat
  /\ Junk \in Nat /\ Junk \notin Event /\ Event \subseteq Nat
  /\ \A e \in Event : e \in 0 .. MaxEvent /\ e \in 0 .. MaxEvent + 1 /\ e # NoData
  /\ Event \cup {Junk} \subseteq 0 .. MaxEvent + 1
  /\ Nobody \notin Thread
  /\ \A k \in Kinds : k \notin {"new", "none", "wait", "release", "retain", Unmap}
  /\ Unmap \notin {"new", "none", "wait", "release", "retain"}
<1>1. MaxEvent \in Nat /\ MaxFaults \in Nat /\ MaxList \in Nat
  BY BoundsAreNat
<1>2. /\ \A k \in Kinds : k \notin {"new", "none", "wait", "release", "retain", Unmap}
      /\ Unmap \notin {"new", "none", "wait", "release", "retain"}
  BY DEF Kinds, ReadKinds, WriteKinds, MapKinds, Unmap
<1> QED BY <1>1, <1>2, NobodyCalls DEF Junk, Event, NoData, Nobody

(* The types as a step of the protocol is argued from. *)
LEMMA Types ==
  ASSUME TypeInv
  PROVE  /\ pc \in [Thread -> {"idle", "made", "asleep", "woken"}]
         /\ call \in [Thread -> Calls] /\ ans \in [Thread -> {"none", "ok", "error"}]
         /\ bytes \in [Thread -> Seq(Event \cup {Junk})]
         /\ pool \in Seq(Thread) /\ sent \in BOOLEAN /\ faults \in 0 .. MaxFaults
         /\ inbox \in Seq(Requests) /\ ClientTypes /\ ServerTypes
         /\ Len(pool) \in Nat /\ Len(inbox) \in Nat
         /\ \A i \in 1 .. Len(pool) : pool[i] \in Thread
         /\ \A i \in 1 .. Len(inbox) : inbox[i] \in Requests
         /\ \A t \in Thread : call[t].list \in Seq(Event)
<1>1. TypeOK
  BY DEF TypeInv
<1>2. /\ call \in [Thread -> Calls] /\ inbox \in Seq(Requests) /\ pool \in Seq(Thread)
  BY <1>1 DEF TypeOK, Calls, Requests
<1>3. Len(pool) \in Nat /\ Len(inbox) \in Nat
  BY <1>2, LenProperties
<1>4. \A i \in 1 .. Len(pool) : pool[i] \in Thread
  BY <1>2, ElementOfSeq
<1>5. \A i \in 1 .. Len(inbox) : inbox[i] \in Requests
  BY <1>2, ElementOfSeq
<1>6. \A t \in Thread : call[t].list \in Seq(Event)
  BY <1>2 DEF Calls
<1>7. ClientTypes /\ ServerTypes
  <2>1. /\ usable \subseteq Event /\ known \subseteq Event
        /\ retained \subseteq Event /\ misled \subseteq Event
    BY <1>1 DEF TypeOK
  <2>2. kind \in [Event -> Making \cup {"new"}]
    BY <1>1 DEF TypeOK, Making
  <2> QED BY <1>1, <2>1, <2>2 DEF TypeOK, ClientTypes, ServerTypes
<1> QED BY <1>1, <1>2, <1>3, <1>4, <1>5, <1>6, <1>7 DEF TypeOK

(* The same read backwards, of a state and of the next. *)
LEMMA TypesBack ==
  ASSUME pc \in [Thread -> {"idle", "made", "asleep", "woken"}],
         call \in [Thread -> Calls], ans \in [Thread -> {"none", "ok", "error"}],
         bytes \in [Thread -> Seq(Event \cup {Junk})],
         pool \in Seq(Thread), sent \in BOOLEAN, faults \in 0 .. MaxFaults,
         inbox \in Seq(Requests), ClientTypes, ServerTypes
  PROVE  TypeOK
<1>1. {usable, known, retained, misled} \subseteq SUBSET Event
  BY DEF ClientTypes
<1>2. kind \in [Event -> Kinds \cup {"new", Unmap}]
  BY DEF ClientTypes, Making
<1> QED BY <1>1, <1>2 DEF TypeOK, Calls, Requests, ClientTypes, ServerTypes

LEMMA TypesAgain ==
  ASSUME pc' \in [Thread -> {"idle", "made", "asleep", "woken"}],
         call' \in [Thread -> Calls], ans' \in [Thread -> {"none", "ok", "error"}],
         bytes' \in [Thread -> Seq(Event \cup {Junk})],
         pool' \in Seq(Thread), sent' \in BOOLEAN, faults' \in 0 .. MaxFaults,
         inbox' \in Seq(Requests), ClientTypes', ServerTypes'
  PROVE  TypeOK'
<1>1. ({usable, known, retained, misled} \subseteq SUBSET Event)'
  BY DEF ClientTypes
<1>2. kind' \in [Event -> Kinds \cup {"new", Unmap}]
  BY DEF ClientTypes, Making
<1> QED BY <1>1, <1>2 DEF TypeOK, Calls, Requests, ClientTypes, ServerTypes

(* The first of the pool and of the inbox. *)
LEMMA Heads ==
  ASSUME TypeInv
  PROVE  /\ pool # <<>> =>
              /\ Head(pool) = pool[1] /\ Head(pool) \in Thread /\ In(Head(pool), pool)
              /\ 1 \in 1 .. Len(pool) /\ pc[Head(pool)] \in {"made", "asleep"}
         /\ inbox # <<>> =>
              /\ Head(inbox) = inbox[1] /\ 1 \in 1 .. Len(inbox) /\ Head(inbox) \in Requests
              /\ RequestOf(1) /\ Head(inbox).list \in Seq(Event)
         /\ \A t \in Thread : In(t, pool) => pool # <<>>
<1>1. ASSUME pool # <<>>
      PROVE  /\ Head(pool) = pool[1] /\ Head(pool) \in Thread /\ In(Head(pool), pool)
             /\ 1 \in 1 .. Len(pool) /\ pc[Head(pool)] \in {"made", "asleep"}
  <2>1. Len(pool) # 0
    BY <1>1, Types, EmptySeq
  <2>2. 1 \in 1 .. Len(pool) /\ Head(pool) = pool[1]
    BY <2>1, Types
  <2>3. pool[1] \in Thread /\ In(pool[1], pool)
    BY <2>2, Types DEF In
  <2> QED BY <2>2, <2>3 DEF TypeInv, CallOf
<1>2. ASSUME inbox # <<>>
      PROVE  /\ Head(inbox) = inbox[1] /\ 1 \in 1 .. Len(inbox) /\ Head(inbox) \in Requests
             /\ RequestOf(1) /\ Head(inbox).list \in Seq(Event)
  <2>1. Len(inbox) # 0
    BY <1>2, Types, EmptySeq
  <2>2. 1 \in 1 .. Len(inbox) /\ Head(inbox) = inbox[1]
    BY <2>1, Types
  <2>3. inbox[1] \in Requests
    BY <2>2, Types
  <2> QED BY <2>2, <2>3 DEF TypeInv, Requests
<1>3. \A t \in Thread : In(t, pool) => pool # <<>>
  <2>1. Len(<<>>) = 0 /\ 1 .. 0 = {}
    OBVIOUS
  <2> QED BY <2>1 DEF In
<1> QED BY <1>1, <1>2, <1>3

(* A step that leaves the calls, the pool and the inbox alone. *)
LEMMA QuietTypes ==
  ASSUME TypeInv, UNCHANGED <<pc, call, ans, bytes, pool, sent, inbox, kind>>,
         faults' \in 0 .. MaxFaults, ClientTypes', ServerTypes'
  PROVE  TypeInv'
<1>1. TypeOK'
  <2>1. /\ pc' \in [Thread -> {"idle", "made", "asleep", "woken"}]
        /\ call' \in [Thread -> Calls] /\ ans' \in [Thread -> {"none", "ok", "error"}]
        /\ bytes' \in [Thread -> Seq(Event \cup {Junk})]
        /\ pool' \in Seq(Thread) /\ sent' \in BOOLEAN
        /\ inbox' \in Seq(Requests)
    BY Types
  <2> QED BY <2>1, TypesAgain
<1>2. \A t \in Thread : CallOf(t)'
  BY DEF TypeInv, CallOf
<1>3. \A i \in 1 .. Len(inbox') : RequestOf(i)'
  BY DEF TypeInv, RequestOf, Asked
<1> QED BY <1>1, <1>2, <1>3 DEF TypeInv

(* A thread makes a request.                                               *)
LEMMA RequestTypes ==
  ASSUME TypeInv, NEW t \in Thread, NEW c \in Calls, c.op # "none",
         c.op \in Making \cup {"release", "retain"} => c.ev \in Event,
         c.op \in Making => kind'[c.ev] = c.op,
         \A e \in Event : kind[e] # "new" => kind'[e] = kind[e],
         Request(t, c), ClientTypes'
  PROVE  TypeInv'
<1>1. /\ pc[t] = "idle" /\ pc' = [pc EXCEPT ![t] = "made"] /\ call' = [call EXCEPT ![t] = c]
      /\ pool' = Append(pool, t) /\ UNCHANGED <<ans, bytes, sent, server, faults>>
  BY DEF Request
<1>2. /\ pc'[t] = "made" /\ call'[t] = c
      /\ \A u \in Thread : u # t => pc'[u] = pc[u] /\ call'[u] = call[u]
  BY <1>1, Types
<1>3. /\ pool' \in Seq(Thread) /\ Len(pool') = Len(pool) + 1
      /\ \A i \in 1 .. Len(pool) : pool'[i] = pool[i]
      /\ pool'[Len(pool) + 1] = t
  BY <1>1, Types, AppendProperties
<1>4. \A u : In(u, pool') <=> u = t \/ In(u, pool)
  <2>1. ASSUME NEW u, In(u, pool') PROVE u = t \/ In(u, pool)
    <3>1. PICK i \in 1 .. Len(pool') : pool'[i] = u
      BY <2>1 DEF In
    <3>2. i \in 1 .. Len(pool) \/ i = Len(pool) + 1
      BY <1>3, Types
    <3> QED BY <1>3, <3>1, <3>2 DEF In
  <2>2. ASSUME NEW u, u = t \/ In(u, pool) PROVE In(u, pool')
    <3>1. Len(pool) + 1 \in 1 .. Len(pool') /\ 1 .. Len(pool) \subseteq 1 .. Len(pool')
      BY <1>3, Types
    <3> QED BY <1>3, <2>2, <3>1 DEF In
  <2> QED BY <2>1, <2>2
<1>5. ~ In(t, pool) /\ ans[t] = "none" /\ bytes[t] = <<>>
  BY <1>1 DEF TypeInv, CallOf
<1>6. TypeOK'
  <2>1. /\ pc' \in [Thread -> {"idle", "made", "asleep", "woken"}]
        /\ call' \in [Thread -> Calls] /\ ans' \in [Thread -> {"none", "ok", "error"}]
        /\ bytes' \in [Thread -> Seq(Event \cup {Junk})]
        /\ sent' \in BOOLEAN /\ faults' \in 0 .. MaxFaults
        /\ inbox' \in Seq(Requests)
    BY <1>1, Types DEF server
  <2>2. ServerTypes'
    BY <1>1, Types DEF server, ServerTypes
  <2> QED BY <1>3, <2>1, <2>2, TypesAgain
<1>7. \A u \in Thread : CallOf(u)'
  <2>1. ASSUME NEW u \in Thread, u # t PROVE CallOf(u)'
    <3>1. CallOf(u) /\ (call[u].op \in Making => kind[call[u].ev] # "new")
      BY Bounds DEF TypeInv, CallOf, Making
    <3> QED BY <1>1, <1>2, <1>4, <2>1, <3>1 DEF CallOf
  <2>2. CallOf(t)'
    BY <1>1, <1>2, <1>4, <1>5 DEF CallOf
  <2> QED BY <2>1, <2>2
<1>8. \A i, j \in 1 .. Len(pool') : pool'[i] = pool'[j] => i = j
  <2>1. \A i \in 1 .. Len(pool) : pool[i] # t
    BY <1>5 DEF In
  <2>2. \A i, j \in 1 .. Len(pool) : pool[i] = pool[j] => i = j
    BY DEF TypeInv
  <2>3. \A i \in 1 .. Len(pool') : i \in 1 .. Len(pool) \/ i = Len(pool) + 1
    BY <1>3, Types
  <2> QED BY <1>3, <2>1, <2>2, <2>3
<1>9. \A i \in 1 .. Len(inbox') : RequestOf(i)'
  <2> SUFFICES ASSUME NEW i \in 1 .. Len(inbox) PROVE RequestOf(i)'
    BY <1>1 DEF server
  <2>1. RequestOf(i)
    BY DEF TypeInv
  <2>2. pool # <<>> => pool' # <<>> /\ Head(pool') = Head(pool) /\ Head(pool) # t
    <3>1. ASSUME pool # <<>> PROVE pool' # <<>> /\ Head(pool') = Head(pool) /\ Head(pool) # t
      <4>1. pool'[1] = pool[1] /\ Head(pool) = pool[1] /\ Len(pool') # 0
        BY <1>3, <3>1, Heads, Types
      <4>2. pool' # <<>>
        BY <4>1
      <4>3. Head(pool') = pool'[1]
        BY <1>3, <4>2
      <4> QED BY <1>1, <3>1, <4>1, <4>2, <4>3, Heads
    <3> QED BY <3>1
  <2>3. Asked(i) => inbox[i].to \in Thread
    BY Heads, <2>1 DEF RequestOf
  <2> QED BY <1>1, <1>2, <2>1, <2>2, <2>3 DEF RequestOf, Asked, server
<1> QED BY <1>6, <1>7, <1>8, <1>9 DEF TypeInv

(* A call returns.                                                         *)
LEMMA ReturnTypes ==
  ASSUME TypeInv, NEW t \in Thread, pc[t] = "woken", Return(t),
         UNCHANGED <<pool, sent, kind, server, faults>>, ClientTypes'
  PROVE  TypeInv'
<1>1. /\ pc' = [pc EXCEPT ![t] = "idle"] /\ call' = [call EXCEPT ![t] = NoCall]
      /\ ans' = [ans EXCEPT ![t] = "none"] /\ bytes' = [bytes EXCEPT ![t] = <<>>]
  BY DEF Return
<1>2. /\ pc'[t] = "idle" /\ call'[t] = NoCall /\ ans'[t] = "none" /\ bytes'[t] = <<>>
      /\ \A u \in Thread : u # t =>
           pc'[u] = pc[u] /\ call'[u] = call[u] /\ ans'[u] = ans[u] /\ bytes'[u] = bytes[u]
  BY <1>1, Types
<1>3. ~ In(t, pool)
  BY DEF TypeInv, CallOf
<1>4. NoCall \in Calls /\ NoCall.op = "none" /\ <<>> \in Seq(Event \cup {Junk})
  BY Bounds DEF NoCall, Calls, Ops
<1>5. TypeOK'
  <2>1. /\ pc' \in [Thread -> {"idle", "made", "asleep", "woken"}]
        /\ call' \in [Thread -> Calls] /\ ans' \in [Thread -> {"none", "ok", "error"}]
        /\ bytes' \in [Thread -> Seq(Event \cup {Junk})]
        /\ pool' \in Seq(Thread) /\ sent' \in BOOLEAN /\ faults' \in 0 .. MaxFaults
        /\ inbox' \in Seq(Requests)
    BY <1>1, <1>4, Types DEF server
  <2>2. ServerTypes'
    BY Types DEF server, ServerTypes
  <2> QED BY <2>1, <2>2, TypesAgain
<1>6. \A u \in Thread : CallOf(u)'
  <2>1. ASSUME NEW u \in Thread, u # t PROVE CallOf(u)'
    <3>1. CallOf(u)
      BY DEF TypeInv
    <3> QED BY <1>2, <2>1, <3>1 DEF CallOf, In
  <2>2. CallOf(t)'
    BY <1>2, <1>3, <1>4, Bounds DEF CallOf, In, Making
  <2> QED BY <2>1, <2>2
<1>7. \A i \in 1 .. Len(inbox') : RequestOf(i)'
  <2> SUFFICES ASSUME NEW i \in 1 .. Len(inbox) PROVE RequestOf(i)'
    BY DEF server
  <2>1. RequestOf(i) /\ (Asked(i) => inbox[i].to \in Thread /\ inbox[i].to # t)
    BY <1>3, Heads DEF TypeInv, RequestOf
  <2> QED BY <1>2, <2>1 DEF RequestOf, Asked, server
<1> QED BY <1>5, <1>6, <1>7 DEF TypeInv

(* The pool gives the connection to its first request.                     *)
LEMMA SendTypes == ASSUME TypeInv, Send PROVE TypeInv'
<1> DEFINE h == Head(pool)
           r == [to |-> h, op |-> call[h].op, ev |-> call[h].ev, list |-> call[h].list]
<1>1. /\ pool # <<>> /\ ~ sent /\ ans[h] = "none" /\ sent' = TRUE
      /\ inbox' = Append(inbox, r)
      /\ UNCHANGED <<pc, call, ans, bytes, pool, client, entered, up, xev, queue, faults>>
  BY DEF Send
<1>2. h \in Thread /\ pc[h] \in {"made", "asleep"}
  BY <1>1, Heads
<1>3. call[h] \in Calls /\ call[h].op # "none"
  <2>1. call[h] \in Calls
    BY <1>2, Types
  <2> QED BY <1>2, <2>1 DEF TypeInv, CallOf
<1>4. r \in Requests /\ r.to = h
  BY <1>2, <1>3 DEF Requests, Calls, Ops
<1>5. /\ r.op = call[h].op /\ r.ev = call[h].ev /\ r.list = call[h].list
      /\ r.op \in Making \cup {"release", "retain"} => r.ev \in Event
  BY <1>2 DEF TypeInv, CallOf
<1>a. h = Head(pool)
  OBVIOUS
<1> HIDE DEF r, h
<1>6. /\ inbox' \in Seq(Requests) /\ Len(inbox') = Len(inbox) + 1
      /\ \A i \in 1 .. Len(inbox) : inbox'[i] = inbox[i]
      /\ inbox'[Len(inbox) + 1] = r
  BY <1>1, <1>4, Types, AppendProperties
<1>7. TypeOK'
  <2>1. /\ pc' \in [Thread -> {"idle", "made", "asleep", "woken"}]
        /\ call' \in [Thread -> Calls] /\ ans' \in [Thread -> {"none", "ok", "error"}]
        /\ bytes' \in [Thread -> Seq(Event \cup {Junk})]
        /\ pool' \in Seq(Thread) /\ sent' \in BOOLEAN /\ faults' \in 0 .. MaxFaults
    BY <1>1, Types
  <2>2. ServerTypes' /\ ClientTypes'
    BY <1>1, Types DEF client, ServerTypes, ClientTypes
  <2> QED BY <1>6, <2>1, <2>2, TypesAgain
<1>8. \A t \in Thread : CallOf(t)'
  BY <1>1 DEF TypeInv, CallOf, client
<1>9. \A i \in 1 .. Len(inbox') : RequestOf(i)'
  <2>0. \A i \in 1 .. Len(inbox') : i \in 1 .. Len(inbox) \/ i = Len(inbox) + 1
    BY <1>6, Types
  <2>1. \A i \in 1 .. Len(inbox) : RequestOf(i) /\ ~ Asked(i)
    BY <1>1 DEF TypeInv, RequestOf
  <2>2. \A i \in 1 .. Len(inbox) : RequestOf(i)' /\ ~ Asked(i)'
    BY <1>1, <1>6, <2>0, <2>1 DEF RequestOf, Asked
  <2>3. ASSUME NEW i \in 1 .. Len(inbox') PROVE RequestOf(i)'
    <3>1. CASE i \in 1 .. Len(inbox)
      BY <2>2, <3>1
    <3>2. CASE i = Len(inbox) + 1
      <4>1. inbox'[i] = r
        BY <1>6, <3>2
      <4>2. \A j \in 1 .. Len(inbox') : Asked(j)' => i = j
        BY <2>0, <2>2, <3>2
      <4> QED BY <1>1, <1>4, <1>5, <1>a, <4>1, <4>2 DEF RequestOf
    <3> QED BY <2>0, <3>1, <3>2
  <2> QED BY <2>3
<1>10. \A i, j \in 1 .. Len(pool') : pool'[i] = pool'[j] => i = j
  BY <1>1 DEF TypeInv
<1> QED BY <1>7, <1>8, <1>9, <1>10 DEF TypeInv

(* The first request fails: nobody waits for what the server has of it.    *)
LEMMA FailTypes ==
  ASSUME TypeInv, Fail, faults' \in 0 .. MaxFaults
  PROVE  TypeInv' /\ \A i \in 1 .. Len(inbox') : ~ Asked(i)'
<1> DEFINE h == Head(pool)
<1>1. /\ pool # <<>> /\ ans[h] = "none" /\ ans' = [ans EXCEPT ![h] = "error"]
      /\ inbox' = [i \in 1 .. Len(inbox) |->
                     IF inbox[i].to = h THEN [inbox[i] EXCEPT !.to = Nobody] ELSE inbox[i]]
      /\ UNCHANGED <<pc, call, bytes, pool, sent, client, entered, up, xev, queue>>
  BY DEF Fail
<1>2. h \in Thread
  BY <1>1, Heads
<1>a. h = Head(pool)
  OBVIOUS
<1> HIDE DEF h
<1>3. \A i \in 1 .. Len(inbox) :
        /\ inbox[i].to = h => inbox'[i] = [inbox[i] EXCEPT !.to = Nobody]
        /\ inbox[i].to # h => inbox'[i] = inbox[i]
  BY <1>1
<1>4. \A i \in 1 .. Len(inbox) :
        /\ inbox'[i] \in Requests /\ inbox'[i].to = Nobody
        /\ inbox'[i].op = inbox[i].op /\ inbox'[i].ev = inbox[i].ev
  <2> SUFFICES ASSUME NEW i \in 1 .. Len(inbox)
               PROVE  /\ inbox'[i] \in Requests /\ inbox'[i].to = Nobody
                      /\ inbox'[i].op = inbox[i].op /\ inbox'[i].ev = inbox[i].ev
    OBVIOUS
  <2>1. inbox[i] \in Requests /\ (inbox[i].to # Nobody => inbox[i].to = h)
    BY <1>a, Types DEF TypeInv, RequestOf, Asked
  <2> QED BY <1>3, <2>1 DEF Requests
<1>5. inbox' \in Seq(Requests) /\ Len(inbox') = Len(inbox)
  <2>1. inbox' \in [1 .. Len(inbox) -> Requests] /\ Len(inbox) \in Nat
    BY <1>1, <1>4, Types
  <2> QED BY <2>1
<1>6. TypeOK'
  <2>1. /\ pc' \in [Thread -> {"idle", "made", "asleep", "woken"}]
        /\ call' \in [Thread -> Calls] /\ ans' \in [Thread -> {"none", "ok", "error"}]
        /\ bytes' \in [Thread -> Seq(Event \cup {Junk})]
        /\ pool' \in Seq(Thread) /\ sent' \in BOOLEAN
    BY <1>1, Types
  <2>2. ServerTypes' /\ ClientTypes'
    BY <1>1, Types DEF client, ServerTypes, ClientTypes
  <2> QED BY <1>5, <2>1, <2>2, TypesAgain
<1>7. \A t \in Thread : CallOf(t)'
  <2> SUFFICES ASSUME NEW t \in Thread PROVE CallOf(t)'
    OBVIOUS
  <2>1. CallOf(t) /\ (t = h => In(t, pool))
    BY <1>1, <1>a, Heads DEF TypeInv
  <2>2. (t = h => ans'[t] = "error") /\ (t # h => ans'[t] = ans[t])
    BY <1>1, <1>2, Types
  <2> QED BY <1>1, <2>1, <2>2 DEF CallOf, client
<1>8. \A i \in 1 .. Len(inbox') : RequestOf(i)' /\ ~ Asked(i)'
  <2> SUFFICES ASSUME NEW i \in 1 .. Len(inbox) PROVE RequestOf(i)' /\ ~ Asked(i)'
    BY <1>5
  <2>1. RequestOf(i)
    BY DEF TypeInv
  <2> QED BY <1>4, <2>1 DEF RequestOf, Asked
<1>9. \A i, j \in 1 .. Len(pool') : pool'[i] = pool'[j] => i = j
  BY <1>1 DEF TypeInv
<1> QED BY <1>6, <1>7, <1>8, <1>9 DEF TypeInv

(* The callback wakes the thread, and the pool goes on.                    *)
LEMMA CallbackTypes == ASSUME TypeInv, Callback PROVE TypeInv'
<1> DEFINE h == Head(pool)
<1>1. /\ pool # <<>> /\ ans[h] # "none" /\ pc[h] = "asleep"
      /\ pc' = [pc EXCEPT ![h] = "woken"] /\ pool' = Tail(pool) /\ sent' = FALSE
      /\ UNCHANGED <<call, ans, bytes, client, server, faults>>
  BY DEF Callback
<1>2. h \in Thread /\ h = pool[1] /\ 1 \in 1 .. Len(pool)
  BY <1>1, Heads
<1>a. h = Head(pool)
  OBVIOUS
<1> HIDE DEF h
<1>3. /\ pool' \in Seq(Thread) /\ Len(pool') = Len(pool) - 1 /\ Len(pool) \in Nat
      /\ \A i \in 1 .. Len(pool') : pool'[i] = pool[i + 1]
  BY <1>1, Types, HeadTailProperties
<1>4. pc'[h] = "woken" /\ \A u \in Thread : u # h => pc'[u] = pc[u]
  BY <1>1, <1>2, Types
<1>b. \A i, j \in 1 .. Len(pool) : pool[i] = pool[j] => i = j
  BY DEF TypeInv
<1>c. \A i \in 1 .. Len(pool') : i + 1 \in 1 .. Len(pool) /\ i + 1 # 1
  BY <1>3
<1>5. \A u \in Thread : In(u, pool') <=> In(u, pool) /\ u # h
  <2>1. ASSUME NEW u \in Thread, In(u, pool') PROVE In(u, pool) /\ u # h
    <3>1. PICK i \in 1 .. Len(pool') : pool'[i] = u
      BY <2>1 DEF In
    <3>2. pool[i + 1] = u
      BY <1>3, <3>1
    <3> QED BY <1>2, <1>b, <1>c, <3>2 DEF In
  <2>2. ASSUME NEW u \in Thread, In(u, pool), u # h PROVE In(u, pool')
    <3>1. PICK i \in 1 .. Len(pool) : pool[i] = u
      BY <2>2 DEF In
    <3>2. i # 1 /\ i - 1 \in 1 .. Len(pool') /\ (i - 1) + 1 = i
      BY <1>2, <1>3, <2>2, <3>1
    <3> QED BY <1>3, <3>1, <3>2 DEF In
  <2> QED BY <2>1, <2>2
<1>6. TypeOK'
  <2>1. /\ pc' \in [Thread -> {"idle", "made", "asleep", "woken"}]
        /\ call' \in [Thread -> Calls] /\ ans' \in [Thread -> {"none", "ok", "error"}]
        /\ bytes' \in [Thread -> Seq(Event \cup {Junk})]
        /\ sent' \in BOOLEAN /\ faults' \in 0 .. MaxFaults /\ inbox' \in Seq(Requests)
    BY <1>1, Types DEF server
  <2>2. ServerTypes' /\ ClientTypes'
    BY <1>1, Types DEF client, server, ServerTypes, ClientTypes
  <2> QED BY <1>3, <2>1, <2>2, TypesAgain
<1>7. \A t \in Thread : CallOf(t)'
  <2> SUFFICES ASSUME NEW t \in Thread PROVE CallOf(t)'
    OBVIOUS
  <2>1. CallOf(t)
    BY DEF TypeInv
  <2> QED BY <1>1, <1>4, <1>5, <2>1 DEF CallOf, client
<1>8. \A i \in 1 .. Len(inbox') : RequestOf(i)'
  <2> SUFFICES ASSUME NEW i \in 1 .. Len(inbox) PROVE RequestOf(i)'
    BY <1>1 DEF server
  <2>1. RequestOf(i) /\ ~ Asked(i)
    BY <1>1, <1>a DEF TypeInv, RequestOf
  <2> QED BY <1>1, <2>1 DEF RequestOf, Asked, server
<1>9. \A i, j \in 1 .. Len(pool') : pool'[i] = pool'[j] => i = j
  BY <1>3, <1>b, <1>c
<1> QED BY <1>6, <1>7, <1>8, <1>9 DEF TypeInv

(* The server answers the first request it has.                            *)
LEMMA ReplyTypes ==
  ASSUME TypeInv, inbox # <<>>, NEW s \in {"ok", "error"}, NEW b \in Seq(Event \cup {Junk}),
         Head(inbox).op \in {"readB", "mapB"} /\ s = "ok" => b # <<>>,
         Reply(s, b), UNCHANGED <<pc, call, pool, sent, client, faults>>, ServerTypes'
  PROVE  /\ TypeInv'
         /\ Len(inbox') = Len(inbox) - 1 /\ Len(inbox) \in Nat
         /\ \A t \in Thread : \/ ans'[t] = ans[t] /\ bytes'[t] = bytes[t]
                              \/ /\ t = Head(inbox).to /\ ans[t] = "none"
                                 /\ ans'[t] = s /\ bytes'[t] = b
                                 /\ Head(inbox).op = call[t].op /\ Head(inbox).ev = call[t].ev
                                 /\ Head(inbox).list = call[t].list /\ pc[t] # "idle"
         /\ Asked(1) =>
              ans'[Head(inbox).to] = s /\ bytes'[Head(inbox).to] = b /\ Head(inbox).to \in Thread
<1> DEFINE h == Head(inbox).to
<1>1. /\ inbox' = Tail(inbox)
      /\ h = Nobody => ans' = ans /\ bytes' = bytes
      /\ h # Nobody => ans' = [ans EXCEPT ![h] = s] /\ bytes' = [bytes EXCEPT ![h] = b]
  BY DEF Reply
<1>2. /\ Head(inbox) = inbox[1] /\ 1 \in 1 .. Len(inbox) /\ RequestOf(1)
      /\ (Asked(1) <=> h # Nobody)
  BY Heads DEF Asked
<1>3. h # Nobody =>
        /\ h \in Thread /\ ans[h] = "none" /\ pc[h] # "idle"
        /\ Head(inbox).op = call[h].op /\ Head(inbox).ev = call[h].ev
        /\ Head(inbox).list = call[h].list
  BY <1>2, Heads DEF RequestOf
<1>a. h = Head(inbox).to
  OBVIOUS
<1> HIDE DEF h
<1>4. /\ inbox' \in Seq(Requests) /\ Len(inbox') = Len(inbox) - 1 /\ Len(inbox) \in Nat
      /\ \A i \in 1 .. Len(inbox') : inbox'[i] = inbox[i + 1]
  BY <1>1, Types, HeadTailProperties
<1>5. /\ ans' \in [Thread -> {"none", "ok", "error"}]
      /\ bytes' \in [Thread -> Seq(Event \cup {Junk})]
  <2>1. CASE h = Nobody
    BY <1>1, <2>1, Types
  <2>2. CASE h # Nobody
    BY <1>1, <1>3, <2>2, Types
  <2> QED BY <2>1, <2>2
<1>6. /\ \A t \in Thread : t # h => ans'[t] = ans[t] /\ bytes'[t] = bytes[t]
      /\ h # Nobody => ans'[h] = s /\ bytes'[h] = b
  BY <1>1, <1>3, Types, Bounds
<1>7. TypeOK'
  <2>1. /\ pc' \in [Thread -> {"idle", "made", "asleep", "woken"}]
        /\ call' \in [Thread -> Calls] /\ faults' \in 0 .. MaxFaults
        /\ pool' \in Seq(Thread) /\ sent' \in BOOLEAN /\ ClientTypes'
    BY Types DEF client, ClientTypes
  <2> QED BY <1>4, <1>5, <2>1, TypesAgain
<1>8. \A t \in Thread : CallOf(t)'
  <2> SUFFICES ASSUME NEW t \in Thread PROVE CallOf(t)'
    OBVIOUS
  <2>1. CallOf(t)
    BY DEF TypeInv
  <2>2. CASE t # h
    BY <1>6, <2>1, <2>2 DEF CallOf, In, client
  <2>3. CASE t = h
    <3>1. ans'[t] = s /\ bytes'[t] = b /\ pc[t] # "idle" /\ call[t].op = Head(inbox).op
      BY <1>3, <1>6, <2>3, Bounds
    <3> QED BY <2>1, <3>1 DEF CallOf, In, client
  <2> QED BY <2>2, <2>3
<1>9. \A i \in 1 .. Len(inbox') : RequestOf(i)'
  <2> SUFFICES ASSUME NEW i \in 1 .. Len(inbox') PROVE RequestOf(i)'
    OBVIOUS
  <2>1. \A j \in 1 .. Len(inbox') : j + 1 \in 1 .. Len(inbox) /\ j + 1 # 1
    BY <1>4
  <2>2. RequestOf(i + 1)
    BY <2>1 DEF TypeInv
  <2>3. Asked(i + 1) => ~ Asked(1)
    BY <1>2, <2>1, <2>2 DEF RequestOf
  <2>4. Asked(i + 1) => ans' = ans
    BY <1>1, <1>2, <2>3
  <2>5. inbox'[i] = inbox[i + 1] /\ (Asked(i)' <=> Asked(i + 1))
    BY <1>4 DEF Asked
  <2>6. \A j \in 1 .. Len(inbox') : Asked(i)' /\ Asked(j)' => i = j
    <3> SUFFICES ASSUME NEW j \in 1 .. Len(inbox'), Asked(i)', Asked(j)' PROVE i = j
      OBVIOUS
    <3>1. Asked(i + 1) /\ Asked(j + 1)
      BY <1>4 DEF Asked
    <3>2. i + 1 = j + 1
      BY <2>1, <2>2, <3>1 DEF RequestOf
    <3> QED BY <3>2
  <2> QED BY <2>2, <2>4, <2>5, <2>6 DEF RequestOf
<1>10. TypeInv'
  BY <1>7, <1>8, <1>9 DEF TypeInv
<1>11. \A t \in Thread : \/ ans'[t] = ans[t] /\ bytes'[t] = bytes[t]
                         \/ /\ t = h /\ ans[t] = "none"
                            /\ ans'[t] = s /\ bytes'[t] = b
                            /\ Head(inbox).op = call[t].op /\ Head(inbox).ev = call[t].ev
                            /\ Head(inbox).list = call[t].list /\ pc[t] # "idle"
  BY <1>3, <1>6, Bounds
<1> QED BY <1>2, <1>3, <1>4, <1>6, <1>10, <1>11, <1>a

(* The server is gone. *)
LEMMA CrashTypes == ASSUME TypeInv, Crash PROVE TypeInv'
<1>1. /\ inbox' = <<>> /\ queue' = <<>> /\ entered' = FALSE /\ up' = FALSE
      /\ xev' = [e \in Event |-> "none"]
      /\ UNCHANGED <<pc, call, ans, bytes, pool, sent, client, faults>>
  BY DEF Crash
<1>2. TypeOK'
  <2>1. /\ pc' \in [Thread -> {"idle", "made", "asleep", "woken"}]
        /\ call' \in [Thread -> Calls] /\ ans' \in [Thread -> {"none", "ok", "error"}]
        /\ bytes' \in [Thread -> Seq(Event \cup {Junk})]
        /\ pool' \in Seq(Thread) /\ sent' \in BOOLEAN /\ faults' \in 0 .. MaxFaults
        /\ ClientTypes'
    BY <1>1, Types DEF client, ClientTypes
  <2>2. <<>> \in Seq(Event) /\ <<>> \in Seq(Requests)
    OBVIOUS
  <2>3. ServerTypes' /\ inbox' \in Seq(Requests)
    BY <1>1, <2>2 DEF ServerTypes
  <2> QED BY <2>1, <2>3, TypesAgain
<1>3. \A t \in Thread : CallOf(t)'
  BY <1>1 DEF TypeInv, CallOf, In, client
<1>4. 1 .. Len(inbox') = {}
  BY <1>1
<1> QED BY <1>1, <1>2, <1>3, <1>4 DEF TypeInv

(* The thread asks the server for something.                               *)
LEMMA CallTypes == ASSUME TypeInv, NEW t \in Thread, Host(t) PROVE TypeInv'
<1>0. /\ ClientTypes
      /\ \A S, n, l : S \subseteq Event /\ n \in Nat /\ l \in Lists(S, n) => l \in Seq(Event)
  <2>1. ASSUME NEW S, NEW n \in Nat, NEW l \in Lists(S, n), S \subseteq Event
        PROVE  l \in Seq(Event)
    <3>1. PICK k \in 0 .. n : l \in [1 .. k -> S]
      BY <2>1 DEF Lists
    <3>2. l \in [1 .. k -> Event] /\ k \in Nat
      BY <2>1, <3>1
    <3> QED BY <3>2
  <2> QED BY <2>1, Types
<1>1. ASSUME NEW e \in Event, NEW k \in Making, NEW l \in Seq(Event), MakeEvent(t, e, k, l)
      PROVE  TypeInv'
  <2> DEFINE c == [op |-> k, ev |-> e, list |-> l]
  <2>1. /\ Request(t, c) /\ kind' = [kind EXCEPT ![e] = k] /\ kind[e] = "new"
        /\ UNCHANGED <<remote, dst, usable, known, retained, misled>>
    BY <1>1 DEF MakeEvent
  <2>2. c \in Calls /\ c.op = k /\ c.ev = e
    BY <1>0, Bounds DEF Calls, Ops, Making
  <2>3. ClientTypes' /\ kind'[e] = k /\ \A d \in Event : d # e => kind'[d] = kind[d]
    BY <1>0, <2>1 DEF ClientTypes
  <2>4. k # "none"
    BY Bounds DEF Making
  <2> HIDE DEF c
  <2> QED BY <2>1, <2>2, <2>3, <2>4, RequestTypes
<1>2. ASSUME NEW op \in {"wait", "release", "retain"}, NEW e \in 0 .. MaxEvent,
             op # "wait" => e \in Event, NEW l \in Seq(Event),
             Request(t, [op |-> op, ev |-> e, list |-> l]), UNCHANGED kind, ClientTypes'
      PROVE  TypeInv'
  <2> DEFINE c == [op |-> op, ev |-> e, list |-> l]
  <2>1. c \in Calls /\ c.op = op /\ c.ev = e /\ op # "none" /\ op \notin Making
    BY Bounds DEF Calls, Ops, Making
  <2>2. Request(t, c)
    BY <1>2
  <2> HIDE DEF c
  <2> QED BY <1>2, <2>1, <2>2, RequestTypes
<1>3. CASE ReadBuffer(t) \/ WriteBuffer(t) \/ MapBuffer(t) \/ CopyBuffer(t) \/ NDRangeKernel(t)
  <2>1. PICK e \in Event, k \in Kinds, l \in Lists(usable, 1) : Enqueue(t, e, k, l)
    BY <1>3, Zenon DEF ReadBuffer, WriteBuffer, MapBuffer, CopyBuffer, NDRangeKernel, Kinds
  <2>2. MakeEvent(t, e, k, l) /\ k \in Making /\ l \in Seq(Event)
    BY <1>0, <2>1 DEF Enqueue, Making, ClientTypes
  <2> QED BY <1>1, <2>2
<1>4. CASE WaitForEvents(t)
  <2>1. PICK l \in Lists({e \in usable : kind[e] \in Listable}, MaxList) :
          Request(t, [op |-> "wait", ev |-> 0, list |-> l]) /\ UNCHANGED client
    BY <1>4 DEF WaitForEvents
  <2>2. l \in Seq(Event) /\ 0 \in 0 .. MaxEvent
    <3>1. {e \in usable : kind[e] \in Listable} \subseteq Event
      BY <1>0 DEF ClientTypes
    <3> QED BY <1>0, <2>1, <3>1, Bounds
  <2>3. ClientTypes' /\ UNCHANGED kind
    BY <1>0, <2>1 DEF client, ClientTypes
  <2> QED BY <1>2, <2>1, <2>2, <2>3
<1>5. CASE ReleaseEvent(t)
  <2>1. PICK e \in usable :
          /\ usable' = usable \ {e}
          /\ Request(t, [op |-> "release", ev |-> e, list |-> <<e>>])
          /\ UNCHANGED <<kind, remote, dst, known, retained, misled>>
    BY <1>5 DEF ReleaseEvent
  <2>2. e \in Event /\ e \in 0 .. MaxEvent /\ <<e>> \in Seq(Event)
    <3>1. e \in Event
      BY <1>0, <2>1 DEF ClientTypes
    <3> QED BY <3>1, Bounds
  <2>3. ClientTypes'
    BY <1>0, <2>1 DEF ClientTypes
  <2> QED BY <1>2, <2>1, <2>2, <2>3
<1>6. CASE RetainEvent(t)
  <2>1. PICK e \in usable :
          /\ retained' = retained \cup {e}
          /\ Request(t, [op |-> "retain", ev |-> e, list |-> <<e>>])
          /\ UNCHANGED <<kind, remote, dst, usable, known, misled>>
    BY <1>6 DEF RetainEvent
  <2>2. e \in Event /\ e \in 0 .. MaxEvent /\ <<e>> \in Seq(Event)
    <3>1. e \in Event
      BY <1>0, <2>1 DEF ClientTypes
    <3> QED BY <3>1, Bounds
  <2>3. ClientTypes'
    BY <1>0, <2>1, <2>2 DEF ClientTypes
  <2> QED BY <1>2, <2>1, <2>2, <2>3
<1>7. CASE UnmapMemObject(t)
  <2>1. PICK e \in Event : MakeEvent(t, e, Unmap, <<>>)
    BY <1>7 DEF UnmapMemObject
  <2>2. <<>> \in Seq(Event) /\ Unmap \in Making
    BY DEF Making
  <2> QED BY <1>1, <2>1, <2>2
<1> QED BY <1>3, <1>4, <1>5, <1>6, <1>7 DEF Host

(* A reply that was never made is read. *)
LEMMA MisreadTypes ==
  ASSUME ClientTypes, NEW e \in Event, Misread(e)
  PROVE  ClientTypes' /\ UNCHANGED kind
BY DEF Misread, ClientTypes

(* The thread goes to sleep, or returns from its call.                     *)
LEMMA ReturningTypes == ASSUME TypeInv, NEW t \in Thread, Returning(t) PROVE TypeInv'
<1>0. ClientTypes /\ \A u \in Thread : CallOf(u)
  BY Types DEF TypeInv
<1>1. CASE Sleep(t)
  <2>1. /\ pc[t] = "made" /\ pc' = [pc EXCEPT ![t] = "asleep"]
        /\ UNCHANGED <<call, ans, bytes, pool, sent, client, server, faults>>
    BY <1>1 DEF Sleep
  <2>2. pc'[t] = "asleep" /\ \A u \in Thread : u # t => pc'[u] = pc[u]
    BY <2>1, Types
  <2>3. TypeOK'
    <3>1. /\ pc' \in [Thread -> {"idle", "made", "asleep", "woken"}]
          /\ call' \in [Thread -> Calls] /\ ans' \in [Thread -> {"none", "ok", "error"}]
          /\ bytes' \in [Thread -> Seq(Event \cup {Junk})]
          /\ pool' \in Seq(Thread) /\ sent' \in BOOLEAN /\ faults' \in 0 .. MaxFaults
          /\ inbox' \in Seq(Requests)
      BY <2>1, Types DEF server
    <3>2. ClientTypes' /\ ServerTypes'
      BY <2>1, Types DEF client, server, ClientTypes, ServerTypes
    <3> QED BY <3>1, <3>2, TypesAgain
  <2>4. \A u \in Thread : CallOf(u)'
    BY <1>0, <2>1, <2>2 DEF CallOf, In, client
  <2>5. \A i \in 1 .. Len(inbox') : RequestOf(i)'
    BY <2>1 DEF TypeInv, RequestOf, Asked, server
  <2> QED BY <2>1, <2>3, <2>4, <2>5 DEF TypeInv
<1>2. CASE ReturnEnqueue(t)
  <2>0. PICK e : e = call[t].ev
    OBVIOUS
  <2>1. /\ pc[t] = "woken" /\ call[t].op \in Kinds /\ Return(t)
        /\ UNCHANGED <<pool, sent, server, faults>>
        /\ \/ /\ ans[t] = "ok" /\ remote' = [remote EXCEPT ![e] = "set"]
              /\ dst' = IF kind[e] \in {"readB", "mapB"} THEN [dst EXCEPT ![e] = bytes[t][1]]
                        ELSE dst
              /\ usable' = usable \cup {e} /\ known' \in {known, known \cup {e}}
              /\ UNCHANGED <<kind, retained, misled>>
           \/ Misread(e)
    BY <1>2, <2>0 DEF ReturnEnqueue
  <2>2. e \in Event /\ kind[e] = call[t].op
    BY <1>0, <2>0, <2>1 DEF CallOf, Making
  <2>3. CASE Misread(e)
    <3>1. ClientTypes' /\ UNCHANGED kind
      BY <1>0, <2>2, <2>3, MisreadTypes
    <3> QED BY <2>1, <3>1, ReturnTypes
  <2>4. CASE /\ ans[t] = "ok" /\ remote' = [remote EXCEPT ![e] = "set"]
             /\ dst' = IF kind[e] \in {"readB", "mapB"} THEN [dst EXCEPT ![e] = bytes[t][1]]
                       ELSE dst
             /\ usable' = usable \cup {e} /\ known' \in {known, known \cup {e}}
             /\ UNCHANGED <<kind, retained, misled>>
    <3>1. ASSUME kind[e] \in {"readB", "mapB"} PROVE bytes[t][1] \in 0 .. MaxEvent + 1
      <4>1. bytes[t] # <<>> /\ bytes[t] \in Seq(Event \cup {Junk})
        BY <1>0, <2>2, <2>4, <3>1, Types DEF CallOf
      <4>2. bytes[t][1] \in Event \cup {Junk}
        BY <4>1, EmptySeq, ElementOfSeq
      <4> QED BY <4>2, Bounds
    <3>2. dst' \in [Event -> 0 .. MaxEvent + 1]
      BY <1>0, <2>2, <2>4, <3>1 DEF ClientTypes
    <3>3. ClientTypes'
      BY <1>0, <2>2, <2>4, <3>2 DEF ClientTypes
    <3> QED BY <2>1, <2>4, <3>3, ReturnTypes
  <2> QED BY <2>1, <2>3, <2>4
<1>3. CASE ReturnWait(t)
  <2> DEFINE l == call[t].list
  <2>1. /\ pc[t] = "woken" /\ Return(t) /\ dst' = Copied(l, bytes[t])
        /\ known' \in {known, known \cup {e \in Event : In(e, l)}}
        /\ misled' \in {misled, misled \cup {e \in Event : In(e, l)}}
        /\ UNCHANGED <<pool, sent, kind, remote, usable, retained, server, faults>>
    BY <1>3 DEF ReturnWait
  <2>2. l \in Seq(Event) /\ Len(l) \in Nat
    BY Types, LenProperties
  <2>3. bytes[t] \in Seq(Event \cup {Junk}) /\ Len(bytes[t]) \in Nat
    BY Types, LenProperties
  <2>4. \A k \in Nat : 1 <= k /\ k <= Len(bytes[t]) => bytes[t][k] \in Event \cup {Junk}
    BY <2>3, ElementOfSeq
  <2>5. \A e \in Event : In(e, l) => Place(e, l) \in 1 .. Len(l) /\ l[Place(e, l)] = e
    BY DEF In, Place
  <2>6. ASSUME NEW e \in Event, In(e, l), HostBuffer(e)
        PROVE  LET k == Segment(l, Place(e, l), {d \in Event : HostBuffer(d)})
               IN  k \in Nat /\ 1 <= k
    <3> DEFINE B == {d \in Event : HostBuffer(d)}
               i == Place(e, l)
    <3>1. i \in Nat /\ 0 < i /\ l[i] \in B /\ 0 \in Nat
      BY <2>2, <2>5, <2>6
    <3> HIDE DEF B, i
    <3>2. /\ Segment(l, 0, B) = 0 /\ Segment(l, i, B) \in Nat
          /\ Segment(l, 0, B) < Segment(l, i, B)
      BY <3>1, SegmentFacts, Zenon
    <3> QED BY <3>2 DEF B, i
  <2>7. dst' \in [Event -> 0 .. MaxEvent + 1]
    <3>1. \A e \in Event : dst[e] \in 0 .. MaxEvent + 1
      BY <1>0 DEF ClientTypes
    <3>2. Copied(l, bytes[t]) \in [Event -> 0 .. MaxEvent + 1]
      BY <2>4, <2>6, <3>1, Bounds DEF Copied
    <3> QED BY <2>1, <3>2
  <2>8. ClientTypes'
    BY <1>0, <2>1, <2>7 DEF ClientTypes
  <2> QED BY <2>1, <2>8, ReturnTypes
<1>4. CASE ReturnRelease(t) \/ ReturnRetain(t)
  <2>1. pc[t] = "woken" /\ Return(t) /\ UNCHANGED <<pool, sent, client, server, faults>>
    BY <1>4 DEF ReturnRelease, ReturnRetain
  <2>2. ClientTypes' /\ UNCHANGED kind
    BY <1>0, <2>1 DEF ClientTypes, client
  <2> QED BY <2>1, <2>2, ReturnTypes
<1>5. CASE ReturnUnmap(t)
  <2>0. PICK e : e = call[t].ev
    OBVIOUS
  <2>1. /\ pc[t] = "woken" /\ call[t].op = Unmap /\ Return(t) /\ Misread(e)
        /\ UNCHANGED <<pool, sent, server, faults>>
    BY <1>5, <2>0 DEF ReturnUnmap
  <2>2. e \in Event
    BY <1>0, <2>0, <2>1 DEF CallOf, Making
  <2>3. ClientTypes' /\ UNCHANGED kind
    BY <1>0, <2>1, <2>2, MisreadTypes
  <2> QED BY <2>1, <2>3, ReturnTypes
<1> QED BY <1>1, <1>2, <1>3, <1>4, <1>5 DEF Returning

(* The server handles a request, or the device a command.                  *)
LEMMA ServerTypesKept == ASSUME TypeInv, Server \/ Complete PROVE TypeInv'
<1>0. /\ ServerTypes /\ ClientTypes /\ <<>> \in Seq(Event \cup {Junk})
      /\ \A e \in Event : <<Content(e)>> \in Seq(Event \cup {Junk})
      /\ faults \in 0 .. MaxFaults
  <2>1. \A e \in Event : Content(e) \in Event \cup {Junk}
    BY DEF Content
  <2>2. \A x \in Event \cup {Junk} : <<x>> \in Seq(Event \cup {Junk})
    OBVIOUS
  <2> QED BY <2>1, <2>2, Types
<1>1. ASSUME NEW kinds \in {ReadKinds, WriteKinds, MapKinds, {"exec"}}, Enter(kinds)
      PROVE  TypeInv'
  <2> DEFINE r == Head(inbox)
  <2>1. /\ inbox # <<>> /\ r.op \in kinds
        /\ \/ Crash
           \/ /\ xev' = [xev EXCEPT ![r.ev] = "live"] /\ queue' = Append(queue, r.ev)
              /\ \/ entered' = TRUE /\ UNCHANGED <<inbox, ans, bytes>>
                 \/ r.op \notin Blocking /\ Reply("ok", <<>>) /\ UNCHANGED entered
              /\ UNCHANGED <<pc, call, pool, sent, client, up, faults>>
    BY <1>1 DEF Enter, Serving
  <2>2. r.ev \in Event
    <3>1. r.op \in Kinds
      BY <2>1 DEF Kinds
    <3> QED BY <2>1, <3>1, Heads DEF RequestOf, Making
  <2>3. CASE Crash
    BY <2>3, CrashTypes
  <2>4. CASE /\ xev' = [xev EXCEPT ![r.ev] = "live"] /\ queue' = Append(queue, r.ev)
             /\ \/ entered' = TRUE /\ UNCHANGED <<inbox, ans, bytes>>
                \/ r.op \notin Blocking /\ Reply("ok", <<>>) /\ UNCHANGED entered
             /\ UNCHANGED <<pc, call, pool, sent, client, up, faults>>
    <3>1. ServerTypes'
      BY <1>0, <2>2, <2>4, AppendProperties DEF ServerTypes
    <3>2. CASE entered' = TRUE /\ UNCHANGED <<inbox, ans, bytes>>
      <4>1. ClientTypes' /\ faults' \in 0 .. MaxFaults
        BY <1>0, <2>4 DEF ClientTypes, client
      <4> QED BY <2>4, <3>1, <3>2, <4>1, QuietTypes DEF client
    <3>3. CASE r.op \notin Blocking /\ Reply("ok", <<>>)
      <4>1. ~(r.op \in {"readB", "mapB"})
        BY <3>3 DEF Blocking
      <4> QED BY <1>0, <2>1, <2>4, <3>1, <3>3, <4>1, ReplyTypes
    <3> QED BY <2>4, <3>2, <3>3
  <2> QED BY <2>1, <2>3, <2>4
<1>2. CASE LeaveEnqueue
  <2> DEFINE b == IF Head(inbox).op = "writeB" THEN <<>> ELSE <<Content(Head(inbox).ev)>>
  <2>1. /\ inbox # <<>> /\ Head(inbox).op \in Kinds /\ Reply("ok", b) /\ entered' = FALSE
        /\ UNCHANGED <<pc, call, pool, sent, client, up, xev, queue, faults>>
    BY <1>2 DEF LeaveEnqueue, Serving
  <2>2. Head(inbox).ev \in Event
    BY <2>1, Heads DEF RequestOf, Making
  <2>3. /\ b \in Seq(Event \cup {Junk})
        /\ Head(inbox).op \in {"readB", "mapB"} => b # <<>>
    <3>1. \A x : <<x>> # <<>>
      OBVIOUS
    <3> QED BY <1>0, <2>2, <3>1
  <2>4. ServerTypes'
    BY <1>0, <2>1 DEF ServerTypes
  <2> HIDE DEF b
  <2> QED BY <2>1, <2>3, <2>4, ReplyTypes
<1>3. CASE ServeWait
  <2>1. /\ inbox # <<>> /\ Head(inbox).op = "wait"
        /\ \/ Crash
           \/ /\ Reply("ok", Packed(Head(inbox).list))
              /\ UNCHANGED <<pc, call, pool, sent, client, entered, up, xev, queue, faults>>
    BY <1>3 DEF ServeWait, Serving
  <2>2. Packed(Head(inbox).list) \in Seq(Event \cup {Junk})
    BY <2>1, Heads, PackedFacts
  <2>3. UNCHANGED <<entered, up, xev, queue>> => ServerTypes'
    BY <1>0 DEF ServerTypes
  <2> QED BY <2>1, <2>2, <2>3, CrashTypes, ReplyTypes
<1>4. CASE ServeRelease \/ ServeRetain
  <2>1. /\ inbox # <<>> /\ Head(inbox).op \in {"release", "retain"}
        /\ \/ Crash
           \/ /\ Reply("ok", <<>>) /\ xev' = [xev EXCEPT ![Head(inbox).ev] = "freed"]
              /\ UNCHANGED <<pc, call, pool, sent, client, entered, up, queue, faults>>
    BY <1>4 DEF ServeRelease, ServeRetain, Serving
  <2>2. /\ xev' = [xev EXCEPT ![Head(inbox).ev] = "freed"] /\ UNCHANGED <<entered, up, queue>>
        => ServerTypes'
    BY <1>0 DEF ServerTypes
  <2>3. Head(inbox).op \notin {"readB", "mapB"}
    BY <2>1
  <2> QED BY <1>0, <2>1, <2>2, <2>3, CrashTypes, ReplyTypes
<1>5. CASE ServeUnknown
  <2>1. /\ inbox # <<>> /\ Head(inbox).op = Unmap /\ Reply("error", <<>>)
        /\ UNCHANGED <<pc, call, pool, sent, client, entered, up, xev, queue, faults>>
    BY <1>5 DEF ServeUnknown, Serving
  <2>2. ServerTypes'
    BY <1>0, <2>1 DEF ServerTypes
  <2> QED BY <1>0, <2>1, <2>2, ReplyTypes
<1>6. CASE Complete
  <2>1. \/ Crash
        \/ /\ queue # <<>> /\ queue' = Tail(queue)
           /\ UNCHANGED <<pc, call, ans, bytes, pool, sent, client, inbox, entered, up, xev, faults>>
    BY <1>6 DEF Complete
  <2>2. CASE /\ queue # <<>> /\ queue' = Tail(queue)
             /\ UNCHANGED <<pc, call, ans, bytes, pool, sent, client, inbox, entered, up, xev, faults>>
    <3>1. ServerTypes' /\ ClientTypes' /\ faults' \in 0 .. MaxFaults
      BY <1>0, <2>2, HeadTailProperties DEF ServerTypes, ClientTypes, client
    <3> QED BY <2>2, <3>1, QuietTypes DEF client
  <2> QED BY <2>1, <2>2, CrashTypes
<1> QED
  BY <1>1, <1>2, <1>3, <1>4, <1>5, <1>6
     DEF Server, ServeRead, ServeWrite, ServeMap, ServeExec

(* Before the first request. *)
LEMMA TypeInit == Init => TypeInv
<1> SUFFICES ASSUME Init PROVE TypeInv
  OBVIOUS
<1>1. NoCall \in Calls
  BY Bounds DEF NoCall, Calls
<1>2. <<>> \in Seq(Event) /\ <<>> \in Seq(Thread) /\ <<>> \in Seq(Event \cup {Junk})
  OBVIOUS
<1>3. inbox = <<>> /\ pool = <<>> /\ queue = <<>>
  BY DEF Init
<1>4. TypeOK
  <2>1. /\ call \in [Thread -> Calls] /\ bytes \in [Thread -> Seq(Event \cup {Junk})]
        /\ pc \in [Thread -> {"idle", "made", "asleep", "woken"}]
        /\ ans \in [Thread -> {"none", "ok", "error"}] /\ sent \in BOOLEAN
    BY <1>1, <1>2 DEF Init
  <2>2. inbox \in Seq(Requests) /\ pool \in Seq(Thread) /\ queue \in Seq(Event)
    BY <1>3
  <2>3. faults \in 0 .. MaxFaults /\ NoData \in 0 .. MaxEvent + 1
    BY Bounds DEF NoData, Init
  <2>4. ClientTypes
    BY <2>3 DEF Init, ClientTypes
  <2>5. ServerTypes
    BY <2>2 DEF Init, ServerTypes
  <2> QED BY <2>1, <2>2, <2>3, <2>4, <2>5, TypesBack
<1>5. 1 .. Len(pool) = {} /\ 1 .. Len(inbox) = {}
  BY <1>3
<1>6. \A t \in Thread : CallOf(t)
  <2>1. \A t \in Thread : pc[t] = "idle" /\ call[t] = NoCall /\ ans[t] = "none" /\ bytes[t] = <<>>
    BY DEF Init
  <2>2. NoCall.op = "none"
    BY DEF NoCall
  <2> QED BY <1>5, <2>1, <2>2, Bounds DEF CallOf, In, Making
<1> QED BY <1>4, <1>5, <1>6 DEF TypeInv

(* Every step keeps the types. *)
LEMMA TypeStep == TypeInv /\ [Next]_vars => TypeInv'
<1> SUFFICES ASSUME TypeInv, [Next]_vars PROVE TypeInv'
  OBVIOUS
<1>1. ASSUME NEW t \in Thread, Host(t) \/ Returning(t) PROVE TypeInv'
  BY <1>1, CallTypes, ReturningTypes
<1>2. CASE Loop \/ Timeout
  <2>1. (Timeout \/ Refused) => Fail /\ faults' \in 0 .. MaxFaults
    BY Types, Bounds DEF Timeout, Refused
  <2> QED BY <1>2, <2>1, SendTypes, FailTypes, CallbackTypes DEF Loop
<1>3. CASE UNCHANGED vars
  <2>1. ClientTypes' /\ ServerTypes' /\ faults' \in 0 .. MaxFaults
    BY <1>3, Types DEF vars, ClientTypes, ServerTypes
  <2> QED BY <1>3, <2>1, QuietTypes DEF vars
<1> QED BY <1>1, <1>2, <1>3, ServerTypesKept DEF Next

(* Every variable keeps its type, whatever requests fail: the request of a *)
(* call and its answer, the events on both sides, and what is in the host  *)
(* buffers, the bytes of an event or junk.                                 *)
THEOREM TypeCorrect == Spec => []TypeOK
<1>1. TypeInv => TypeOK
  BY DEF TypeInv
<1> QED BY <1>1, TypeInit, TypeStep, PTL DEF Spec

-----------------------------------------------------------------------------
(* What a wait delivers.                                                   *)

(* The kind of an event that is made does not change, so neither do the    *)
(* segments of events that are.                                            *)
KindsStay == \A e \in Event : kind[e] # "new" => kind'[e] = kind[e]

LEMMA SegmentsAgree ==
  ASSUME NEW l \in Seq(Event), NEW A, NEW B,
         \A j \in 1 .. Len(l) : l[j] \in A <=> l[j] \in B
  PROVE  \A i \in 0 .. Len(l) : Segment(l, i, A) = Segment(l, i, B)
<1>1. \A i \in 0 .. Len(l) : {j \in 1 .. i : l[j] \in A} = {j \in 1 .. i : l[j] \in B}
  BY LenProperties
<1> QED BY <1>1 DEF Segment

(* A wait that goes on, or whose request fails, keeps what it has. *)
LEMMA WaitKept ==
  ASSUME TypeInv, NEW t \in Thread, WaitOf(t), KindsStay, call'[t] = call[t],
         ans'[t] = "ok" => ans[t] = "ok" /\ bytes'[t] = bytes[t]
  PROVE  WaitOf(t)'
<1> SUFFICES ASSUME call[t].op = "wait" PROVE WaitOf(t)'
  BY DEF WaitOf
<1> DEFINE l == call[t].list
<1>1. l \in Seq(Event) /\ Len(l) \in Nat /\ \A i \in 1 .. Len(l) : l[i] \in Event
  BY Types, LenProperties, ElementOfSeq
<1>2. \A i \in 1 .. Len(l) : kind[l[i]] \in Listable /\ kind'[l[i]] = kind[l[i]]
  BY <1>1, KindsAreKinds, Bounds DEF WaitOf, KindsStay
<1>3. \A i \in 1 .. Len(l) : l[i] \in HostBuffers' <=> l[i] \in HostBuffers
  BY <1>1, <1>2 DEF HostBuffers, HostBuffer
<1>4. PICK A : A = HostBuffers
  OBVIOUS
<1>5. PICK B : B = HostBuffers'
  OBVIOUS
<1>6. \A i \in 0 .. Len(l) : Segment(l, i, B) = Segment(l, i, A)
  BY <1>1, <1>3, <1>4, <1>5, SegmentsAgree
<1>7. \A i \in 1 .. Len(l) : i \in 0 .. Len(l)
  OBVIOUS
<1>8. Len(l) \in 0 .. Len(l)
  BY <1>1
<1>9. ans'[t] = "ok" =>
        /\ Len(bytes'[t]) = Segment(l, Len(l), B)
        /\ \A i \in 1 .. Len(l) : l[i] \in B => bytes'[t][Segment(l, i, B)] = l[i]
  BY <1>3, <1>4, <1>5, <1>6, <1>7, <1>8 DEF WaitOf
<1>10. \A i \in 1 .. Len(l) : kind'[l[i]] \in Listable
  BY <1>2
<1> HIDE DEF l
<1>11. call'[t].list = l
  BY DEF l
<1> QED BY <1>5, <1>9, <1>10, <1>11 DEF WaitOf

(* The server answers a wait when every command listed is complete, with   *)
(* the buffers of the events the host has a buffer for.                    *)
LEMMA WaitAnswered ==
  ASSUME "readB" \notin Listable, TypeInv, NEW t \in Thread, WaitOf(t), UNCHANGED <<call, kind>>,
         call[t].op = "wait",
         \A i \in 1 .. Len(call[t].list) : ~ Pending(call[t].list[i]),
         bytes'[t] = Packed(call[t].list)
  PROVE  WaitOf(t)'
<1> DEFINE l == call[t].list
<1>1. l \in Seq(Event) /\ Len(l) \in Nat /\ \A i \in 1 .. Len(l) : l[i] \in Event
  BY Types, LenProperties, ElementOfSeq
<1>2. \A i \in 1 .. Len(l) : kind[l[i]] \in Listable
  BY DEF WaitOf
<1>3. \A i \in 1 .. Len(l) : l[i] \in ServerBuffers <=> l[i] \in HostBuffers
  BY <1>1, <1>2 DEF ServerBuffers, HostBuffers, ServerBuffer, HostBuffer
<1>4. \A i \in 0 .. Len(l) : Segment(l, i, ServerBuffers) = Segment(l, i, HostBuffers)
  BY <1>1, <1>3, SegmentsAgree
<1>5. Len(l) \in 0 .. Len(l) /\ \A i \in 1 .. Len(l) : i \in 0 .. Len(l)
  BY <1>1
<1>6. /\ Len(Packed(l)) = Segment(l, Len(l), HostBuffers)
      /\ \A i \in 1 .. Len(l) : l[i] \in HostBuffers =>
           Packed(l)[Segment(l, i, HostBuffers)] = l[i]
  BY <1>1, <1>3, <1>4, <1>5, PackedFacts DEF Content
<1>7. HostBuffers' = HostBuffers
  BY DEF HostBuffers, HostBuffer
<1> QED BY <1>2, <1>6, <1>7 DEF WaitOf

(* A thread that asks for something else, or for nothing, waits for none.  *)
LEMMA CallWaits ==
  ASSUME TypeInv, WaitInv, NEW t \in Thread, Host(t) \/ Returning(t)
  PROVE  /\ KindsStay /\ WaitOf(t)'
         /\ \A u \in Thread : u # t =>
              call'[u] = call[u] /\ ans'[u] = ans[u] /\ bytes'[u] = bytes[u]
<1>0. /\ call \in [Thread -> Calls] /\ ans \in [Thread -> {"none", "ok", "error"}]
      /\ bytes \in [Thread -> Seq(Event \cup {Junk})] /\ kind \in [Event -> Making \cup {"new"}]
  BY Types DEF ClientTypes
<1>1. ASSUME NEW c, Request(t, c)
      PROVE  /\ call'[t] = c /\ ans'[t] = "none"
             /\ \A u \in Thread : u # t =>
                  call'[u] = call[u] /\ ans'[u] = ans[u] /\ bytes'[u] = bytes[u]
  <2>1. /\ pc[t] = "idle" /\ call' = [call EXCEPT ![t] = c] /\ ans' = ans /\ bytes' = bytes
    BY <1>1 DEF Request
  <2> QED BY <1>0, <2>1 DEF TypeInv, CallOf
<1>2. ASSUME NEW e \in Event, NEW k \in Making, NEW l, MakeEvent(t, e, k, l)
      PROVE  KindsStay /\ call'[t].op # "wait" /\ Request(t, [op |-> k, ev |-> e, list |-> l])
  <2>1. /\ kind[e] = "new" /\ kind' = [kind EXCEPT ![e] = k]
        /\ Request(t, [op |-> k, ev |-> e, list |-> l])
    BY <1>2 DEF MakeEvent
  <2>2. call'[t].op = k /\ k # "wait"
    BY <1>1, <2>1, Bounds DEF Making
  <2> QED BY <1>0, <2>1, <2>2 DEF KindsStay
<1>3. CASE ReadBuffer(t) \/ WriteBuffer(t) \/ MapBuffer(t) \/ CopyBuffer(t) \/ NDRangeKernel(t)
  <2>1. PICK e \in Event, k \in Kinds, l \in Lists(usable, 1) : Enqueue(t, e, k, l)
    BY <1>3, Zenon DEF ReadBuffer, WriteBuffer, MapBuffer, CopyBuffer, NDRangeKernel, Kinds
  <2>2. MakeEvent(t, e, k, l) /\ k \in Making
    BY <2>1 DEF Enqueue, Making
  <2> QED BY <1>1, <1>2, <2>2 DEF WaitOf
<1>4. CASE WaitForEvents(t)
  <2>1. PICK l \in Lists({e \in usable : kind[e] \in Listable}, MaxList) :
          Request(t, [op |-> "wait", ev |-> 0, list |-> l]) /\ UNCHANGED client
    BY <1>4 DEF WaitForEvents
  <2>2. \A i \in 1 .. Len(l) : kind[l[i]] \in Listable
    <3>1. PICK k \in 0 .. MaxList : l \in [1 .. k -> {e \in usable : kind[e] \in Listable}]
      BY <2>1, Zenon DEF Lists
    <3>2. k \in Nat /\ Len(l) = k
      BY <3>1, Bounds
    <3> QED BY <3>1, <3>2
  <2>3. call'[t].list = l /\ ans'[t] = "none" /\ kind' = kind
    BY <1>1, <2>1 DEF client
  <2> QED BY <1>1, <2>1, <2>2, <2>3 DEF WaitOf, KindsStay
<1>5. CASE ReleaseEvent(t) \/ RetainEvent(t)
  <2>1. PICK op \in {"release", "retain"}, e \in usable :
          Request(t, [op |-> op, ev |-> e, list |-> <<e>>]) /\ UNCHANGED kind
    BY <1>5 DEF ReleaseEvent, RetainEvent
  <2>2. call'[t].op # "wait"
    BY <1>1, <2>1
  <2> QED BY <1>1, <2>1, <2>2 DEF WaitOf, KindsStay
<1>6. CASE UnmapMemObject(t)
  <2>1. PICK e \in Event : MakeEvent(t, e, Unmap, <<>>)
    BY <1>6 DEF UnmapMemObject
  <2>2. Unmap \in Making
    BY DEF Making
  <2> QED BY <1>1, <1>2, <2>1, <2>2 DEF WaitOf
<1>7. CASE Sleep(t)
  <2>1. UNCHANGED <<call, ans, bytes, kind>>
    BY <1>7 DEF Sleep, client
  <2>2. KindsStay
    BY <2>1 DEF KindsStay
  <2> QED BY <2>1, <2>2, WaitKept DEF WaitInv
<1>8. CASE \/ ReturnEnqueue(t) \/ ReturnUnmap(t) \/ ReturnWait(t)
           \/ ReturnRelease(t) \/ ReturnRetain(t)
  <2>1. Return(t) /\ kind' = kind
    BY <1>8 DEF ReturnEnqueue, ReturnUnmap, ReturnWait, ReturnRelease, ReturnRetain, Misread,
       client
  <2>2. /\ call' = [call EXCEPT ![t] = NoCall] /\ ans' = [ans EXCEPT ![t] = "none"]
        /\ bytes' = [bytes EXCEPT ![t] = <<>>]
    BY <2>1 DEF Return
  <2>3. /\ call'[t].op = "none"
        /\ \A u \in Thread : u # t =>
             call'[u] = call[u] /\ ans'[u] = ans[u] /\ bytes'[u] = bytes[u]
    BY <1>0, <2>2 DEF NoCall
  <2> QED BY <2>1, <2>3 DEF WaitOf, KindsStay
<1> QED BY <1>3, <1>4, <1>5, <1>6, <1>7, <1>8 DEF Host, Returning

(* Every step keeps what the waits have. *)
LEMMA WaitStep ==
  ASSUME "readB" \notin Listable, TypeInv, WaitInv, [Next]_vars
  PROVE  WaitInv'
<1>0. \A t \in Thread : WaitOf(t)
  BY DEF WaitInv
<1>1. ASSUME NEW t \in Thread, Host(t) \/ Returning(t) PROVE WaitInv'
  <2>1. ASSUME NEW u \in Thread, u # t PROVE WaitOf(u)'
    BY <1>0, <1>1, <2>1, CallWaits, WaitKept
  <2> QED BY <1>1, <2>1, CallWaits DEF WaitInv
<1>2. ASSUME UNCHANGED <<call, kind>>,
             \A t \in Thread :
               ans'[t] = "ok" => ans[t] = "ok" /\ bytes'[t] = bytes[t]
      PROVE  WaitInv'
  BY <1>0, <1>2, WaitKept DEF WaitInv, KindsStay
<1>3. CASE Send \/ Callback \/ UNCHANGED vars
  <2>1. UNCHANGED <<call, kind, ans, bytes>>
    BY <1>3 DEF Send, Callback, vars, client
  <2> QED BY <1>2, <2>1
<1>4. CASE Fail
  <2>1. /\ pool # <<>> /\ ans' = [ans EXCEPT ![Head(pool)] = "error"]
        /\ UNCHANGED <<call, kind, bytes>>
    BY <1>4 DEF Fail, client
  <2>2. \A t \in Thread : ans'[t] = ans[t] \/ ans'[t] = "error"
    BY <2>1, Types
  <2> QED BY <1>2, <2>1, <2>2
<1>5. CASE Crash
  BY <1>2, <1>5 DEF Crash, client
<1>6. CASE Complete
  <2>1. Crash \/ UNCHANGED <<call, kind, ans, bytes>>
    BY <1>6 DEF Complete, client
  <2> QED BY <1>2, <1>5, <2>1
<1>7. ASSUME NEW s \in {"ok", "error"}, NEW b, Reply(s, b), UNCHANGED <<call, kind>>,
             inbox # <<>>, Head(inbox).op # "wait"
      PROVE  WaitInv'
  <2>1. SUFFICES ASSUME NEW t \in Thread PROVE WaitOf(t)'
    BY DEF WaitInv
  <2>2. CASE Head(inbox).to = Nobody \/ Head(inbox).to # t
    <3>1. ans'[t] = ans[t] /\ bytes'[t] = bytes[t]
      BY <1>7, <2>2, Types DEF Reply
    <3>2. KindsStay
      BY <1>7 DEF KindsStay
    <3> QED BY <1>0, <1>7, <3>1, <3>2, WaitKept
  <2>3. CASE Head(inbox).to # Nobody /\ Head(inbox).to = t
    <3>1. call[t].op = Head(inbox).op
      BY <1>7, <2>3, Heads DEF RequestOf, Asked
    <3> QED BY <1>7, <3>1 DEF WaitOf
  <2> QED BY <2>2, <2>3
<1>8. CASE ServeRead \/ ServeWrite \/ ServeMap \/ ServeExec
  <2>1. PICK kinds \in {ReadKinds, WriteKinds, MapKinds, {"exec"}} : Enter(kinds)
    BY <1>8 DEF ServeRead, ServeWrite, ServeMap, ServeExec
  <2>2. /\ inbox # <<>> /\ Head(inbox).op \in kinds
        /\ \/ Crash
           \/ UNCHANGED <<call, kind, ans, bytes>>
           \/ Reply("ok", <<>>) /\ UNCHANGED <<call, kind>>
    BY <2>1 DEF Enter, Serving, client
  <2>3. Head(inbox).op # "wait"
    BY <2>2 DEF ReadKinds, WriteKinds, MapKinds
  <2> QED BY <1>2, <1>5, <1>7, <2>2, <2>3
<1>9. CASE LeaveEnqueue
  <2>1. /\ inbox # <<>> /\ Head(inbox).op \in Kinds /\ UNCHANGED <<call, kind>>
        /\ \E b : Reply("ok", b)
    BY <1>9 DEF LeaveEnqueue, Serving, client
  <2> QED BY <1>7, <2>1, Bounds
<1>10. CASE ServeRelease \/ ServeRetain \/ ServeUnknown
  <2>1. /\ inbox # <<>> /\ Head(inbox).op \in {"release", "retain", Unmap}
        /\ \/ Crash
           \/ \E s \in {"ok", "error"} : \E b : Reply(s, b) /\ UNCHANGED <<call, kind>>
    BY <1>10 DEF ServeRelease, ServeRetain, ServeUnknown, Serving, client
  <2>2. Head(inbox).op # "wait"
    BY <2>1, Bounds
  <2> QED BY <1>5, <1>7, <2>1, <2>2
<1>11. CASE ServeWait
  <2> DEFINE l == Head(inbox).list
  <2>1. /\ inbox # <<>> /\ Head(inbox).op = "wait"
        /\ \/ Crash
           \/ /\ Reply("ok", Packed(l)) /\ \A i \in 1 .. Len(l) : ~ Pending(l[i])
              /\ UNCHANGED <<call, kind>>
    BY <1>11 DEF ServeWait, Serving, client
  <2>2. CASE /\ Reply("ok", Packed(l)) /\ \A i \in 1 .. Len(l) : ~ Pending(l[i])
             /\ UNCHANGED <<call, kind>>
    <3>1. SUFFICES ASSUME NEW t \in Thread PROVE WaitOf(t)'
      BY DEF WaitInv
    <3>2. CASE Head(inbox).to = Nobody \/ Head(inbox).to # t
      <4>1. ans'[t] = ans[t] /\ bytes'[t] = bytes[t]
        BY <2>2, <3>2, Types DEF Reply
      <4>2. KindsStay
        BY <2>2 DEF KindsStay
      <4> QED BY <1>0, <2>2, <4>1, <4>2, WaitKept
    <3>3. CASE Head(inbox).to # Nobody /\ Head(inbox).to = t
      <4>1. call[t].op = "wait" /\ call[t].list = l
        BY <2>1, <3>3, Heads DEF RequestOf, Asked
      <4>2. bytes'[t] = Packed(call[t].list)
        BY <2>2, <3>3, <4>1, Types DEF Reply
      <4> QED BY <1>0, <2>2, <4>1, <4>2, WaitAnswered
    <3> QED BY <3>2, <3>3
  <2> QED BY <1>5, <2>1, <2>2
<1> QED
  BY <1>1, <1>3, <1>4, <1>6, <1>8, <1>9, <1>10, <1>11
     DEF Next, Loop, Timeout, Refused, Server

(* A clWaitForEvents that the server answered leaves the bytes of each     *)
(* listed non-blocking read or map in its buffer, whatever the order of    *)
(* the list and whatever happened to other requests, as long as no event   *)
(* of a blocking read is listed: for that one the server has a segment and *)
(* the host has none (clrpcd.c 785, libclrpc.c 1200-1206).                 *)
THEOREM WaitDeliversTheBytes ==
  ASSUME "readB" \notin Listable
  PROVE  Spec => WaitDelivers
<1> DEFINE Delivered ==
             \A t \in Thread :
               pc[t] = "woken" /\ pc'[t] = "idle" /\ call[t].op = "wait" /\ ans[t] = "ok" =>
                 \A e \in Event : In(e, call[t].list) /\ HostBuffer(e) => dst'[e] = e
<1>1. Init => WaitInv
  BY DEF Init, WaitInv, WaitOf, NoCall
<1>2. TypeInv /\ WaitInv /\ [Next]_vars => WaitInv'
  BY WaitStep
<1>3. TypeInv /\ WaitInv /\ [Next]_vars => [Delivered]_vars
  <2> SUFFICES ASSUME TypeInv, WaitInv, Next, NEW t \in Thread,
                      pc[t] = "woken", pc'[t] = "idle", call[t].op = "wait", ans[t] = "ok",
                      NEW e \in Event, In(e, call[t].list), HostBuffer(e)
               PROVE  dst'[e] = e
    OBVIOUS
  <2> DEFINE l == call[t].list
             i == Place(e, l)
             B == HostBuffers
  <2>1. ReturnWait(t)
    <3>1. ASSUME NEW u \in Thread, Host(u) \/ Sleep(u)
          PROVE  pc[u] \in {"idle", "made"} /\ \E s : pc' = [pc EXCEPT ![u] = s]
      BY <3>1 DEF Host, ReadBuffer, WriteBuffer, MapBuffer, CopyBuffer, NDRangeKernel, Enqueue,
         MakeEvent, WaitForEvents, ReleaseEvent, RetainEvent, UnmapMemObject, Request, Sleep
    <3>2. ASSUME NEW u \in Thread, Returning(u) PROVE \E s : pc' = [pc EXCEPT ![u] = s]
      BY <3>2 DEF Returning, Sleep, ReturnEnqueue, ReturnUnmap, ReturnWait, ReturnRelease,
         ReturnRetain, Return
    <3>3. Callback => pc'[t] = pc[t] \/ pc'[t] = "woken"
      BY Heads, Types DEF Callback
    <3>4. Loop \/ Timeout \/ Server \/ Complete => pc' = pc \/ Callback
      BY DEF Loop, Timeout, Refused, Fail, Send, Server, ServeRead, ServeWrite, ServeMap,
         ServeExec, Enter, LeaveEnqueue, ServeWait, ServeRelease, ServeRetain, ServeUnknown,
         Complete, Crash
    <3>5. Returning(t) /\ ~ Sleep(t)
      BY <3>1, <3>2, <3>3, <3>4, Types DEF Next
    <3>6. call[t].op \notin Kinds \cup {"none", "release", "retain", Unmap}
      BY Bounds
    <3> QED BY <3>5, <3>6 DEF Returning, ReturnEnqueue, ReturnRelease, ReturnRetain, ReturnUnmap
  <2>2. dst' = Copied(l, bytes[t])
    BY <2>1 DEF ReturnWait
  <2>3. i \in 1 .. Len(l) /\ l[i] = e /\ l[i] \in B
    BY DEF In, Place, HostBuffers
  <2>4. l \in Seq(Event) /\ Len(l) \in Nat
    BY Types, LenProperties
  <2>5. /\ Len(bytes[t]) = Segment(l, Len(l), B)
        /\ bytes[t][Segment(l, i, B)] = e
    BY <2>3 DEF WaitInv, WaitOf
  <2>6. /\ Segment(l, i, B) \in Nat /\ 0 < Segment(l, i, B)
        /\ Segment(l, i, B) <= Segment(l, Len(l), B)
    <3>1. i \in Nat /\ 0 < i /\ i <= Len(l) /\ 0 \in Nat
      BY <2>3, <2>4
    <3>2. l[i] \in B
      BY <2>3
    <3> HIDE DEF B, l, i
    <3>3. /\ Segment(l, 0, B) = 0 /\ Segment(l, i, B) \in Nat
          /\ Segment(l, 0, B) < Segment(l, i, B)
      BY <3>1, <3>2, SegmentFacts, Zenon
    <3>4. Segment(l, i, B) <= Segment(l, Len(l), B)
      BY <2>4, <3>1, SegmentFacts, Zenon
    <3> QED BY <3>3, <3>4
  <2>7. bytes[t] # <<>>
    BY <2>5, <2>6
  <2>8. dst'[e] = LET k == Segment(l, i, B) IN IF k <= Len(bytes[t]) THEN bytes[t][k] ELSE Junk
    BY <2>2, <2>7 DEF Copied, HostBuffers
  <2> QED BY <2>5, <2>6, <2>8
<1>4. WaitDelivers <=> [][Delivered]_vars
  BY DEF WaitDelivers
<1> HIDE DEF Delivered
<1> QED BY <1>1, <1>2, <1>3, <1>4, TypeInit, TypeStep, PTL DEF Spec

-----------------------------------------------------------------------------
(* What the server touches.  While it is up, and the host waits for an     *)
(* event before it releases it: what an event is on both sides, what a     *)
(* call may count on until it returns, and what the server may count on in *)
(* each request it has.  All but what an event is before its call returns  *)
(* is of events the host was not led astray about.                         *)
EventSound(e) ==
  /\ kind[e] = "new" => remote[e] = "unset"
  /\ e \in usable \cup known => remote[e] # "unset"
  /\ ~ Astray(e) =>
       /\ e \in usable => xev[e] = "live"
       /\ e \in known \/ xev[e] = "freed" => ~ Pending(e)

EnqueueSound(t) ==
  LET e == call[t].ev IN
  /\ call[t].op \in Making =>
       /\ remote[e] = "unset"
       /\ \A u \in Thread \ {t} : call[u].op \in Making => call[u].ev # e
  /\ call[t].op \in Kinds /\ ans[t] = "ok" =>
       xev[e] = "live" /\ (call[t].op \in Blocking => ~ Pending(e))

ListSound(t) ==
  \A e \in Event : In(e, call[t].list) =>
    /\ remote[e] # "unset"
    /\ ~ Astray(e) =>
         /\ ans[t] = "none" => xev[e] = "live"
         /\ call[t].op = "wait" /\ ans[t] = "ok" => ~ Pending(e)

ReleaseSound(t) ==
  LET e == call[t].ev IN
  /\ call[t].op \in {"release", "retain"} => call[t].list = <<e>>
  /\ call[t].op = "release" =>
       e \in known /\ e \notin usable /\ \A u \in Thread \ {t} : ~ In(e, call[u].list)
  /\ call[t].op = "retain" => e \in retained

(* The requests: the event of an enqueue is not on the server yet, unless  *)
(* the enqueue failed; the events listed are; and nobody that comes later  *)
(* lists an event that is released.                                        *)
MadeOnce(i) ==
  LET e == inbox[i].ev IN
  inbox[i].op \in Kinds =>
    /\ kind[e] # "new" /\ remote[e] # "set"
    /\ \A t \in Thread :
         call[t].op \in Kinds /\ call[t].ev = e => ans[t] = "error" \/ inbox[i].to = t
    /\ \A j \in 1 .. Len(inbox) : inbox[j].op \in Kinds /\ inbox[j].ev = e => j = i

ListedLive(i) ==
  \A e \in Event :
    In(e, inbox[i].list) /\ ~ Astray(e) => remote[e] = "set" /\ xev[e] = "live"

FreedLast(i) ==
  LET e == inbox[i].ev IN
  /\ inbox[i].op \in {"release", "retain"} => inbox[i].list = <<e>>
  /\ inbox[i].op = "release" =>
       /\ e \in known /\ e \notin usable
       /\ \A j \in 1 .. Len(inbox) : In(e, inbox[j].list) => j <= i
       /\ \A t \in Thread : In(e, call[t].list) => ans[t] # "none" \/ inbox[i].to = t
  /\ inbox[i].op = "retain" => e \in retained

Entered ==
  entered => inbox # <<>> /\ inbox[1].op \in Blocking /\ xev[inbox[1].ev] = "live"

ServerInv ==
  /\ \A e \in Event : EventSound(e)
  /\ \A t \in Thread : EnqueueSound(t) /\ ListSound(t) /\ ReleaseSound(t)
  /\ \A i \in 1 .. Len(inbox) : MadeOnce(i) /\ ListedLive(i) /\ FreedLast(i)
  /\ Entered

SoundInv == up /\ ~ EarlyRelease => ServerInv

(* Nothing is in the empty list, and one thing in that of one. *)
LEMMA NoneListed ==
  /\ \A e : ~ In(e, <<>>)
  /\ \A e, d : In(e, <<d>>) <=> e = d
  /\ NoCall.op = "none" /\ NoCall.list = <<>>
<1>1. Len(<<>>) = 0 /\ 1 .. 0 = {}
  OBVIOUS
<1>2. \A d : Len(<<d>>) = 1 /\ <<d>>[1] = d /\ 1 .. 1 = {1}
  OBVIOUS
<1>3. \A e, d : In(e, <<d>>) <=> e = d
  BY <1>2 DEF In
<1> QED BY <1>1, <1>3 DEF In, NoCall

(* The events that calls and requests are of. *)
LEMMA Named ==
  ASSUME TypeInv
  PROVE  /\ \A t \in Thread : /\ call[t].op \in Making \cup {"release", "retain"} => call[t].ev \in Event
                              /\ call[t].op \in Making => kind[call[t].ev] = call[t].op /\ kind[call[t].ev] # "new"
         /\ \A i \in 1 .. Len(inbox) : inbox[i].op \in Kinds \cup {"release", "retain"} => inbox[i].ev \in Event
         /\ \A i \in 1 .. Len(inbox), t \in Thread :
              inbox[i].to = t => /\ ans[t] = "none" /\ sent /\ pc[t] # "idle"
                                 /\ inbox[i].op = call[t].op /\ inbox[i].ev = call[t].ev
                                 /\ inbox[i].list = call[t].list
                                 /\ \A j \in 1 .. Len(inbox) : inbox[j].to = t => i = j
         /\ \A k \in Kinds : k \in Making
<1>1. \A t \in Thread : CallOf(t)
  BY DEF TypeInv
<1>2. \A i \in 1 .. Len(inbox) : RequestOf(i)
  BY DEF TypeInv
<1>3. \A t \in Thread : t # Nobody
  BY Bounds
<1>4. \A t \in Thread : In(t, pool) => pc[t] # "idle"
  BY <1>1 DEF CallOf
<1>5. \A i \in 1 .. Len(inbox), t \in Thread :
              inbox[i].to = t => /\ ans[t] = "none" /\ sent /\ pc[t] # "idle"
                                 /\ inbox[i].op = call[t].op /\ inbox[i].ev = call[t].ev
                                 /\ inbox[i].list = call[t].list
                                 /\ \A j \in 1 .. Len(inbox) : inbox[j].to = t => i = j
  BY <1>2, <1>3, <1>4, Heads DEF RequestOf, Asked
<1> QED BY <1>1, <1>2, <1>5, Bounds DEF CallOf, RequestOf, Making

(* A step that changes neither calls nor events, except that requests fail *)
(* and commands complete.                                                  *)
LEMMA QuietSound ==
  ASSUME TypeInv, ServerInv, UNCHANGED <<call, client, xev, entered>>,
         \A e \in Event : Pending(e)' => Pending(e),
         \A t \in Thread : ans'[t] = ans[t] \/ ans'[t] = "error",
         Len(inbox') = Len(inbox), inbox = <<>> <=> inbox' = <<>>,
         \A i \in 1 .. Len(inbox) :
           /\ inbox'[i].op = inbox[i].op /\ inbox'[i].ev = inbox[i].ev
           /\ inbox'[i].list = inbox[i].list
           /\ \A t \in Thread : inbox[i].to = t => inbox'[i].to = t \/ ans'[t] = "error"
  PROVE  ServerInv'
<1>0. /\ UNCHANGED <<kind, remote, dst, usable, known, retained, misled>>
      /\ \A e \in Event : Astray(e)' <=> Astray(e)
  BY DEF client, Astray
<1>1. \A e \in Event : EventSound(e)'
  BY <1>0 DEF ServerInv, EventSound
<1>2. ASSUME NEW t \in Thread PROVE EnqueueSound(t)' /\ ListSound(t)' /\ ReleaseSound(t)'
  <2>0. EnqueueSound(t) /\ ListSound(t) /\ ReleaseSound(t) /\ (ans'[t] # "error" => ans'[t] = ans[t])
    BY DEF ServerInv
  <2>1. EnqueueSound(t)'
    BY <1>0, <2>0, Named DEF EnqueueSound
  <2>2. ListSound(t)'
    BY <1>0, <2>0 DEF ListSound, In
  <2>3. ReleaseSound(t)'
    BY <1>0, <2>0 DEF ReleaseSound, In
  <2> QED BY <2>1, <2>2, <2>3
<1>3. ASSUME NEW i \in 1 .. Len(inbox) PROVE MadeOnce(i)' /\ ListedLive(i)' /\ FreedLast(i)'
  <2>0. MadeOnce(i) /\ ListedLive(i) /\ FreedLast(i)
    BY DEF ServerInv
  <2>1. MadeOnce(i)'
    BY <1>0, <2>0, Named DEF MadeOnce
  <2>2. ListedLive(i)'
    BY <1>0, <2>0 DEF ListedLive, In
  <2>3. FreedLast(i)'
    BY <1>0, <2>0 DEF FreedLast, In
  <2> QED BY <2>1, <2>2, <2>3
<1>4. Entered'
  <2>1. inbox # <<>> => 1 \in 1 .. Len(inbox)
    BY Heads
  <2> QED BY <2>1 DEF ServerInv, Entered
<1> QED BY <1>1, <1>2, <1>3, <1>4 DEF ServerInv

(* A thread asks for something: what it lists it may use, an event it      *)
(* makes is new, and what it counts on holds.                              *)
LEMMA RequestSound ==
  ASSUME TypeInv, ServerInv, NEW t \in Thread, NEW c, Request(t, c),
         UNCHANGED <<remote, known, misled>>, usable' \subseteq usable, retained \subseteq retained',
         \A e \in Event : kind'[e] = kind[e] \/ (kind[e] = "new" /\ kind'[e] # "new"),
         \A e \in Event : In(e, c.list) => e \in usable,
         c.op \in Making => c.ev \in Event /\ kind[c.ev] = "new",
         EnqueueSound(t)', ListSound(t)', ReleaseSound(t)'
  PROVE  ServerInv'
<1>0. /\ call' = [call EXCEPT ![t] = c] /\ UNCHANGED <<ans, inbox, entered, up, xev, queue>>
      /\ call \in [Thread -> Calls]
  BY Types DEF Request, server
<1>1. call'[t] = c /\ \A u \in Thread : u # t => call'[u] = call[u]
  BY <1>0
<1>2. /\ \A e \in Event : Pending(e)' <=> Pending(e)
      /\ \A e \in Event : Astray(e) => Astray(e)'
  BY <1>0 DEF Pending, Astray
<1>3. \A e \in Event : EventSound(e)'
  BY <1>0, <1>2 DEF ServerInv, EventSound
<1>4. ASSUME NEW u \in Thread, u # t PROVE EnqueueSound(u)' /\ ListSound(u)' /\ ReleaseSound(u)'
  <2>1. EnqueueSound(u) /\ ListSound(u) /\ ReleaseSound(u) /\ call'[u] = call[u] /\ ans'[u] = ans[u]
    BY <1>0, <1>1, <1>4 DEF ServerInv
  <2>2. EnqueueSound(u)'
    <3>1. call[u].op \in Making /\ c.op \in Making => c.ev # call[u].ev
      BY Named
    <3> QED BY <1>0, <1>1, <1>2, <1>4, <2>1, <3>1, Named DEF EnqueueSound
  <2>3. ListSound(u)'
    BY <1>0, <1>2, <2>1 DEF ListSound, In
  <2>4. ReleaseSound(u)'
    <3>1. call[u].op = "release" => ~ In(call[u].ev, c.list)
      BY <2>1, Named DEF ReleaseSound
    <3> QED BY <1>1, <2>1, <3>1 DEF ReleaseSound, In
  <2> QED BY <2>2, <2>3, <2>4
<1>5. ASSUME NEW i \in 1 .. Len(inbox) PROVE MadeOnce(i)' /\ ListedLive(i)' /\ FreedLast(i)'
  <2>0. MadeOnce(i) /\ ListedLive(i) /\ FreedLast(i)
    BY DEF ServerInv
  <2>1. MadeOnce(i)'
    <3>1. inbox[i].op \in Kinds =>
            /\ inbox[i].ev \in Event /\ kind[inbox[i].ev] # "new" /\ kind'[inbox[i].ev] # "new"
            /\ c.op \in Kinds => c.ev # inbox[i].ev
      BY <2>0, Named DEF MadeOnce
    <3> QED BY <1>0, <1>1, <2>0, <3>1 DEF MadeOnce
  <2>2. ListedLive(i)'
    BY <1>0, <1>2, <2>0 DEF ListedLive, In
  <2>3. FreedLast(i)'
    <3>1. inbox[i].op = "release" => ~ In(inbox[i].ev, c.list)
      BY <2>0, Named DEF FreedLast
    <3> QED BY <1>0, <1>1, <2>0, <3>1 DEF FreedLast, In
  <2> QED BY <2>1, <2>2, <2>3
<1>6. Entered'
  BY <1>0 DEF ServerInv, Entered
<1> QED BY <1>0, <1>3, <1>4, <1>5, <1>6 DEF ServerInv

(* A thread asks the server for something.                                 *)
LEMMA HostSound ==
  ASSUME TypeInv, ServerInv, ~ EarlyRelease, NEW t \in Thread, Host(t)
  PROVE  ServerInv'
<1>0. /\ ClientTypes /\ call \in [Thread -> Calls] /\ \A e \in Event : EventSound(e)
      /\ \A S, n, l : n \in Nat /\ l \in Lists(S, n) => \A e : In(e, l) => e \in S
  <2>1. ASSUME NEW S, NEW n \in Nat, NEW l \in Lists(S, n), NEW e, In(e, l) PROVE e \in S
    <3>1. PICK k \in 0 .. n : l \in [1 .. k -> S]
      BY <2>1 DEF Lists
    <3>2. Len(l) = k
      BY <3>1
    <3> QED BY <2>1, <3>1, <3>2 DEF In
  <2> QED BY <2>1, Types DEF ServerInv
<1>1. ASSUME NEW c, Request(t, c)
      PROVE  /\ call'[t] = c /\ ans'[t] = "none" /\ pc[t] = "idle"
             /\ \A u \in Thread : u # t => call'[u] = call[u]
             /\ UNCHANGED <<xev, queue>>
  <2>1. /\ pc[t] = "idle" /\ call' = [call EXCEPT ![t] = c] /\ ans' = ans
        /\ UNCHANGED <<xev, queue>>
    BY <1>1 DEF Request, server
  <2> QED BY <1>0, <2>1 DEF TypeInv, CallOf
<1>2. ASSUME NEW e \in Event, NEW k \in Making, NEW l, MakeEvent(t, e, k, l),
             \A d \in Event : In(d, l) => d \in usable
      PROVE  ServerInv'
  <2> DEFINE c == [op |-> k, ev |-> e, list |-> l]
  <2>1. /\ Request(t, c) /\ kind[e] = "new" /\ kind' = [kind EXCEPT ![e] = k]
        /\ UNCHANGED <<remote, usable, known, retained, misled>>
    BY <1>2 DEF MakeEvent
  <2>2. c.op = k /\ c.ev = e /\ c.list = l
    OBVIOUS
  <2> HIDE DEF c
  <2>3. \A d \in Event : kind'[d] = kind[d] \/ (kind[d] = "new" /\ kind'[d] # "new")
    BY <1>0, <2>1, Bounds DEF ClientTypes, Making
  <2>4. k \notin {"wait", "release", "retain"}
    BY Bounds DEF Making
  <2>5. EnqueueSound(t)'
    <3>1. remote[e] = "unset"
      BY <1>0, <2>1 DEF EventSound
    <3>2. \A u \in Thread : call[u].op \in Making => call[u].ev # e
      BY <2>1, Named
    <3> QED BY <1>1, <2>1, <2>2, <3>1, <3>2 DEF EnqueueSound
  <2>6. ListSound(t)'
    <3>1. \A d \in Event : Astray(d)' <=> Astray(d)
      BY <2>1 DEF Astray
    <3> QED BY <1>0, <1>1, <1>2, <2>1, <2>2, <2>4, <3>1 DEF ListSound, EventSound
  <2>7. ReleaseSound(t)'
    BY <1>1, <2>1, <2>2, <2>4 DEF ReleaseSound
  <2> QED BY <1>2, <2>1, <2>2, <2>3, <2>5, <2>6, <2>7, RequestSound
<1>3. CASE ReadBuffer(t) \/ WriteBuffer(t) \/ MapBuffer(t) \/ CopyBuffer(t) \/ NDRangeKernel(t)
  <2>1. PICK e \in Event, k \in Kinds, l \in Lists(usable, 1) : Enqueue(t, e, k, l)
    BY <1>3, Zenon DEF ReadBuffer, WriteBuffer, MapBuffer, CopyBuffer, NDRangeKernel, Kinds
  <2>2. MakeEvent(t, e, k, l) /\ k \in Making /\ \A d : In(d, l) => d \in usable
    BY <1>0, <2>1 DEF Enqueue, Making
  <2> QED BY <1>2, <2>2
<1>4. CASE UnmapMemObject(t)
  <2>1. PICK e \in Event : MakeEvent(t, e, Unmap, <<>>)
    BY <1>4 DEF UnmapMemObject
  <2>2. Unmap \in Making
    BY DEF Making
  <2> QED BY <1>2, <2>1, <2>2, NoneListed
<1>5. CASE WaitForEvents(t)
  <2>1. PICK l \in Lists({e \in usable : kind[e] \in Listable}, MaxList) :
          Request(t, [op |-> "wait", ev |-> 0, list |-> l]) /\ UNCHANGED client
    BY <1>5 DEF WaitForEvents
  <2> DEFINE c == [op |-> "wait", ev |-> 0, list |-> l]
  <2>2. c.op = "wait" /\ c.list = l /\ c.op \notin Making /\ c.op \notin Kinds
    BY Bounds DEF Making
  <2>3. Request(t, c) /\ UNCHANGED <<kind, remote, usable, known, retained, misled>>
    BY <2>1 DEF client
  <2> HIDE DEF c
  <2>4. \A d \in Event : In(d, l) => d \in usable
    <3>1. \A d : In(d, l) => d \in {e \in usable : kind[e] \in Listable}
      BY <1>0, <2>1, Bounds
    <3> QED BY <3>1
  <2>5. EnqueueSound(t)' /\ ReleaseSound(t)'
    BY <1>1, <2>2, <2>3 DEF EnqueueSound, ReleaseSound
  <2>6. ListSound(t)'
    <3>1. \A d \in Event : Astray(d)' <=> Astray(d)
      BY <2>3 DEF Astray
    <3> QED BY <1>0, <1>1, <2>2, <2>3, <2>4, <3>1 DEF ListSound, EventSound
  <2> QED BY <2>2, <2>3, <2>4, <2>5, <2>6, RequestSound
<1>6. ASSUME NEW op \in {"release", "retain"}, NEW e \in usable,
             Request(t, [op |-> op, ev |-> e, list |-> <<e>>]),
             UNCHANGED <<kind, remote, known, misled>>, retained \subseteq retained',
             usable' \subseteq usable, ReleaseSound(t)'
      PROVE  ServerInv'
  <2> DEFINE c == [op |-> op, ev |-> e, list |-> <<e>>]
  <2>1. /\ c.op = op /\ c.list = <<e>> /\ op \notin Making /\ op \notin Kinds
        /\ \A d : In(d, c.list) => d = e
    BY NoneListed, Bounds DEF Making
  <2>2. Request(t, c)
    BY <1>6
  <2> HIDE DEF c
  <2>3. e \in Event /\ remote[e] # "unset" /\ (~ Astray(e) => xev[e] = "live")
    BY <1>0, <1>6 DEF ClientTypes, EventSound
  <2>4. EnqueueSound(t)'
    BY <1>1, <2>1, <2>2 DEF EnqueueSound
  <2>5. ListSound(t)'
    <3>1. Astray(e) => Astray(e)'
      BY <1>6 DEF Astray
    <3> QED BY <1>1, <1>6, <2>1, <2>2, <2>3, <3>1 DEF ListSound
  <2> QED BY <1>6, <2>1, <2>2, <2>4, <2>5, RequestSound
<1>7. CASE ReleaseEvent(t)
  <2>1. PICK e \in usable :
          /\ e \in known
          /\ \A u \in Thread : pc[u] # "idle" => ~ In(e, call[u].list)
          /\ usable' = usable \ {e}
          /\ Request(t, [op |-> "release", ev |-> e, list |-> <<e>>])
          /\ UNCHANGED <<kind, remote, known, retained, misled>>
    BY <1>7 DEF ReleaseEvent
  <2>2. \A u \in Thread : ~ In(e, call[u].list)
    BY <2>1, NoneListed DEF TypeInv, CallOf
  <2>3. call'[t] = [op |-> "release", ev |-> e, list |-> <<e>>]
        /\ \A u \in Thread : u # t => call'[u] = call[u]
    BY <1>1, <2>1
  <2>4. ReleaseSound(t)'
    BY <2>1, <2>2, <2>3 DEF ReleaseSound
  <2> QED BY <1>6, <2>1, <2>4
<1>8. CASE RetainEvent(t)
  <2>1. PICK e \in usable :
          /\ retained' = retained \cup {e}
          /\ Request(t, [op |-> "retain", ev |-> e, list |-> <<e>>])
          /\ UNCHANGED <<kind, remote, usable, known, misled>>
    BY <1>8 DEF RetainEvent
  <2>2. call'[t] = [op |-> "retain", ev |-> e, list |-> <<e>>]
    BY <1>1, <2>1
  <2>3. ReleaseSound(t)'
    BY <2>1, <2>2 DEF ReleaseSound
  <2> QED BY <1>6, <2>1, <2>3
<1> QED BY <1>3, <1>4, <1>5, <1>7, <1>8 DEF Host

(* A call returns: an enqueue, or the call of an unmap, points its event   *)
(* to something, and a wait tells the host that events are complete.       *)
LEMMA ReturnSound ==
  ASSUME TypeInv, ServerInv, NEW t \in Thread, pc[t] = "woken", Return(t),
         UNCHANGED <<server, kind, retained>>, misled \subseteq misled',
         NEW S \in SUBSET Event, \A e \in S : remote[e] = "unset" /\ kind[e] # "new",
         \A e \in Event : e \notin S => remote'[e] = remote[e],
         \A e \in S : \/ remote'[e] = "junk"
                      \/ /\ remote'[e] = "set" /\ call[t].op \in Kinds /\ call[t].ev = e
                         /\ ans[t] = "ok" /\ (e \in known' => call[t].op \in Blocking),
         \A e \in S, u \in Thread : u # t /\ call[u].op \in Making => call[u].ev # e,
         known \subseteq known', usable' \subseteq usable \cup S,
         \A e \in Event : e \in known' /\ e \notin known =>
            e \in S \/ (remote[e] # "unset" /\ (Astray(e)' \/ ~ Pending(e)))
  PROVE  ServerInv'
<1>0. /\ ClientTypes /\ call \in [Thread -> Calls] /\ ans \in [Thread -> {"none", "ok", "error"}]
      /\ \A e \in Event : EventSound(e)
      /\ \A u \in Thread : EnqueueSound(u) /\ ListSound(u) /\ ReleaseSound(u)
      /\ \A i \in 1 .. Len(inbox) : MadeOnce(i) /\ ListedLive(i) /\ FreedLast(i)
  BY Types DEF ServerInv
<1>1. /\ UNCHANGED <<inbox, entered, xev, queue>>
      /\ call' = [call EXCEPT ![t] = NoCall] /\ ans' = [ans EXCEPT ![t] = "none"]
  BY DEF Return, server
<1>2. /\ call'[t] = NoCall
      /\ \A u \in Thread : u # t => call'[u] = call[u] /\ ans'[u] = ans[u]
  BY <1>0, <1>1
<1>3. /\ \A e \in Event : Pending(e)' <=> Pending(e)
      /\ \A e \in Event : Astray(e) => Astray(e)'
      /\ \A e \in Event : e \in S /\ remote'[e] = "junk" => Astray(e)'
      /\ \A e \in S : remote'[e] # "unset" /\ e \notin known /\ e \notin usable
  <2>1. \A e \in S : e \notin known /\ e \notin usable
    BY <1>0 DEF EventSound
  <2> QED BY <1>1, <2>1 DEF Pending, Astray
<1>4. ASSUME NEW e \in Event PROVE EventSound(e)'
  <2>1. EventSound(e)
    BY <1>0
  <2>2. CASE e \notin S
    BY <1>1, <1>3, <2>1, <2>2 DEF EventSound
  <2>3. CASE e \in S
    <3>1. CASE remote'[e] = "junk"
      BY <1>3, <2>3, <3>1 DEF EventSound
    <3>2. CASE remote'[e] = "set"
      <4>1. /\ xev[e] = "live" /\ (call[t].op \in Blocking => ~ Pending(e))
        BY <1>0, <2>3, <3>2 DEF EnqueueSound
      <4> QED BY <1>1, <1>3, <2>3, <3>2, <4>1 DEF EventSound
    <3> QED BY <2>3, <3>1, <3>2
  <2> QED BY <2>2, <2>3
<1>5. ASSUME NEW u \in Thread PROVE EnqueueSound(u)' /\ ListSound(u)' /\ ReleaseSound(u)'
  <2>1. CASE u = t
    BY <1>2, <2>1, NoneListed, Bounds DEF EnqueueSound, ListSound, ReleaseSound, Making
  <2>2. CASE u # t
    <3>0. /\ EnqueueSound(u) /\ ListSound(u) /\ ReleaseSound(u)
          /\ call'[u] = call[u] /\ ans'[u] = ans[u]
      BY <1>0, <1>2, <2>2
    <3>1. EnqueueSound(u)'
      <4>1. /\ call[u].op \in Making => call[u].ev \in Event /\ call[u].ev \notin S
            /\ call'[t].op \notin Making
        BY <1>2, <2>2, Named, NoneListed, Bounds DEF Making
      <4> QED BY <1>1, <1>2, <1>3, <3>0, <4>1, Named DEF EnqueueSound
    <3>2. ListSound(u)'
      BY <1>1, <1>3, <3>0 DEF ListSound, In
    <3>3. ReleaseSound(u)'
      <4>1. call[u].op = "release" => call[u].ev \notin S /\ call[u].ev \in Event
        BY <1>3, <3>0, Named DEF ReleaseSound
      <4> QED BY <1>2, <3>0, <4>1, NoneListed DEF ReleaseSound, In
    <3> QED BY <3>1, <3>2, <3>3
  <2> QED BY <2>1, <2>2
<1>6. ASSUME NEW i \in 1 .. Len(inbox) PROVE MadeOnce(i)' /\ ListedLive(i)' /\ FreedLast(i)'
  <2>0. MadeOnce(i) /\ ListedLive(i) /\ FreedLast(i)
    BY <1>0
  <2>1. MadeOnce(i)'
    <3>1. inbox[i].op \in Kinds =>
            inbox[i].ev \in Event /\ remote'[inbox[i].ev] # "set" /\ call'[t].op \notin Kinds
      <4>1. ASSUME inbox[i].op \in Kinds
            PROVE  /\ inbox[i].ev \in Event /\ remote[inbox[i].ev] # "set"
                   /\ call[t].op \in Kinds /\ call[t].ev = inbox[i].ev => ans[t] # "ok"
        BY <2>0, <4>1, Named DEF MadeOnce
      <4>2. call'[t].op \notin Kinds
        BY <1>2, NoneListed, Bounds
      <4>3. \A e \in S : remote'[e] = "set" =>
              call[t].op \in Kinds /\ call[t].ev = e /\ ans[t] = "ok"
        OBVIOUS
      <4> QED BY <4>1, <4>2, <4>3
    <3> QED BY <1>1, <1>2, <2>0, <3>1 DEF MadeOnce
  <2>2. ListedLive(i)'
    <3>1. ASSUME NEW e \in Event, In(e, inbox[i].list), ~ Astray(e)'
          PROVE  remote'[e] = "set" /\ xev'[e] = "live"
      <4>1. remote[e] = "set" /\ xev[e] = "live"
        BY <1>3, <2>0, <3>1 DEF ListedLive
      <4> QED BY <1>1, <4>1
    <3> QED BY <1>1, <3>1 DEF ListedLive, In
  <2>3. FreedLast(i)'
    <3>1. inbox[i].op = "release" => inbox[i].ev \notin S /\ inbox[i].ev \in Event
      BY <1>3, <2>0, Named DEF FreedLast
    <3> QED BY <1>1, <1>2, <2>0, <3>1, NoneListed DEF FreedLast, In
  <2> QED BY <2>1, <2>2, <2>3
<1>7. Entered'
  BY <1>1 DEF ServerInv, Entered
<1> QED BY <1>1, <1>4, <1>5, <1>6, <1>7 DEF ServerInv

(* A thread goes to sleep, or returns from its call.                       *)
LEMMA ReturningSound ==
  ASSUME TypeInv, ServerInv, NEW t \in Thread, Returning(t)
  PROVE  ServerInv'
<1>0. /\ ClientTypes /\ EnqueueSound(t) /\ ListSound(t) /\ \A u \in Thread : EnqueueSound(u)
  BY Types DEF ServerInv
<1>1. CASE Sleep(t)
  <2>1. UNCHANGED <<call, ans, client, xev, queue, inbox, entered>>
    BY <1>1 DEF Sleep, client, server
  <2>2. \A e \in Event : Pending(e)' => Pending(e)
    BY <2>1 DEF Pending
  <2> QED BY <2>1, <2>2, QuietSound
<1>2. ASSUME NEW e, e = call[t].ev, call[t].op \in Making, pc[t] = "woken", Return(t),
             UNCHANGED <<server, kind, retained, misled>>,
             \E r \in {"set", "junk"} :
               /\ remote' = [remote EXCEPT ![e] = r]
               /\ r = "set" => /\ call[t].op \in Kinds /\ ans[t] = "ok"
                               /\ known' = IF kind[e] \in Blocking THEN known \cup {e} ELSE known,
             usable' \in {usable, usable \cup {e}}, known' \in {known, known \cup {e}}
      PROVE  ServerInv'
  <2>1. e \in Event /\ remote[e] = "unset" /\ kind[e] = call[t].op /\ kind[e] # "new"
    BY <1>0, <1>2, Named DEF EnqueueSound
  <2>2. \A u \in Thread : u # t /\ call[u].op \in Making => call[u].ev # e
    BY <1>0, <1>2 DEF EnqueueSound
  <2>3. /\ \A d \in Event : d # e => remote'[d] = remote[d]
        /\ \/ remote'[e] = "junk"
           \/ /\ remote'[e] = "set" /\ call[t].op \in Kinds /\ ans[t] = "ok"
              /\ known' = IF kind[e] \in Blocking THEN known \cup {e} ELSE known
    BY <1>0, <1>2, <2>1 DEF ClientTypes
  <2>4. PICK S : S = {e}
    OBVIOUS
  <2>5. /\ S \in SUBSET Event /\ \A d \in S : remote[d] = "unset" /\ kind[d] # "new"
        /\ \A d \in Event : d \notin S => remote'[d] = remote[d]
        /\ \A d \in S, u \in Thread : u # t /\ call[u].op \in Making => call[u].ev # d
        /\ known \subseteq known' /\ usable' \subseteq usable \cup S
        /\ \A d \in Event : d \in known' /\ d \notin known => d \in S
    BY <1>2, <2>1, <2>2, <2>3, <2>4
  <2>6. \A d \in S : \/ remote'[d] = "junk"
                     \/ /\ remote'[d] = "set" /\ call[t].op \in Kinds /\ call[t].ev = d
                        /\ ans[t] = "ok" /\ (d \in known' => call[t].op \in Blocking)
    <3>1. e \notin known
      BY <2>1 DEF ServerInv, EventSound
    <3> QED BY <1>2, <2>1, <2>3, <2>4, <3>1
  <2> QED BY <1>2, <2>5, <2>6, ReturnSound
<1>3. ASSUME NEW e, e = call[t].ev, call[t].op \in Making, pc[t] = "woken", Return(t),
             UNCHANGED server, Misread(e)
      PROVE  ServerInv'
  <2>1. /\ remote' = [remote EXCEPT ![e] = "junk"]
        /\ usable' \in {usable, usable \cup {e}} /\ known' \in {known, known \cup {e}}
        /\ UNCHANGED <<kind, retained, misled>>
    BY <1>3 DEF Misread
  <2> QED BY <1>2, <1>3, <2>1
<1>4. CASE ReturnEnqueue(t)
  <2>0. PICK e : e = call[t].ev
    OBVIOUS
  <2>1. /\ pc[t] = "woken" /\ call[t].op \in Kinds /\ call[t].op \in Making /\ Return(t)
        /\ UNCHANGED server
        /\ \/ /\ ans[t] = "ok" /\ remote' = [remote EXCEPT ![e] = "set"]
              /\ usable' = usable \cup {e}
              /\ known' = IF kind[e] \in Blocking THEN known \cup {e} ELSE known
              /\ UNCHANGED <<kind, retained, misled>>
           \/ Misread(e)
    BY <1>4, <2>0, Named DEF ReturnEnqueue
  <2> QED BY <1>2, <1>3, <2>0, <2>1
<1>5. CASE ReturnUnmap(t)
  <2>1. /\ pc[t] = "woken" /\ call[t].op \in Making /\ Return(t)
        /\ UNCHANGED server /\ Misread(call[t].ev)
    BY <1>5 DEF ReturnUnmap, Making
  <2> QED BY <1>3, <2>1
<1>6. ASSUME pc[t] = "woken", Return(t), UNCHANGED <<server, kind, remote, usable, retained>>,
             misled \subseteq misled', known \subseteq known',
             \A e \in Event : e \in known' /\ e \notin known =>
                remote[e] # "unset" /\ (Astray(e)' \/ ~ Pending(e))
      PROVE  ServerInv'
  <2>1. PICK S : S = {}
    OBVIOUS
  <2>2. /\ S \in SUBSET Event /\ \A d \in S : remote[d] = "unset" /\ kind[d] # "new"
        /\ \A d \in Event : d \notin S => remote'[d] = remote[d]
        /\ \A d \in S, u \in Thread : u # t /\ call[u].op \in Making => call[u].ev # d
        /\ usable' \subseteq usable \cup S
        /\ \A d \in Event : d \in known' /\ d \notin known =>
              d \in S \/ (remote[d] # "unset" /\ (Astray(d)' \/ ~ Pending(d)))
        /\ \A d \in S : \/ remote'[d] = "junk"
                        \/ /\ remote'[d] = "set" /\ call[t].op \in Kinds /\ call[t].ev = d
                           /\ ans[t] = "ok" /\ (d \in known' => call[t].op \in Blocking)
    BY <1>6, <2>1
  <2> QED BY <1>6, <2>2, ReturnSound
<1>7. CASE ReturnWait(t)
  <2>1. /\ pc[t] = "woken" /\ call[t].op = "wait" /\ Return(t)
        /\ UNCHANGED <<server, kind, remote, usable, retained>>
        /\ \/ /\ known' = known \cup {e \in Event : In(e, call[t].list)}
              /\ misled' = IF ans[t] = "error" THEN misled \cup {e \in Event : In(e, call[t].list)}
                           ELSE misled
           \/ UNCHANGED <<known, misled>>
    BY <1>7 DEF ReturnWait
  <2>2. ans[t] # "none" /\ ans[t] \in {"none", "ok", "error"}
    BY <2>1, Types DEF TypeInv, CallOf
  <2>3. \A e \in Event : In(e, call[t].list) =>
           remote[e] # "unset" /\ (ans[t] = "ok" => Astray(e) \/ ~ Pending(e))
    BY <1>0, <2>1 DEF ListSound
  <2>4. \A e \in Event : Astray(e)' <=> remote[e] = "junk" \/ e \in misled' \/ e \in retained
    BY <2>1 DEF Astray
  <2>5. \A e \in Event : Astray(e) => Astray(e)'
    BY <2>1, <2>4 DEF Astray
  <2>6. \A e \in Event : e \in known' /\ e \notin known =>
          remote[e] # "unset" /\ (Astray(e)' \/ ~ Pending(e))
    BY <2>1, <2>2, <2>3, <2>4, <2>5
  <2> QED BY <1>6, <2>1, <2>6
<1>8. CASE ReturnRelease(t) \/ ReturnRetain(t)
  <2>1. /\ pc[t] = "woken" /\ Return(t)
        /\ UNCHANGED <<server, kind, remote, usable, known, retained, misled>>
    BY <1>8 DEF ReturnRelease, ReturnRetain, client
  <2> QED BY <1>6, <2>1
<1> QED BY <1>1, <1>4, <1>5, <1>7, <1>8 DEF Returning

(* The pool sends a request: what its call counts on, the server may.      *)
LEMMA SendSound == ASSUME TypeInv, ServerInv, Send PROVE ServerInv'
<1>1. PICK h \in Thread : h = Head(pool)
  BY Heads DEF Send
<1>2. PICK n \in Nat : n = Len(inbox) + 1
  BY Types
<1>3. PICK r : r = [to |-> h, op |-> call[h].op, ev |-> call[h].ev, list |-> call[h].list]
  OBVIOUS
<1>4. /\ ~ sent /\ ans[h] = "none" /\ inbox' = Append(inbox, r)
      /\ UNCHANGED <<call, ans, client, xev, queue, entered>>
  BY <1>1, <1>3 DEF Send
<1>5. /\ r.to = h /\ r.op = call[h].op /\ r.ev = call[h].ev /\ r.list = call[h].list
      /\ Len(inbox') = n /\ inbox'[n] = r
      /\ \A i \in 1 .. Len(inbox) : inbox'[i] = inbox[i] /\ i < n
      /\ \A i \in 1 .. n : i \in 1 .. Len(inbox) \/ i = n
      /\ inbox # <<>> => inbox' # <<>> /\ 1 \in 1 .. Len(inbox)
  <2>1. /\ Len(inbox') = Len(inbox) + 1
        /\ \A i \in 1 .. Len(inbox) : inbox'[i] = inbox[i]
        /\ inbox'[Len(inbox) + 1] = r
    BY <1>4, Types, AppendProperties
  <2>2. inbox' # <<>>
    BY <2>1, Types, EmptySeq
  <2> QED BY <1>2, <1>3, <2>1, <2>2, Types, Heads
<1>6. /\ UNCHANGED <<kind, remote, usable, known, retained, misled>>
      /\ \A e \in Event : (Pending(e)' <=> Pending(e)) /\ (Astray(e)' <=> Astray(e))
  BY <1>4 DEF client, Pending, Astray
<1>7. \A e \in Event : EventSound(e)'
  BY <1>4, <1>6 DEF ServerInv, EventSound
<1>8. ASSUME NEW t \in Thread PROVE EnqueueSound(t)' /\ ListSound(t)' /\ ReleaseSound(t)'
  <2>0. EnqueueSound(t) /\ ListSound(t) /\ ReleaseSound(t)
    BY DEF ServerInv
  <2>1. EnqueueSound(t)'
    BY <1>4, <1>6, <2>0, Named DEF EnqueueSound
  <2>2. ListSound(t)' /\ ReleaseSound(t)'
    BY <1>4, <1>6, <2>0 DEF ListSound, ReleaseSound, In
  <2> QED BY <2>1, <2>2
<1>9. EnqueueSound(h) /\ ListSound(h) /\ ReleaseSound(h) /\ (call[h].op \in Kinds => call[h].op \in Making)
  BY Named DEF ServerInv
<1>10. \A i \in 1 .. Len(inbox) : inbox[i].to # h
  BY <1>4, Named
<1>11. \A i \in 1 .. Len(inbox) : r.op \in Kinds /\ inbox[i].op \in Kinds => inbox[i].ev # r.ev
  BY <1>4, <1>5, <1>10 DEF ServerInv, MadeOnce
<1>12. ASSUME NEW i \in 1 .. Len(inbox) PROVE MadeOnce(i)' /\ ListedLive(i)' /\ FreedLast(i)'
  <2>0. MadeOnce(i) /\ ListedLive(i) /\ FreedLast(i) /\ inbox'[i] = inbox[i]
    BY <1>5 DEF ServerInv
  <2>1. MadeOnce(i)'
    BY <1>4, <1>5, <1>6, <1>11, <2>0 DEF MadeOnce
  <2>2. ListedLive(i)'
    BY <1>4, <1>6, <2>0 DEF ListedLive, In
  <2>3. FreedLast(i)'
    <3>1. inbox[i].op = "release" => ~ In(inbox[i].ev, r.list)
      BY <1>4, <1>5, <1>10, <2>0 DEF FreedLast
    <3>2. inbox[i].op = "release" =>
            \A j \in 1 .. n : In(inbox[i].ev, inbox'[j].list) => j <= i
      BY <1>5, <2>0, <3>1 DEF FreedLast
    <3> QED BY <1>4, <1>5, <1>6, <2>0, <3>2 DEF FreedLast, In
  <2> QED BY <2>1, <2>2, <2>3
<1>13. MadeOnce(n)' /\ ListedLive(n)' /\ FreedLast(n)'
  <2>1. MadeOnce(n)'
    <3>1. r.op \in Kinds =>
            /\ kind[r.ev] # "new" /\ remote[r.ev] = "unset"
            /\ \A t \in Thread : call[t].op \in Kinds /\ call[t].ev = r.ev => t = h
      BY <1>5, <1>9, Named DEF EnqueueSound
    <3> QED BY <1>4, <1>5, <1>6, <1>11, <3>1 DEF MadeOnce
  <2>2. ListedLive(n)'
    <3>1. \A e \in Event : In(e, r.list) /\ ~ Astray(e) => remote[e] = "set" /\ xev[e] = "live"
      <4>1. \A e \in Event : remote[e] \in {"unset", "set", "junk"}
        BY Types DEF ClientTypes
      <4> QED BY <1>4, <1>5, <1>9, <4>1 DEF ListSound, Astray
    <3> QED BY <1>4, <1>5, <1>6, <3>1 DEF ListedLive, In
  <2>3. FreedLast(n)'
    <3>1. \A j \in 1 .. n : j <= n
      BY <1>2
    <3> QED BY <1>4, <1>5, <1>6, <1>9, <3>1 DEF FreedLast, ReleaseSound, In
  <2> QED BY <2>1, <2>2, <2>3
<1>14. Entered'
  BY <1>4, <1>5 DEF ServerInv, Entered
<1> QED BY <1>5, <1>7, <1>8, <1>12, <1>13, <1>14 DEF ServerInv

(* The server goes on with its first request r, or has done with it: what  *)
(* it tells a call, and what it does to events, is what calls and later    *)
(* requests may count on.                                                  *)
LEMMA ServedSound ==
  ASSUME TypeInv, ServerInv, inbox # <<>>, NEW r, r = Head(inbox), UNCHANGED <<call, client>>,
         \A t \in Thread : ans'[t] = ans[t] \/ (r.to = t /\ ans'[t] # "none"),
         inbox' = inbox \/ inbox' = Tail(inbox),
         \A e \in Event : EventSound(e)',
         \A e \in Event : xev[e] = "live" /\ xev'[e] # "live" =>
           /\ remote[e] = "set"
           /\ \/ Astray(e)
              \/ /\ \A t \in Thread : In(e, call[t].list) => ans'[t] # "none"
                 /\ \A i \in 1 .. Len(inbox) : In(e, inbox[i].list) => i = 1
                 /\ inbox' = Tail(inbox),
         \A e \in Event : Pending(e)' /\ ~ Pending(e) => r.op \in Kinds /\ e = r.ev,
         \A t \in Thread : r.to = t /\ ans'[t] = "ok" =>
           /\ r.op \in Kinds => xev'[r.ev] = "live" /\ (r.op \in Blocking => ~ Pending(r.ev)')
           /\ r.op = "wait" => \A e \in Event : In(e, r.list) => ~ Pending(e)',
         entered' => inbox' = inbox /\ r.op \in Blocking /\ xev'[r.ev] = "live"
  PROVE  ServerInv'
<1>0. /\ UNCHANGED <<kind, remote, usable, known, retained, misled>>
      /\ \A e \in Event : Astray(e)' <=> Astray(e)
  BY DEF client, Astray
<1>1. r = inbox[1] /\ 1 \in 1 .. Len(inbox) /\ MadeOnce(1) /\ Len(inbox) \in Nat
  BY Heads, Types DEF ServerInv
<1>2. PICK k \in {0, 1} :
        /\ Len(inbox') = Len(inbox) - k
        /\ \A i \in 1 .. Len(inbox') : i + k \in 1 .. Len(inbox) /\ inbox'[i] = inbox[i + k]
        /\ k = 0 => inbox' = inbox
        /\ \A i \in 1 .. Len(inbox') : k = 1 => i + k # 1
  <2>1. inbox' = inbox => /\ Len(inbox') = Len(inbox) - 0
                          /\ \A i \in 1 .. Len(inbox') : i + 0 \in 1 .. Len(inbox) /\ inbox'[i] = inbox[i + 0]
    BY Types
  <2>2. inbox' = Tail(inbox) =>
          /\ Len(inbox') = Len(inbox) - 1
          /\ \A i \in 1 .. Len(inbox') : i + 1 \in 1 .. Len(inbox) /\ inbox'[i] = inbox[i + 1] /\ i + 1 # 1
    BY Types, HeadTailProperties
  <2> QED BY <2>1, <2>2
<1>3. ASSUME NEW e \in Event, Pending(e)', ~ Pending(e)
      PROVE  /\ r.op \in Kinds /\ e = r.ev /\ remote[e] # "set"
             /\ \A t \in Thread : call[t].op \in Kinds /\ call[t].ev = e => ans[t] = "error" \/ r.to = t
  BY <1>1, <1>3 DEF MadeOnce
<1>4. ASSUME NEW t \in Thread PROVE EnqueueSound(t)' /\ ListSound(t)' /\ ReleaseSound(t)'
  <2>0. EnqueueSound(t) /\ ListSound(t) /\ ReleaseSound(t) /\ call'[t] = call[t]
    BY DEF ServerInv
  <2>1. r.to = t => r.op = call[t].op /\ r.ev = call[t].ev /\ r.list = call[t].list /\ ans[t] = "none"
    BY <1>1, Named
  <2>2. EnqueueSound(t)'
    <3>1. ASSUME call[t].op \in Kinds, ans'[t] = "ok"
          PROVE  /\ xev'[call[t].ev] = "live"
                 /\ call[t].op \in Blocking => ~ Pending(call[t].ev)'
      <4>1. CASE r.to = t
        BY <2>1, <3>1, <4>1
      <4>2. CASE r.to # t
        <5>1. /\ ans[t] = "ok" /\ xev[call[t].ev] = "live" /\ remote[call[t].ev] = "unset"
              /\ call[t].op \in Blocking => ~ Pending(call[t].ev)
              /\ call[t].ev \in Event
          BY <2>0, <3>1, <4>2, Named DEF EnqueueSound
        <5> QED BY <1>3, <3>1, <4>2, <5>1
      <4> QED BY <4>1, <4>2
    <3> QED BY <1>0, <2>0, <3>1 DEF EnqueueSound
  <2>3. ListSound(t)'
    <3>1. ASSUME NEW e \in Event, In(e, call[t].list), ~ Astray(e)
          PROVE  /\ ans'[t] = "none" => xev'[e] = "live"
                 /\ call[t].op = "wait" /\ ans'[t] = "ok" => ~ Pending(e)'
      <4>1. /\ remote[e] # "unset" /\ (ans[t] = "none" => xev[e] = "live")
            /\ call[t].op = "wait" /\ ans[t] = "ok" => ~ Pending(e)
        BY <2>0, <3>1 DEF ListSound
      <4>2. remote[e] = "set"
        <5>1. remote[e] \in {"unset", "set", "junk"}
          BY Types DEF ClientTypes
        <5> QED BY <3>1, <4>1, <5>1 DEF Astray
      <4>3. ans'[t] = "none" => ans[t] = "none"
        OBVIOUS
      <4>4. call[t].op = "wait" /\ ans'[t] = "ok" => ~ Pending(e)'
        <5>1. CASE r.to = t
          BY <2>1, <3>1, <5>1
        <5>2. CASE r.to # t
          BY <1>3, <4>1, <4>2, <5>2
        <5> QED BY <5>1, <5>2
      <4> QED BY <3>1, <4>1, <4>3, <4>4
    <3> QED BY <1>0, <2>0, <3>1 DEF ListSound, In
  <2>4. ReleaseSound(t)'
    BY <1>0, <2>0 DEF ReleaseSound, In
  <2> QED BY <2>2, <2>3, <2>4
<1>5. ASSUME NEW i \in 1 .. Len(inbox') PROVE MadeOnce(i)' /\ ListedLive(i)' /\ FreedLast(i)'
  <2>0. PICK j \in 1 .. Len(inbox) : j = i + k /\ (k = 1 => j # 1)
    BY <1>2
  <2>1. MadeOnce(j) /\ ListedLive(j) /\ FreedLast(j) /\ inbox'[i] = inbox[j]
    BY <1>2, <2>0 DEF ServerInv
  <2>2. \A t \in Thread : ans[t] = "error" => ans'[t] = "error"
    <3>1. \A t \in Thread : r.to = t => ans[t] = "none"
      BY <1>1, Named
    <3> QED BY <3>1
  <2>3. MadeOnce(i)'
    <3>1. ASSUME NEW l \in 1 .. Len(inbox'), inbox[j].op \in Kinds,
                 inbox'[l].op \in Kinds, inbox'[l].ev = inbox[j].ev
          PROVE  l = i
      <4>1. l + k \in 1 .. Len(inbox) /\ inbox'[l] = inbox[l + k]
        BY <1>2
      <4>2. l + k = j
        BY <2>1, <3>1, <4>1 DEF MadeOnce
      <4> QED BY <2>0, <4>2
    <3> QED BY <1>0, <2>1, <2>2, <3>1 DEF MadeOnce
  <2>4. ListedLive(i)'
    <3>1. ASSUME NEW e \in Event, In(e, inbox[j].list), ~ Astray(e)
          PROVE  remote[e] = "set" /\ xev'[e] = "live"
      <4>1. remote[e] = "set" /\ xev[e] = "live"
        BY <2>1, <3>1 DEF ListedLive
      <4>2. CASE inbox' = inbox /\ inbox' # Tail(inbox)
        BY <3>1, <4>1, <4>2
      <4>3. CASE inbox' = Tail(inbox)
        <5>1. j # 1
          <6>1. Len(inbox') = Len(inbox) - 1
            BY <4>3, Types, HeadTailProperties
          <6> QED BY <1>1, <1>2, <2>0, <6>1
        <5> QED BY <3>1, <4>1, <5>1
      <4> QED BY <4>2, <4>3
    <3> QED BY <1>0, <2>1, <3>1 DEF ListedLive, In
  <2>5. FreedLast(i)'
    <3>1. inbox[j].op = "release" =>
            /\ \A l \in 1 .. Len(inbox') : In(inbox[j].ev, inbox'[l].list) => l <= i
            /\ \A t \in Thread : In(inbox[j].ev, call[t].list) => ans'[t] # "none" \/ inbox[j].to = t
      <4>1. ASSUME NEW l \in 1 .. Len(inbox'), inbox[j].op = "release",
                   In(inbox[j].ev, inbox'[l].list)
            PROVE  l <= i
        <5>1. l + k \in 1 .. Len(inbox) /\ inbox'[l] = inbox[l + k]
          BY <1>2
        <5>2. l + k <= j
          BY <2>1, <4>1, <5>1 DEF FreedLast
        <5> QED BY <2>0, <5>2
      <4>2. \A t \in Thread : ans[t] # "none" => ans'[t] # "none"
        OBVIOUS
      <4> QED BY <2>1, <4>1, <4>2 DEF FreedLast
    <3> QED BY <1>0, <2>1, <3>1 DEF FreedLast, In
  <2> QED BY <2>3, <2>4, <2>5
<1>6. Entered'
  BY <1>1 DEF Entered
<1> QED BY <1>4, <1>5, <1>6 DEF ServerInv

(* What brings the server down: a request that lists an event the host was *)
(* led astray about, or the command of one whose buffer is gone.           *)
BadRequest == inbox # <<>> /\ \E e \in Event : In(e, Head(inbox).list) /\ Astray(e)
BadCommand == queue # <<>> /\ xev[Head(queue)] = "freed" /\ Astray(Head(queue))

LEMMA CrashIsBad ==
  ASSUME TypeInv, ServerInv, up, ~ up', Server \/ Complete
  PROVE  BadRequest \/ BadCommand
<1>1. CASE inbox # <<>> /\ ~ Valid(Head(inbox).list)
  <2>1. /\ Head(inbox) = inbox[1] /\ ListedLive(1) /\ Head(inbox).list \in Seq(Event)
    BY <1>1, Heads DEF ServerInv
  <2>2. PICK l \in Seq(Event) : l = Head(inbox).list
    BY <2>1
  <2>3. PICK i \in 1 .. Len(l) : ~ (remote[l[i]] = "set" /\ xev[l[i]] = "live")
    BY <1>1, <2>2 DEF Valid
  <2>4. l[i] \in Event /\ In(l[i], l)
    BY <2>3, ElementOfSeq DEF In
  <2> QED BY <1>1, <2>1, <2>2, <2>3, <2>4 DEF BadRequest, ListedLive
<1>2. CASE inbox # <<>> /\ Head(inbox).op = "retain"
  <2>1. /\ Head(inbox) = inbox[1] /\ FreedLast(1) /\ inbox[1].ev \in Event
    BY <1>2, Heads, Named DEF ServerInv
  <2>2. PICK e \in Event : e = inbox[1].ev
    BY <2>1
  <2>3. Head(inbox).list = <<e>> /\ e \in retained
    BY <1>2, <2>1, <2>2 DEF FreedLast
  <2>4. In(e, Head(inbox).list) /\ Astray(e)
    BY <2>3, NoneListed DEF Astray
  <2> QED BY <1>2, <2>4 DEF BadRequest
<1>3. CASE queue # <<>> /\ xev[Head(queue)] = "freed"
  <2>1. queue \in Seq(Event) /\ Len(queue) \in Nat
    BY Types, LenProperties DEF ServerTypes
  <2>2. 1 \in 1 .. Len(queue) /\ Head(queue) = queue[1] /\ queue[1] \in Event
    BY <1>3, <2>1, EmptySeq, ElementOfSeq
  <2>3. Pending(Head(queue)) /\ Head(queue) \in Event
    BY <2>2 DEF Pending
  <2> QED BY <1>3, <2>3 DEF ServerInv, EventSound, BadCommand
<1>4. Complete => queue # <<>> /\ xev[Head(queue)] = "freed"
  BY DEF Complete
<1>5. Server => inbox # <<>> /\ (~ Valid(Head(inbox).list) \/ Head(inbox).op = "retain")
  BY DEF Server, ServeRead, ServeWrite, ServeMap, ServeExec, Enter, LeaveEnqueue, ServeWait,
     ServeRelease, ServeRetain, ServeUnknown, Serving
<1> QED BY <1>1, <1>2, <1>3, <1>4, <1>5

(* The server handles a request.                                           *)
LEMMA ServeSound == ASSUME TypeInv, ServerInv, Server, up' PROVE ServerInv'
<1>a. ~ Crash
  BY DEF Crash
<1>0. inbox # <<>>
  BY DEF Server, ServeRead, ServeWrite, ServeMap, ServeExec, Enter, LeaveEnqueue, ServeWait,
     ServeRelease, ServeRetain, ServeUnknown, Serving
<1>1. PICK r : r = Head(inbox)
  OBVIOUS
<1>2. /\ r = inbox[1] /\ 1 \in 1 .. Len(inbox) /\ r.list \in Seq(Event)
      /\ MadeOnce(1) /\ ListedLive(1) /\ FreedLast(1) /\ Entered
      /\ \A e \in Event : EventSound(e)
      /\ r.op \in Kinds \cup {"release", "retain"} => r.ev \in Event
  BY <1>0, <1>1, Heads, Named DEF ServerInv
<1>3. /\ xev \in [Event -> {"none", "live", "freed"}] /\ queue \in Seq(Event) /\ Len(queue) \in Nat
      /\ \A e \in Event : remote[e] \in {"unset", "set", "junk"}
  BY Types, LenProperties DEF ServerTypes, ClientTypes
<1>4. ASSUME NEW s \in {"ok", "error"}, NEW b, Reply(s, b)
      PROVE  /\ inbox' = Tail(inbox)
             /\ \A t \in Thread : \/ ans'[t] = ans[t] /\ r.to # t
                                  \/ r.to = t /\ ans'[t] = s
  <2>1. /\ inbox' = Tail(inbox)
        /\ ans' = IF r.to = Nobody THEN ans ELSE [ans EXCEPT ![r.to] = s]
    BY <1>1, <1>4 DEF Reply
  <2>2. ans \in [Thread -> {"none", "ok", "error"}] /\ Nobody \notin Thread
    BY Types, Bounds
  <2> QED BY <2>1, <2>2
<1>5. ASSUME UNCHANGED <<client, xev, queue>> PROVE \A e \in Event : EventSound(e)' /\ (Pending(e)' <=> Pending(e))
  BY <1>2, <1>5 DEF EventSound, Pending, Astray, client
<1>6. ASSUME NEW kinds \in {ReadKinds, WriteKinds, MapKinds, {"exec"}}, Enter(kinds)
      PROVE  ServerInv'
  <2>1. PICK e : e = r.ev
    OBVIOUS
  <2>2. /\ r.op \in kinds /\ ~ entered /\ UNCHANGED <<call, client>>
        /\ xev' = [xev EXCEPT ![e] = "live"] /\ queue' = Append(queue, e)
        /\ \/ /\ r.op \in Blocking /\ entered' = TRUE /\ UNCHANGED <<inbox, ans>>
           \/ r.op \notin Blocking /\ Reply("ok", <<>>) /\ UNCHANGED entered
    BY <1>a, <1>1, <1>6, <2>1 DEF Enter, Serving
  <2>3. /\ r.op \in Kinds /\ r.op # "wait" /\ e \in Event /\ kind[e] # "new" /\ remote[e] # "set"
    <3>1. r.op \in Kinds
      BY <2>2 DEF Kinds
    <3> QED BY <1>2, <2>1, <3>1, Bounds DEF MadeOnce
  <2>4. /\ xev'[e] = "live" /\ \A d \in Event : d # e => xev'[d] = xev[d]
        /\ UNCHANGED <<kind, remote, usable, known, retained, misled>>
        /\ \A d \in Event : Astray(d)' <=> Astray(d)
    BY <1>3, <2>2, <2>3 DEF client, Astray
  <2>5. \A d \in Event : d # e => (Pending(d)' <=> Pending(d))
    <3>1. /\ Len(queue') = Len(queue) + 1
          /\ \A i \in 1 .. Len(queue) : queue'[i] = queue[i]
          /\ queue'[Len(queue) + 1] = e
      BY <1>3, <2>2, <2>3, AppendProperties
    <3>2. \A i \in 1 .. Len(queue') : i \in 1 .. Len(queue) \/ i = Len(queue) + 1
      BY <1>3, <3>1
    <3>3. \A i \in 1 .. Len(queue) : i \in 1 .. Len(queue')
      BY <1>3, <3>1
    <3> QED BY <3>1, <3>2, <3>3 DEF Pending
  <2>6. \A d \in Event : EventSound(d)'
    <3>1. ASSUME NEW d \in Event, d # e PROVE EventSound(d)'
      BY <1>2, <2>4, <2>5, <3>1 DEF EventSound
    <3>2. EventSound(e)'
      <4>1. e \in known => Astray(e)
        BY <1>2, <1>3, <2>3 DEF EventSound, Astray
      <4> QED BY <1>2, <2>3, <2>4, <4>1 DEF EventSound
    <3> QED BY <3>1, <3>2
  <2>7. /\ \A t \in Thread : ans'[t] = ans[t] \/ (r.to = t /\ ans'[t] # "none")
        /\ inbox' = inbox \/ inbox' = Tail(inbox)
        /\ \A t \in Thread : r.to = t /\ ans'[t] = "ok" => r.op \notin Blocking
        /\ entered' => inbox' = inbox /\ r.op \in Blocking
    <3>1. CASE r.op \in Blocking /\ entered' = TRUE /\ UNCHANGED <<inbox, ans>>
      <4>1. \A t \in Thread : r.to = t => ans[t] = "none"
        BY <1>2, Named
      <4> QED BY <3>1, <4>1
    <3>2. CASE r.op \notin Blocking /\ Reply("ok", <<>>) /\ UNCHANGED entered
      BY <1>4, <2>2, <3>2
    <3> QED BY <2>2, <3>1, <3>2
  <2>8. \A d \in Event : xev[d] = "live" => xev'[d] = "live"
    BY <2>4
  <2> QED BY <1>0, <1>1, <2>1, <2>2, <2>3, <2>4, <2>5, <2>6, <2>7, <2>8, ServedSound
<1>7. ASSUME NEW s \in {"ok", "error"}, NEW b, Reply(s, b), ~ entered',
             UNCHANGED <<call, client, xev, queue>>,
             s = "ok" /\ r.op \in Kinds => xev[r.ev] = "live" /\ ~ Pending(r.ev),
             s = "ok" /\ r.op = "wait" => \A e \in Event : In(e, r.list) => ~ Pending(e)
      PROVE  ServerInv'
  <2>1. /\ inbox' = Tail(inbox)
        /\ \A t \in Thread : \/ ans'[t] = ans[t] /\ r.to # t
                             \/ r.to = t /\ ans'[t] = s
    BY <1>4, <1>7
  <2>2. \A e \in Event : EventSound(e)' /\ (Pending(e)' <=> Pending(e))
    BY <1>5, <1>7
  <2> QED BY <1>0, <1>1, <1>2, <1>7, <2>1, <2>2, ServedSound
<1>8. ASSUME r.op \notin Blocking PROVE ~ entered
  BY <1>2, <1>8 DEF Entered
<1>9. CASE LeaveEnqueue
  <2>1. /\ entered /\ r.op \in Kinds /\ ~ Pending(r.ev) /\ entered' = FALSE
        /\ UNCHANGED <<call, client, xev, queue>> /\ \E b : Reply("ok", b)
    BY <1>1, <1>9 DEF LeaveEnqueue, Serving
  <2>2. xev[r.ev] = "live" /\ r.op # "wait"
    BY <1>2, <2>1, Bounds DEF Entered
  <2> QED BY <1>7, <2>1, <2>2
<1>10. CASE ServeWait
  <2>1. r.op = "wait" /\ r.op \notin Kinds /\ ~ entered
    <3>1. r.op = "wait"
      BY <1>1, <1>10 DEF ServeWait, Serving
    <3> QED BY <1>8, <3>1, Bounds DEF Blocking
  <2>2. /\ \E b : Reply("ok", b) /\ \A i \in 1 .. Len(r.list) : ~ Pending(r.list[i])
        /\ UNCHANGED <<call, client, entered, xev, queue>>
    BY <1>a, <1>1, <1>10 DEF ServeWait
  <2> QED BY <1>7, <2>1, <2>2 DEF In
<1>11. CASE ServeUnknown
  <2>1. /\ r.op = Unmap /\ \E b : Reply("error", b)
        /\ UNCHANGED <<call, client, entered, xev, queue>>
    BY <1>1, <1>11 DEF ServeUnknown, Serving
  <2>2. ~ entered
    BY <1>8, <2>1 DEF Blocking, Unmap
  <2> QED BY <1>7, <2>1, <2>2
<1>12. CASE ServeRelease \/ ServeRetain
  <2>1. PICK e : e = r.ev
    OBVIOUS
  <2>2. /\ r.op \in {"release", "retain"} /\ r.op \notin Kinds /\ r.op # "wait" /\ ~ entered
        /\ e \in Event /\ r.list = <<e>>
    <3>1. r.op \in {"release", "retain"}
      BY <1>1, <1>12 DEF ServeRelease, ServeRetain, Serving
    <3> QED BY <1>2, <1>8, <2>1, <3>1, Bounds DEF Blocking, FreedLast
  <2>3. In(e, r.list)
    BY <2>2, NoneListed
  <2>5. /\ Valid(r.list) /\ xev' = [xev EXCEPT ![e] = "freed"]
        /\ Reply("ok", <<>>) /\ UNCHANGED <<call, client, entered, queue>>
    BY <1>a, <1>1, <1>12, <2>1 DEF ServeRelease, ServeRetain
  <2>6. remote[e] = "set"
    <3>1. PICK i \in 1 .. Len(r.list) : r.list[i] = e
      BY <2>3 DEF In
    <3> QED BY <2>5, <3>1 DEF Valid
  <2>7. /\ xev'[e] = "freed" /\ \A d \in Event : d # e => xev'[d] = xev[d]
        /\ UNCHANGED <<kind, remote, usable, known, retained, misled>>
        /\ \A d \in Event : (Pending(d)' <=> Pending(d)) /\ (Astray(d)' <=> Astray(d))
    BY <1>3, <2>2, <2>5 DEF client, Pending, Astray
  <2>8. /\ inbox' = Tail(inbox)
        /\ \A t \in Thread : \/ ans'[t] = ans[t] /\ r.to # t
                             \/ r.to = t /\ ans'[t] = "ok"
    BY <1>4, <2>5
  <2>9. \/ Astray(e)
        \/ /\ e \in known /\ e \notin usable
           /\ \A t \in Thread : In(e, call[t].list) => ans'[t] # "none"
           /\ \A i \in 1 .. Len(inbox) : In(e, inbox[i].list) => i = 1
    <3>1. CASE r.op = "retain"
      BY <1>2, <2>1, <3>1 DEF FreedLast, Astray
    <3>2. CASE r.op = "release"
      <4>1. /\ e \in known /\ e \notin usable
            /\ \A i \in 1 .. Len(inbox) : In(e, inbox[i].list) => i <= 1
            /\ \A t \in Thread : In(e, call[t].list) => ans[t] # "none" \/ r.to = t
        BY <1>2, <2>1, <3>2 DEF FreedLast
      <4>2. \A i \in 1 .. Len(inbox) : i <= 1 => i = 1
        BY Types
      <4> QED BY <2>8, <4>1, <4>2
    <3> QED BY <2>2, <3>1, <3>2
  <2>10. \A d \in Event : EventSound(d)'
    <3>1. ASSUME NEW d \in Event, d # e PROVE EventSound(d)'
      BY <1>2, <2>7, <3>1 DEF EventSound
    <3>2. EventSound(e)'
      BY <1>2, <2>2, <2>7, <2>9 DEF EventSound
    <3> QED BY <3>1, <3>2
  <2> QED BY <1>0, <1>1, <2>2, <2>5, <2>6, <2>7, <2>8, <2>9, <2>10, ServedSound
<1> QED
  BY <1>6, <1>9, <1>10, <1>11, <1>12 DEF Server, ServeRead, ServeWrite, ServeMap, ServeExec

(* The device carries out a command.                                       *)
LEMMA CompleteSound == ASSUME TypeInv, ServerInv, Complete, up' PROVE ServerInv'
<1>1. queue \in Seq(Event) /\ Len(queue) \in Nat /\ queue # <<>>
  BY Types, LenProperties DEF ServerTypes, Complete
<1>4. queue' = Tail(queue) /\ UNCHANGED <<call, ans, client, inbox, entered, xev>>
  BY DEF Complete, Crash
<1>5. \A d \in Event : Pending(d)' => Pending(d)
  <2>1. /\ Len(queue') = Len(queue) - 1
        /\ \A i \in 1 .. Len(queue') : queue'[i] = queue[i + 1] /\ i + 1 \in 1 .. Len(queue)
    BY <1>1, <1>4, HeadTailProperties
  <2> QED BY <2>1 DEF Pending
<1> QED BY <1>4, <1>5, QuietSound

(* The loop thread hands on requests and answers, or a request fails.      *)
LEMMA LoopSound ==
  ASSUME TypeInv, ServerInv, Send \/ Fail \/ Callback \/ UNCHANGED vars
  PROVE  ServerInv'
<1>1. CASE Callback \/ UNCHANGED vars
  <2>1. UNCHANGED <<call, ans, client, xev, queue, inbox, entered>>
    BY <1>1 DEF Callback, vars, client, server
  <2>2. \A e \in Event : Pending(e)' => Pending(e)
    BY <2>1 DEF Pending
  <2> QED BY <2>1, <2>2, QuietSound
<1>2. CASE Fail
  <2>1. PICK h \in Thread : h = Head(pool)
    BY <1>2, Heads DEF Fail
  <2>2. /\ ans' = [ans EXCEPT ![h] = "error"]
        /\ inbox' = [i \in 1 .. Len(inbox) |->
                       IF inbox[i].to = h THEN [inbox[i] EXCEPT !.to = Nobody] ELSE inbox[i]]
        /\ UNCHANGED <<call, client, xev, queue, entered>>
    BY <1>2, <2>1 DEF Fail
  <2>3. ans'[h] = "error" /\ \A t \in Thread : t # h => ans'[t] = ans[t]
    BY <2>1, <2>2, Types
  <2>4. \A i \in 1 .. Len(inbox) :
          /\ inbox'[i].op = inbox[i].op /\ inbox'[i].ev = inbox[i].ev
          /\ inbox'[i].list = inbox[i].list
          /\ \A t \in Thread : inbox[i].to = t => inbox'[i].to = t \/ ans'[t] = "error"
    <3> SUFFICES ASSUME NEW i \in 1 .. Len(inbox)
                 PROVE  /\ inbox'[i].op = inbox[i].op /\ inbox'[i].ev = inbox[i].ev
                        /\ inbox'[i].list = inbox[i].list
                        /\ \A t \in Thread : inbox[i].to = t => inbox'[i].to = t \/ ans'[t] = "error"
      OBVIOUS
    <3>1. inbox[i] \in Requests
      BY Types
    <3> QED BY <2>2, <2>3, <3>1 DEF Requests
  <2>5. Len(inbox') = Len(inbox) /\ (inbox = <<>> <=> inbox' = <<>>)
    <3>1. Len(inbox) \in Nat /\ Len(inbox') = Len(inbox)
      BY <2>2, Types
    <3>2. inbox' = <<>> <=> Len(inbox') = 0
      BY <2>2, <3>1
    <3>3. inbox = <<>> <=> Len(inbox) = 0
      BY Types, EmptySeq
    <3> QED BY <3>1, <3>2, <3>3
  <2>6. \A e \in Event : Pending(e)' => Pending(e)
    BY <2>2 DEF Pending
  <2> QED BY <2>2, <2>3, <2>4, <2>5, <2>6, QuietSound
<1> QED BY <1>1, <1>2, SendSound

(* A server that is gone stays so, and only a crash brings it down. *)
LEMMA UpOnce ==
  ASSUME [Next]_vars
  PROVE  (up' => up) /\ (up /\ ~ up' => Server \/ Complete)
<1>1. ASSUME NEW t \in Thread, Host(t) PROVE up' = up
  BY <1>1 DEF Host, ReadBuffer, WriteBuffer, MapBuffer, CopyBuffer, NDRangeKernel, Enqueue,
     MakeEvent, WaitForEvents, ReleaseEvent, RetainEvent, UnmapMemObject, Request, server
<1>2. ASSUME NEW t \in Thread, Returning(t) PROVE up' = up
  BY <1>2 DEF Returning, Sleep, ReturnEnqueue, ReturnUnmap, ReturnWait, ReturnRelease,
     ReturnRetain, server
<1>3. Loop \/ Timeout \/ UNCHANGED vars => up' = up
  BY DEF Loop, Timeout, Refused, Fail, Send, Callback, vars, server
<1>4. Server \/ Complete => (up' => up)
  BY DEF Server, ServeRead, ServeWrite, ServeMap, ServeExec, Enter, LeaveEnqueue, ServeWait,
     ServeRelease, ServeRetain, ServeUnknown, Serving, Complete
<1> QED BY <1>1, <1>2, <1>3, <1>4 DEF Next

(* Every step leaves the server sound, unless a bad request or a bad       *)
(* command brings it down.                                                 *)
LEMMA SoundStep ==
  ASSUME EarlyRelease = FALSE, TypeInv, SoundInv, [Next]_vars
  PROVE  SoundInv' /\ (up /\ ~ up' => BadRequest \/ BadCommand)
<1> SUFFICES ASSUME up PROVE (up' => ServerInv') /\ (~ up' => BadRequest \/ BadCommand)
  BY UpOnce DEF SoundInv
<1>1. ServerInv
  BY DEF SoundInv
<1>3. CASE Server \/ Complete
  BY <1>1, <1>3, ServeSound, CompleteSound, CrashIsBad
<1>4. CASE ~ (Server \/ Complete)
  <2>1. up'
    BY <1>4, UpOnce
  <2>2. ASSUME NEW t \in Thread, Host(t) \/ Returning(t) PROVE ServerInv'
    BY <1>1, <2>2, HostSound, ReturningSound
  <2>3. Loop \/ Timeout \/ UNCHANGED vars => ServerInv'
    BY <1>1, LoopSound DEF Loop, Timeout, Refused
  <2> QED BY <1>4, <2>1, <2>2, <2>3 DEF Next
<1> QED BY <1>3, <1>4

(* Whatever times out, comes late or is retained, and as long as the host  *)
(* waits for an event before it releases it: the server follows no pointer *)
(* to an xevent that it freed or never made, and the device uses no freed  *)
(* buffer, unless for an event the host was led astray about, by a reply   *)
(* it did not get, a wait that failed or a clRetainEvent (clrpcd.c         *)
(* 1218-1250, libclrpc.c 1212-1217, 1543-1548).  An event is released by   *)
(* one call only, while no other call lists it, and its command is         *)
(* complete.                                                               *)
THEOREM OnlyAstrayBringsDown ==
  ASSUME EarlyRelease = FALSE
  PROVE  Spec => OnlyAstrayBreaks
<1> DEFINE Breaks ==
             up /\ ~ up' =>
               \/ inbox # <<>> /\ \E e \in Event : In(e, Head(inbox).list) /\ Astray(e)
               \/ queue # <<>> /\ xev[Head(queue)] = "freed" /\ Astray(Head(queue))
<1>1. Init => SoundInv
  <2> SUFFICES ASSUME Init PROVE ServerInv
    BY DEF SoundInv
  <2>1. /\ inbox = <<>> /\ Len(inbox) = 0 /\ ~ entered /\ Len(queue) = 0
        /\ \A e \in Event : remote[e] = "unset" /\ xev[e] = "none"
        /\ usable = {} /\ known = {}
        /\ \A t \in Thread : call[t] = NoCall
    BY DEF Init
  <2>2. \A e \in Event : EventSound(e)
    BY <2>1 DEF EventSound, Pending
  <2>3. \A t \in Thread : EnqueueSound(t) /\ ListSound(t) /\ ReleaseSound(t)
    BY <2>1, NoneListed, Bounds DEF EnqueueSound, ListSound, ReleaseSound, Making
  <2> QED BY <2>1, <2>2, <2>3 DEF ServerInv, Entered
<1>2. TypeInv /\ SoundInv /\ [Next]_vars => SoundInv'
  BY SoundStep
<1>3. TypeInv /\ SoundInv /\ [Next]_vars => [Breaks]_vars
  BY SoundStep DEF BadRequest, BadCommand
<1>4. OnlyAstrayBreaks <=> [][Breaks]_vars
  BY DEF OnlyAstrayBreaks
<1> HIDE DEF Breaks
<1> QED BY <1>1, <1>2, <1>3, <1>4, TypeInit, TypeStep, PTL DEF Spec
=============================================================================
