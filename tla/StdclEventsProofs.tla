-------------------------- MODULE StdclEventsProofs ---------------------------
(***************************************************************************)
(* Proofs about the event lists of StdclEvents, for every length of a list *)
(* and every number of commands.                                           *)
(*                                                                         *)
(* The argument: the slots below nev (all of them once nev has reached     *)
(* ListMax) hold events asked for since the last clwait, the newest is the *)
(* one before the free slot, and clwait always looks at that slot.  Events *)
(* complete in the order of their numbers, so waiting for the newest is    *)
(* waiting for all, even after the list has lost some of them.             *)
(*                                                                         *)
(* An event the host holds has all its references, and the host gives it   *)
(* up once: clwaitev takes the last one only where there is one, with an   *)
(* OpenCL other than the repository's.                                     *)
(***************************************************************************)
EXTENDS StdclEvents, TLAPS

(* The slots in use hold events asked for; only the kernel list of a host  *)
(* whose clfork failed may hold an uninitialised one.                      *)
Clean(k) == host = "ok" \/ k = "mem"

Filled ==
  \A k \in Kinds :
    /\ lists[k].nev < ListMax => lists[k].ev_free = lists[k].nev
    /\ lists[k].nev > 0 \/ asked[k] = {}
    /\ \A s \in Slots : s < lists[k].nev =>
         \/ lists[k].ev[s] \in asked[k]
         \/ ~Clean(k) /\ lists[k].ev[s] = Wild

(* Who holds references: the host has not released what it holds, and an   *)
(* event asked for has been released once at most.                         *)
Counted ==
  /\ asked["kernel"] \cap asked["mem"] = {}
  /\ \A e \in held : refc[e] = RefsOfNew
  /\ ocl = "coprthr" => \A k \in Kinds : \A e \in asked[k] : refc[e] > 0

(* A host lost without a refused enqueue: it used a freed event, which is  *)
(* still in its list.                                                      *)
LostOver ==
  (ocl = "other" /\ host = "lost") =>
    \E k \in Kinds : \E e \in EventsOf(lists[k]) : e # Wild /\ refc[e] = 0

(* Only this OpenCL refuses an enqueue, and a tainted list is not empty.   *)
Tainted == host = "tainted" => ocl = "coprthr" /\ lists["kernel"].nev > 0

IInv == TypeOK /\ Filled /\ NewestIsLast /\ Counted /\ Tainted /\ LostOver

LEMMA RefsOfNewType == RefsOfNew \in {1, 2} /\ (ocl = "coprthr" => RefsOfNew = 2)
BY DEF RefsOfNew

LEMMA RefsOfNewStays == ocl' = ocl => RefsOfNew' = RefsOfNew
BY DEF RefsOfNew

-----------------------------------------------------------------------------
(* The slot before the free one, once an event has been appended.          *)
LEMMA BeforeFree ==
  ASSUME NEW f \in Slots
  PROVE  /\ (f + 1) % ListMax \in Slots
         /\ (((f + 1) % ListMax) + ListMax - 1) % ListMax = f
         /\ f > 0 => (f + ListMax - 1) % ListMax = f - 1
         /\ (0 + ListMax - 1) % ListMax = ListMax - 1
         /\ f + 1 < ListMax => (f + 1) % ListMax = f + 1
         /\ f + 1 = ListMax => (f + 1) % ListMax = 0
BY ListMaxIsPositive, SMTT(30) DEF Slots

(* The slots clwait looks at are in use, and the newest is one of them.    *)
LEMMA SlotsInUse ==
  ASSUME TypeOK, Filled, NEW k \in Kinds
  PROVE  /\ SlotsOf(lists[k]) \subseteq {s \in Slots : s < lists[k].nev}
         /\ lists[k].nev > 0 =>
              (lists[k].ev_free + ListMax - 1) % ListMax \in SlotsOf(lists[k])
PROOF
  <1> DEFINE L == lists[k]
  <1>1. /\ L.nev \in Nat /\ L.ev_first = 0 /\ L.ev_free \in Slots
        /\ L.nev < ListMax => L.ev_free = L.nev
    BY DEF TypeOK, Filled
  <1>2. ListMax \in Nat \ {0}
    BY ListMaxIsPositive
  <1>3. /\ L.ev_free > 0 => (L.ev_free + ListMax - 1) % ListMax = L.ev_free - 1
        /\ (0 + ListMax - 1) % ListMax = ListMax - 1
    BY <1>1, BeforeFree
  <1> HIDE DEF L
  <1>4. CASE L.nev = 0
    <2>1. SlotsOf(L) = {}
      BY <1>4 DEF SlotsOf
    <2> QED BY <2>1, <1>4 DEF L
  <1>5. CASE L.nev > 0 /\ 0 < L.ev_free
    <2>1. SlotsOf(L) = 0 .. L.ev_free - 1
      BY <1>1, <1>5 DEF SlotsOf
    <2> QED BY <2>1, <1>1, <1>2, <1>3, <1>5 DEF L, Slots
  <1>6. CASE L.nev > 0 /\ ~(0 < L.ev_free)
    <2>1. SlotsOf(L) = Slots
      BY <1>1, <1>6 DEF SlotsOf
    <2>2. L.ev_free = 0
      BY <1>1, <1>6 DEF Slots
    <2> QED BY <2>1, <2>2, <1>1, <1>2, <1>3, <1>6 DEF L, Slots
  <1> QED BY <1>1, <1>4, <1>5, <1>6

(* What clwait waits for: events asked for, among them the newest.         *)
LEMMA WaitedFor ==
  ASSUME IInv, NEW k \in Kinds
  PROVE  /\ EventsOf(lists[k]) \subseteq asked[k] \cup {Wild}
         /\ Clean(k) => EventsOf(lists[k]) \subseteq asked[k]
         /\ Clean(k) /\ asked[k] # {} =>
              \E e \in EventsOf(lists[k]) : \A d \in asked[k] : d <= e
PROOF
  <1>1. /\ SlotsOf(lists[k]) \subseteq {s \in Slots : s < lists[k].nev}
        /\ lists[k].nev > 0 =>
             (lists[k].ev_free + ListMax - 1) % ListMax \in SlotsOf(lists[k])
    BY SlotsInUse DEF IInv
  <1>2. \A s \in SlotsOf(lists[k]) :
          \/ lists[k].ev[s] \in asked[k]
          \/ ~Clean(k) /\ lists[k].ev[s] = Wild
    BY <1>1 DEF IInv, Filled
  <1>3. ASSUME Clean(k), asked[k] # {}
        PROVE  \E e \in EventsOf(lists[k]) : \A d \in asked[k] : d <= e
    <2>1. lists[k].nev > 0
      BY <1>3 DEF IInv, Filled
    <2>2. \A d \in asked[k] :
            d <= lists[k].ev[(lists[k].ev_free + ListMax - 1) % ListMax]
      BY <1>3 DEF IInv, NewestIsLast, Newest, Clean
    <2> QED BY <1>1, <2>1, <2>2 DEF EventsOf
  <1> QED BY <1>2, <1>3 DEF EventsOf

-----------------------------------------------------------------------------
(* The type of an event list.                                              *)
ListType == [nev : Nat, ev_first : {0}, ev_free : Slots,
             ev : [Slots -> Events \cup {Wild}]]

(* What Append makes of a list.                                            *)
LEMMA Appended ==
  ASSUME NEW L \in ListType, NEW e \in Events \cup {Wild}
  PROVE  /\ Append(L, e) \in ListType
         /\ Append(L, e).nev = L.nev + 1
         /\ Append(L, e).ev_free = (L.ev_free + 1) % ListMax
         /\ Append(L, e).ev = [L.ev EXCEPT ![L.ev_free] = e]
PROOF
  <1>1. (L.ev_free + 1) % ListMax \in Slots
    BY BeforeFree DEF ListType
  <1> QED BY <1>1 DEF ListType, Append

(* A list with one more event is filled as before, and the event is the    *)
(* one before its free slot.                                               *)
LEMMA AppendFills ==
  ASSUME NEW L \in ListType, NEW e \in Events \cup {Wild}, NEW A,
         L.nev < ListMax => L.ev_free = L.nev,
         \A s \in Slots : s < L.nev => L.ev[s] \in A,
         e \in A
  PROVE  LET M == Append(L, e) IN
         /\ M.nev > 0
         /\ M.nev < ListMax => M.ev_free = M.nev
         /\ \A s \in Slots : s < M.nev => M.ev[s] \in A
         /\ M.ev[(M.ev_free + ListMax - 1) % ListMax] = e
PROOF
  <1>1. /\ L.nev \in Nat /\ L.ev_free \in Slots
        /\ L.ev \in [Slots -> Events \cup {Wild}]
    BY DEF ListType
  <1>2. /\ Append(L, e).nev = L.nev + 1
        /\ Append(L, e).ev_free = (L.ev_free + 1) % ListMax
        /\ Append(L, e).ev = [L.ev EXCEPT ![L.ev_free] = e]
    BY Appended
  <1>3. ListMax \in Nat \ {0}
    BY ListMaxIsPositive
  <1>4. /\ (((L.ev_free + 1) % ListMax) + ListMax - 1) % ListMax = L.ev_free
        /\ L.ev_free + 1 < ListMax => (L.ev_free + 1) % ListMax = L.ev_free + 1
    BY <1>1, BeforeFree
  <1>5. \A s \in Slots : s < L.nev + 1 => [L.ev EXCEPT ![L.ev_free] = e][s] \in A
    <2> SUFFICES ASSUME NEW s \in Slots, s < L.nev + 1, s # L.ev_free
                 PROVE  s < L.nev
      BY <1>1
    <2> QED BY <1>1, <1>3 DEF Slots
  <1>6. L.nev + 1 < ListMax => (L.ev_free + 1) % ListMax = L.nev + 1
    BY <1>1, <1>3, <1>4 DEF Slots
  <1>7. [L.ev EXCEPT ![L.ev_free] = e][L.ev_free] = e
    BY <1>1
  <1> QED BY <1>1, <1>2, <1>4, <1>5, <1>6, <1>7

-----------------------------------------------------------------------------
(* Init establishes the invariant.                                         *)
LEMMA Initially == Init => IInv
PROOF
  <1> SUFFICES ASSUME Init PROVE IInv
    OBVIOUS
  <1>1. 0 \in Slots
    BY ListMaxIsPositive DEF Slots
  <1>2. TypeOK
    <2>1. [nev |-> 0, ev_first |-> 0, ev_free |-> 0,
           ev |-> [s \in Slots |-> Wild]] \in ListType
      BY <1>1 DEF ListType
    <2>2. refc \in [Events -> 0 .. RefsOfNew]
      BY RefsOfNewType DEF Init
    <2> QED BY <2>1, <2>2, MaxEventsIsNatural, ListMaxIsPositive
            DEF Init, TypeOK, ListType, Events, Kinds
  <1>3. Filled
    BY ListMaxIsPositive DEF Init, Filled, Kinds, Slots
  <1>4. NewestIsLast /\ Counted /\ Tainted /\ LostOver
    BY DEF Init, NewestIsLast, Counted, Tainted, LostOver, Kinds
  <1> QED BY <1>2, <1>3, <1>4 DEF IInv

(* The end of a call that enqueued its command.                            *)
LEMMA EnqueuedKeeps ==
  ASSUME IInv, NEW k \in Kinds, NEW mode, NEW release \in BOOLEAN,
         Enqueued(k, mode, release), host # "lost", host = "ok" \/ k = "mem",
         k = "kernel" => lists[k].nev # ListMax
  PROVE  IInv'
PROOF
  <1> DEFINE e == issued + 1
  <1>1. /\ issued \in 0 .. MaxEvents /\ ncomplete \in 0 .. issued
        /\ lists \in [Kinds -> ListType] /\ asked \in [Kinds -> SUBSET (1 .. issued)]
        /\ held \in SUBSET (1 .. issued) /\ refc \in [Events -> 0 .. RefsOfNew]
    BY DEF IInv, TypeOK, ListType
  <1>2. /\ e \in Events /\ issued' = e
        /\ \A d \in 1 .. issued : d \in Events /\ d # e /\ d <= e
    BY <1>1, MaxEventsIsNatural DEF Enqueued, Events
  <1>3. /\ refc' \in [Events -> 0 .. RefsOfNew]
        /\ \A d \in Events : d # e => refc'[d] = refc[d]
        /\ (held' = held \/ (held' = held \cup {e} /\ refc'[e] = RefsOfNew))
    BY <1>1, <1>2, RefsOfNewType DEF Enqueued
  <1>4. ncomplete' \in 0 .. issued'
    BY <1>1, <1>2 DEF Enqueued
  <1>5. UNCHANGED <<ocl, host>> /\ RefsOfNew' = RefsOfNew
    BY RefsOfNewStays DEF Enqueued
  <1>10. LostOver'
    BY <1>5 DEF LostOver
  <1>6. held' \in SUBSET (1 .. issued')
    <2>1. \A d \in held \cup {e} : d \in 1 .. e
      BY <1>1
    <2> QED BY <2>1, <1>2, <1>3
  <1>7. asked' \in [Kinds -> SUBSET (1 .. issued')]
    <2>1. CASE mode = "nowait"
      BY <2>1, <1>1, <1>2 DEF Enqueued
    <2>2. CASE mode # "nowait"
      BY <2>2, <1>1, <1>2 DEF Enqueued
    <2> QED BY <2>1, <2>2
  <1>8. CASE mode = "nowait"
    <2>1. /\ lists' = [lists EXCEPT ![k] = Append(lists[k], e)]
          /\ asked' = [asked EXCEPT ![k] = asked[k] \cup {e}]
      BY <1>8 DEF Enqueued
    <2>2. lists[k] \in ListType /\ e \in Events \cup {Wild}
      BY <1>1, <1>2
    <2>3. /\ lists[k].nev < ListMax => lists[k].ev_free = lists[k].nev
          /\ \A s \in Slots : s < lists[k].nev => lists[k].ev[s] \in asked[k] \cup {e}
      BY DEF IInv, Filled, Clean
    <2> DEFINE M == Append(lists[k], e)
    <2>4. /\ M.nev > 0
          /\ M.nev < ListMax => M.ev_free = M.nev
          /\ \A s \in Slots : s < M.nev => M.ev[s] \in asked[k] \cup {e}
          /\ M.ev[(M.ev_free + ListMax - 1) % ListMax] = e
      BY <2>2, <2>3, AppendFills
    <2>5. M \in ListType /\ M.nev = lists[k].nev + 1
      BY <2>2, Appended
    <2> HIDE DEF M
    <2>6. /\ lists' \in [Kinds -> ListType] /\ lists'[k] = M
          /\ \A j \in Kinds \ {k} : lists'[j] = lists[j] /\ asked'[j] = asked[j]
          /\ asked'[k] = asked[k] \cup {e}
      BY <2>1, <2>5, <1>1 DEF M
    <2>7. Filled'
      <3> SUFFICES ASSUME NEW j \in Kinds
                   PROVE  /\ lists'[j].nev < ListMax => lists'[j].ev_free = lists'[j].nev
                          /\ lists'[j].nev > 0 \/ asked'[j] = {}
                          /\ \A s \in Slots : s < lists'[j].nev =>
                               \/ lists'[j].ev[s] \in asked'[j]
                               \/ ~Clean(j) /\ lists'[j].ev[s] = Wild
        BY <1>5 DEF Filled, Clean
      <3>1. CASE j = k
        BY <3>1, <2>4, <2>6
      <3>2. CASE j # k
        BY <3>2, <2>6 DEF IInv, Filled
      <3> QED BY <3>1, <3>2
    <2>8. NewestIsLast'
      <3> SUFFICES ASSUME NEW j \in Kinds, asked'[j] # {}, host = "ok" \/ j = "mem"
                   PROVE  LET f == lists'[j].ev[(lists'[j].ev_free + ListMax - 1) % ListMax]
                          IN  f \in asked'[j] /\ \A d \in asked'[j] : d <= f
        BY <1>5 DEF NewestIsLast, Newest
      <3>1. CASE j = k
        BY <3>1, <2>4, <2>6, <1>1, <1>2
      <3>2. CASE j # k
        BY <3>2, <2>6 DEF IInv, NewestIsLast, Newest
      <3> QED BY <3>1, <3>2
    <2>9. Counted'
      <3>1. refc'[e] = RefsOfNew
        BY <1>8, <1>1, <1>2 DEF Enqueued
      <3>2. e \notin asked["kernel"] /\ e \notin asked["mem"] /\ e \notin held
        BY <1>1, <1>2 DEF Kinds
      <3>3. asked'["kernel"] \cap asked'["mem"] = {}
        BY <2>6, <3>2 DEF IInv, Counted, Kinds
      <3>4. \A d \in held' : refc'[d] = RefsOfNew
        BY <1>1, <1>2, <1>3, <3>1 DEF IInv, Counted
      <3>5. ASSUME ocl = "coprthr"
            PROVE  \A j \in Kinds : \A d \in asked'[j] : refc'[d] > 0
        BY <2>6, <1>1, <1>2, <1>3, <3>1, <3>5, RefsOfNewType DEF IInv, Counted
      <3> QED BY <3>3, <3>4, <3>5, <1>5 DEF Counted
    <2>10. TypeOK'
      <3>1. lists'["kernel"].nev <= ListMax
        <4>1. CASE k = "kernel"
          BY <4>1, <2>5, <2>6, <1>1, ListMaxIsPositive DEF IInv, TypeOK, ListType
        <4>2. CASE k = "mem"
          BY <4>2, <2>6 DEF IInv, TypeOK, Kinds
        <4> QED BY <4>1, <4>2 DEF Kinds
      <3> QED BY <3>1, <2>6, <1>2, <1>3, <1>4, <1>5, <1>6, <1>7, MaxEventsIsNatural
              DEF IInv, TypeOK, ListType, Events
    <2>11. Tainted'
      <3>1. CASE k = "kernel"
        BY <3>1, <1>5 DEF Tainted
      <3>2. CASE k = "mem"
        BY <3>2, <1>5, <2>6 DEF IInv, Tainted, Kinds
      <3> QED BY <3>1, <3>2 DEF Kinds
    <2> QED BY <2>7, <2>8, <2>9, <2>10, <2>11, <1>10 DEF IInv
  <1>9. CASE mode # "nowait"
    <2>1. UNCHANGED <<lists, asked>>
      BY <1>9 DEF Enqueued
    <2>2. TypeOK'
      BY <2>1, <1>2, <1>3, <1>4, <1>5, <1>6, <1>7, MaxEventsIsNatural
      DEF IInv, TypeOK, Events
    <2>3. Filled' /\ NewestIsLast' /\ Tainted'
      BY <2>1, <1>5 DEF IInv, Filled, NewestIsLast, Newest, Clean, Tainted
    <2>4. Counted'
      BY <2>1, <1>1, <1>2, <1>3, <1>5 DEF IInv, Counted
    <2> QED BY <2>2, <2>3, <2>4, <1>10 DEF IInv
  <1> QED BY <1>8, <1>9

(* clfork after a refused enqueue: only the kernel list and `host' change, *)
(* and no promise is made of an uninitialised event.                       *)
LEMMA RefusedKeeps ==
  ASSUME IInv, NEW mode, Refused(mode), lists["kernel"].nev # ListMax,
         ocl = "coprthr"
  PROVE  IInv'
PROOF
  <1>1. UNCHANGED <<ocl, issued, ncomplete, refc, held, asked>> /\ RefsOfNew' = RefsOfNew
    BY RefsOfNewStays DEF Refused
  <1>2. Counted' /\ LostOver'
    BY <1>1 DEF IInv, Counted, LostOver
  <1>3. CASE mode = "nowait"
    <2> DEFINE L == lists["kernel"]
    <2> DEFINE M == Append(L, Wild)
    <2>1. /\ host' = "tainted" /\ lists' = [lists EXCEPT !["kernel"] = M]
      BY <1>3 DEF Refused
    <2>2. /\ lists \in [Kinds -> ListType] /\ L \in ListType
          /\ L.nev <= ListMax
      BY DEF IInv, TypeOK, ListType, Kinds
    <2>3. M \in ListType /\ M.nev = L.nev + 1
      BY <2>2, Appended
    <2>4. /\ M.nev < ListMax => M.ev_free = M.nev
          /\ \A s \in Slots : s < M.nev => M.ev[s] \in asked["kernel"] \cup {Wild}
      <3>1. /\ L.nev < ListMax => L.ev_free = L.nev
            /\ \A s \in Slots : s < L.nev => L.ev[s] \in asked["kernel"] \cup {Wild}
        BY DEF IInv, Filled, Kinds
      <3>2. Wild \in Events \cup {Wild} /\ Wild \in asked["kernel"] \cup {Wild}
        OBVIOUS
      <3> QED BY <2>2, <3>1, <3>2, AppendFills
    <2> HIDE DEF M
    <2>5. /\ lists'["kernel"] = M /\ lists'["mem"] = lists["mem"]
          /\ lists' \in [Kinds -> ListType]
      BY <2>1, <2>2, <2>3 DEF Kinds
    <2>6. TypeOK'
      <3>1. lists'["kernel"].nev <= ListMax
        <4>1. L.nev \in Nat /\ L.nev + 1 <= ListMax
          BY <2>2, ListMaxIsPositive DEF ListType
        <4> QED BY <4>1, <2>3, <2>5
      <3> QED BY <3>1, <1>1, <2>1, <2>5 DEF IInv, TypeOK, ListType
    <2>7. Filled'
      <3>1. M.nev > 0
        BY <2>2, <2>3 DEF ListType
      <3> SUFFICES ASSUME NEW j \in Kinds
                   PROVE  /\ lists'[j].nev < ListMax => lists'[j].ev_free = lists'[j].nev
                          /\ lists'[j].nev > 0 \/ asked'[j] = {}
                          /\ \A s \in Slots : s < lists'[j].nev =>
                               \/ lists'[j].ev[s] \in asked'[j]
                               \/ ~Clean(j)' /\ lists'[j].ev[s] = Wild
        BY DEF Filled
      <3>2. CASE j = "kernel"
        <4>1. ~Clean(j)'
          BY <3>2, <2>1 DEF Clean
        <4> QED BY <3>1, <3>2, <4>1, <2>4, <2>5, <1>1
      <3>3. CASE j = "mem"
        BY <3>3, <2>5, <1>1 DEF IInv, Filled, Clean
      <3> QED BY <3>2, <3>3 DEF Kinds
    <2>8. NewestIsLast'
      BY <2>1, <2>5, <1>1 DEF IInv, NewestIsLast, Newest, Kinds
    <2>9. Tainted'
      BY <1>1, <2>2, <2>3, <2>5 DEF Tainted, ListType
    <2> QED BY <2>6, <2>7, <2>8, <2>9, <1>2 DEF IInv
  <1>4. CASE mode # "nowait"
    <2>1. lists' = lists /\ (host' = host \/ host' = "lost")
      BY <1>4 DEF Refused
    <2>2. TypeOK'
      BY <2>1, <1>1 DEF IInv, TypeOK
    <2>3. Filled' /\ NewestIsLast' /\ Tainted'
      BY <2>1, <1>1 DEF IInv, Filled, NewestIsLast, Newest, Clean, Tainted
    <2> QED BY <2>2, <2>3, <1>2 DEF IInv
  <1> QED BY <1>3, <1>4

(* A wait takes completions to the last event waited for, or leaves them.  *)
LEMMA WaitForType ==
  ASSUME TypeOK, NEW W \in SUBSET (1 .. issued), WaitFor(W)
  PROVE  /\ ncomplete' \in 0 .. issued
         /\ \A e \in W : e <= ncomplete'
BY DEF TypeOK, WaitFor

(* A release takes one reference from each of its events.                  *)
LEMMA ReleaseType ==
  ASSUME TypeOK, NEW W \in SUBSET (1 .. issued), Release(W),
         \A e \in W : refc[e] > 0
  PROVE  /\ refc' \in [Events -> 0 .. RefsOfNew]
         /\ \A e \in W : refc'[e] = refc[e] - 1
         /\ \A e \in Events \ W : refc'[e] = refc[e]
         /\ held' = held \ W
PROOF
  <1>1. issued \in 0 .. MaxEvents /\ refc \in [Events -> 0 .. RefsOfNew]
    BY DEF TypeOK
  <1>2. W \subseteq Events
    BY <1>1, MaxEventsIsNatural DEF Events
  <1> QED BY <1>1, <1>2, RefsOfNewType DEF Release

(* A host that is lost changes nothing any more; with another OpenCL it    *)
(* was a freed event that it used.                                         *)
LEMMA LostKeeps ==
  ASSUME IInv, host' = "lost",
         UNCHANGED <<ocl, lists, issued, ncomplete, refc, held, asked>>,
         \/ ocl = "coprthr"
         \/ \E k \in Kinds : \E e \in EventsOf(lists[k]) : e # Wild /\ refc[e] = 0
  PROVE  IInv'
PROOF
  <1>1. RefsOfNew' = RefsOfNew
    BY RefsOfNewStays
  <1>2. TypeOK' /\ Counted'
    BY <1>1 DEF IInv, TypeOK, Counted
  <1>3. Filled' /\ NewestIsLast' /\ Tainted'
    BY DEF IInv, Filled, NewestIsLast, Newest, Clean, Tainted
  <1>4. LostOver'
    BY DEF LostOver, EventsOf, SlotsOf
  <1> QED BY <1>2, <1>3, <1>4 DEF IInv

(* clwait: the lists it empties promise nothing more, and what it releases *)
(* was asked for in one of them only.                                      *)
LEMMA ClWaitKeeps ==
  ASSUME IInv, NEW ks \in SUBSET Kinds, NEW release \in BOOLEAN,
         ClWait(ks, release)
  PROVE  IInv'
PROOF
  <1> DEFINE W == UNION {EventsOf(lists[k]) : k \in ks}
  <1>1. CASE (host = "tainted" /\ "kernel" \in ks) \/ Stale(W)
    <2>1. host' = "lost" /\ UNCHANGED <<ocl, issued, lists, ncomplete, refc, held, asked>>
      BY <1>1 DEF ClWait
    <2>2. CASE host = "tainted" /\ "kernel" \in ks
      <3>1. ocl = "coprthr"
        BY <2>2 DEF IInv, Tainted
      <3> QED BY <2>1, <3>1, LostKeeps
    <2>3. CASE ~(host = "tainted" /\ "kernel" \in ks)
      <3>1. \A j \in ks : Clean(j)
        BY <2>3 DEF ClWait, Clean, Kinds, IInv, TypeOK
      <3>2. PICK j \in ks : \E e \in EventsOf(lists[j]) : refc[e] = 0
        BY <1>1, <2>3 DEF Stale
      <3>3. EventsOf(lists[j]) \subseteq 1 .. issued
        <4>1. j \in Kinds /\ Clean(j)
          BY <3>1
        <4>2. EventsOf(lists[j]) \subseteq asked[j]
          BY <4>1, WaitedFor
        <4> QED BY <4>1, <4>2 DEF IInv, TypeOK
      <3>4. \E k \in Kinds : \E e \in EventsOf(lists[k]) : e # Wild /\ refc[e] = 0
        <4>1. j \in Kinds /\ 0 \notin EventsOf(lists[j])
          BY <3>3 DEF IInv, TypeOK
        <4> QED BY <4>1, <3>2 DEF Wild
      <3> QED BY <2>1, <3>4, LostKeeps
    <2> QED BY <2>2, <2>3
  <1>2. CASE ~((host = "tainted" /\ "kernel" \in ks) \/ Stale(W))
    <2>1. /\ WaitFor(W)
          /\ IF release THEN Release(W) ELSE UNCHANGED <<refc, held>>
          /\ lists' = [k \in Kinds |-> IF k \in ks /\ lists[k].nev > 0
               THEN Emptied(lists[k])
               ELSE lists[k]]
          /\ asked' = [k \in Kinds |-> IF k \in ks THEN {} ELSE asked[k]]
          /\ UNCHANGED <<ocl, host, issued>>
      BY <1>2 DEF ClWait
    <2>16. RefsOfNew' = RefsOfNew /\ LostOver'
      BY <2>1, RefsOfNewStays DEF ClWait, LostOver
    <2>2. \A k \in ks : Clean(k)
      <3>1. host \in {"ok", "tainted"}
        BY DEF ClWait, IInv, TypeOK
      <3> QED BY <3>1, <1>2 DEF Clean, Kinds
    <2>3. \A w \in W : \E k \in ks : w \in asked[k]
      BY <2>2, WaitedFor
    <2>4. W \in SUBSET (1 .. issued) /\ \A w \in W : refc[w] > 0
      <3>1. W \in SUBSET (1 .. issued)
        BY <2>3 DEF IInv, TypeOK
      <3>2. ~Stale(W)
        BY <1>2
      <3> HIDE DEF W
      <3>3. \A w \in W : w \in Events
        <4>1. issued \in 0 .. MaxEvents
          BY DEF IInv, TypeOK
        <4> QED BY <3>1, <4>1, MaxEventsIsNatural DEF Events
      <3>4. \A w \in W : refc[w] # 0
        BY <3>2 DEF Stale
      <3> QED BY <3>1, <3>3, <3>4, RefsOfNewType DEF IInv, TypeOK
    <2> HIDE DEF W
    <2>5. ncomplete' \in 0 .. issued
      BY <2>1, <2>4, WaitForType DEF IInv
    <2>6. /\ refc' \in [Events -> 0 .. RefsOfNew]
          /\ held' \subseteq held
          /\ \A e \in Events : refc'[e] # refc[e] => e \in W /\ e \notin held'
      <3>1. CASE release
        <4>1. Release(W)
          BY <2>1, <3>1
        <4>2. /\ refc' \in [Events -> 0 .. RefsOfNew]
              /\ \A e \in Events \ W : refc'[e] = refc[e]
              /\ held' = held \ W
          BY <2>4, <4>1, ReleaseType DEF IInv
        <4> QED BY <4>2
      <3>2. CASE ~release
        BY <2>1, <3>2 DEF IInv, TypeOK
      <3> QED BY <3>1, <3>2
    <2>7. \A k \in Kinds : /\ k \in ks => asked'[k] = {}
                           /\ k \notin ks => asked'[k] = asked[k]
      BY <2>1
    <2>8. /\ issued \in 0 .. MaxEvents /\ held \subseteq 1 .. issued
          /\ asked \in [Kinds -> SUBSET (1 .. issued)]
          /\ 1 .. issued \subseteq Events
      BY MaxEventsIsNatural DEF IInv, TypeOK, Events
    <2>9. Counted'
      <3>1. asked'["kernel"] \cap asked'["mem"] = {}
        BY <2>7 DEF IInv, Counted, Kinds
      <3>2. \A e \in held' : refc'[e] = RefsOfNew
        BY <2>6, <2>8 DEF IInv, Counted
      <3>3. ASSUME ocl = "coprthr", NEW k \in Kinds, NEW e \in asked'[k]
            PROVE  refc'[e] > 0
        <4>1. k \notin ks /\ e \in asked[k] /\ e \in Events
          BY <3>3, <2>7, <2>8
        <4>2. e \notin W
          <5>1. \A j \in ks : j # k
            BY <4>1
          <5>2. \A j \in ks : e \notin asked[j]
            BY <4>1, <5>1 DEF IInv, Counted, Kinds
          <5> QED BY <5>2, <2>3
        <4> QED BY <3>3, <4>1, <4>2, <2>6 DEF IInv, Counted
      <3> QED BY <3>1, <3>2, <3>3, <2>1, <2>16 DEF Counted
    <2>10. lists \in [Kinds -> ListType] /\ 0 \in Slots
      BY ListMaxIsPositive DEF IInv, TypeOK, ListType, Slots
    <2>11. \A k \in Kinds :
             /\ lists'[k] \in ListType
             /\ lists'[k] = lists[k] \/ (lists'[k].nev = 0 /\ lists'[k].ev_free = 0)
             /\ k \notin ks => lists'[k] = lists[k]
             /\ k \in ks => lists'[k].nev = 0 /\ lists'[k].ev_free = 0
      <3> SUFFICES ASSUME NEW k \in Kinds
                   PROVE  /\ lists'[k] \in ListType
                          /\ k \notin ks => lists'[k] = lists[k]
                          /\ k \in ks => lists'[k].nev = 0 /\ lists'[k].ev_free = 0
        OBVIOUS
      <3>1. lists[k] \in ListType
        BY <2>10
      <3>2. CASE k \in ks /\ lists[k].nev > 0
        <4>1. lists'[k] = Emptied(lists[k])
          BY <2>1, <3>2
        <4> QED BY <4>1, <3>1, <3>2, <2>10 DEF ListType, Emptied
      <3>3. CASE ~(k \in ks /\ lists[k].nev > 0)
        <4>1. lists'[k] = lists[k]
          BY <2>1, <3>3
        <4>2. k \in ks => lists[k].nev = 0
          BY <3>1, <3>3 DEF ListType
        <4>3. lists[k].nev = 0 => lists[k].ev_free = 0
          BY ListMaxIsPositive DEF IInv, Filled
        <4> QED BY <4>1, <4>2, <4>3, <3>1
      <3> QED BY <3>2, <3>3
    <2>12. Filled'
      <3> SUFFICES ASSUME NEW j \in Kinds
                   PROVE  /\ lists'[j].nev < ListMax => lists'[j].ev_free = lists'[j].nev
                          /\ lists'[j].nev > 0 \/ asked'[j] = {}
                          /\ \A s \in Slots : s < lists'[j].nev =>
                               \/ lists'[j].ev[s] \in asked'[j]
                               \/ ~Clean(j) /\ lists'[j].ev[s] = Wild
        BY <2>1 DEF Filled, Clean
      <3>1. CASE j \in ks
        BY <3>1, <2>7, <2>11, ListMaxIsPositive DEF Slots
      <3>2. CASE j \notin ks
        BY <3>2, <2>7, <2>11 DEF IInv, Filled
      <3> QED BY <3>1, <3>2
    <2>13. NewestIsLast'
      BY <2>1, <2>7, <2>11 DEF IInv, NewestIsLast, Newest
    <2>14. TypeOK'
      <3>1. lists' \in [Kinds -> ListType]
        <4>1. lists' = [k \in Kinds |-> lists'[k]]
          BY <2>1
        <4> QED BY <4>1, <2>11
      <3>2. lists'["kernel"].nev <= ListMax
        BY <2>11, ListMaxIsPositive DEF IInv, TypeOK, Kinds
      <3>3. asked' \in [Kinds -> SUBSET (1 .. issued)]
        BY <2>1, <2>8
      <3> QED BY <3>1, <3>2, <3>3, <2>1, <2>5, <2>6, <2>8, <2>16
              DEF IInv, TypeOK, ListType
    <2>15. Tainted'
      BY <2>1, <2>11, <1>2 DEF IInv, Tainted, Kinds
    <2> QED BY <2>9, <2>12, <2>13, <2>14, <2>15, <2>16 DEF IInv
  <1> QED BY <1>1, <1>2

(* The event that clwaitev or the host releases is one the host holds; the *)
(* library of this repository still has its reference.                     *)
LEMMA HeldReleased ==
  ASSUME IInv, NEW e \in held, Release({e}) \/ UNCHANGED <<refc, held>>
  PROVE  /\ refc' \in [Events -> 0 .. RefsOfNew]
         /\ held' \in SUBSET (1 .. issued)
         /\ \A d \in held' : refc'[d] = RefsOfNew
         /\ ocl = "coprthr" => \A d \in Events : refc[d] > 0 => refc'[d] > 0
PROOF
  <1>1. /\ refc \in [Events -> 0 .. RefsOfNew] /\ held \in SUBSET (1 .. issued)
        /\ 1 .. issued \subseteq Events /\ \A d \in held : refc[d] = RefsOfNew
    BY MaxEventsIsNatural DEF IInv, TypeOK, Counted, Events
  <1>2. CASE Release({e})
    <2>1. /\ refc' \in [Events -> 0 .. RefsOfNew]
          /\ refc'[e] = refc[e] - 1
          /\ \A d \in Events \ {e} : refc'[d] = refc[d]
          /\ held' = held \ {e}
      <3>1. {e} \in SUBSET (1 .. issued) /\ \A d \in {e} : refc[d] > 0
        BY <1>1, RefsOfNewType
      <3> QED BY <3>1, <1>2, ReleaseType DEF IInv
    <2>2. ocl = "coprthr" => refc[e] = 2
      BY <1>1, RefsOfNewType
    <2> QED BY <2>1, <2>2, <1>1
  <1>3. CASE UNCHANGED <<refc, held>>
    BY <1>3, <1>1
  <1> QED BY <1>2, <1>3

(* Such a release leaves the invariant alone, with or without a wait.      *)
LEMMA ReleaseKeeps ==
  ASSUME IInv, NEW e \in held, Release({e}) \/ UNCHANGED <<refc, held>>,
         WaitFor({e}) \/ UNCHANGED ncomplete,
         host # "lost", UNCHANGED <<ocl, host, lists, issued, asked>>
  PROVE  IInv'
PROOF
  <1>1. /\ refc' \in [Events -> 0 .. RefsOfNew]
        /\ held' \in SUBSET (1 .. issued)
        /\ \A d \in held' : refc'[d] = RefsOfNew
        /\ ocl = "coprthr" => \A d \in Events : refc[d] > 0 => refc'[d] > 0
    BY HeldReleased
  <1>6. RefsOfNew' = RefsOfNew /\ LostOver'
    BY RefsOfNewStays DEF LostOver
  <1>2. ncomplete' \in 0 .. issued
    <2>1. {e} \in SUBSET (1 .. issued)
      BY DEF IInv, TypeOK
    <2> QED BY <2>1, WaitForType DEF IInv, TypeOK
  <1>3. TypeOK'
    BY <1>1, <1>2, <1>6 DEF IInv, TypeOK
  <1>4. Filled' /\ NewestIsLast' /\ Tainted'
    BY DEF IInv, Filled, NewestIsLast, Newest, Clean, Tainted
  <1>5. Counted'
    <2>1. \A k \in Kinds : asked[k] \subseteq Events
      BY MaxEventsIsNatural DEF IInv, TypeOK, Events
    <2> QED BY <2>1, <1>1, <1>6 DEF IInv, Counted
  <1> QED BY <1>3, <1>4, <1>5, <1>6 DEF IInv

(* Every step keeps the invariant.                                         *)
LEMMA StepKeeps == IInv /\ [Next]_vars => IInv'
PROOF
  <1> SUFFICES ASSUME IInv, [Next]_vars PROVE IInv'
    OBVIOUS
  <1>1. ASSUME NEW mode \in {"nowait", "wait", "none"}, NEW release \in BOOLEAN,
               ClFork(mode, release)
        PROVE  IInv'
    <2> DEFINE L == lists["kernel"]
               waitlist == L.ev_first # L.ev_free
               gone == host = "tainted" \/ Stale({Newest(L)})
    <2>1. host # "lost" /\ L.nev # ListMax
      BY <1>1 DEF ClFork
    <2>2. waitlist <=> L.nev > 0
      <3>1. /\ L.nev \in Nat /\ L.ev_first = 0 /\ L.nev <= ListMax
            /\ L.nev < ListMax => L.ev_free = L.nev
        BY DEF IInv, TypeOK, Filled, Kinds
      <3> QED BY <2>1, <3>1, ListMaxIsPositive
    <2>3. CASE waitlist /\ gone
      <3>1. host' = "lost" /\ UNCHANGED <<ocl, lists, issued, ncomplete, refc, held, asked>>
        BY <1>1, <2>3 DEF ClFork
      <3>2. CASE host = "tainted"
        BY <3>1, <3>2, LostKeeps DEF IInv, Tainted
      <3>3. CASE host # "tainted"
        <4>1. Newest(L) \in EventsOf(L) /\ refc[Newest(L)] = 0
          <5>1. (L.ev_free + ListMax - 1) % ListMax \in SlotsOf(L)
            BY <2>2, <2>3, SlotsInUse DEF IInv, Kinds
          <5> QED BY <5>1, <2>3, <3>3 DEF Newest, EventsOf, Stale
        <4>2. EventsOf(L) \subseteq asked["kernel"]
          BY <2>1, <3>3, WaitedFor DEF Clean, IInv, TypeOK, Kinds
        <4>3. Newest(L) # Wild
          BY <4>1, <4>2 DEF IInv, TypeOK, Kinds, Wild
        <4> QED BY <3>1, <4>1, <4>3, LostKeeps DEF Kinds
      <3> QED BY <3>2, <3>3
    <2>4. CASE waitlist /\ ~gone /\ ocl = "coprthr"
      BY <1>1, <2>1, <2>4, RefusedKeeps DEF ClFork
    <2>5. CASE ~(waitlist /\ gone) /\ ~(waitlist /\ ocl = "coprthr")
      <3>1. Enqueued("kernel", mode, release)
        BY <1>1, <2>5 DEF ClFork
      <3>2. host = "ok"
        BY <2>1, <2>2, <2>5 DEF IInv, TypeOK, Tainted
      <3> QED BY <2>1, <3>1, <3>2, EnqueuedKeeps DEF Kinds
    <2> QED BY <2>3, <2>4, <2>5
  <1>2. ASSUME NEW mode \in {"nowait", "wait"}, NEW release \in BOOLEAN,
               ClMSync(mode, release)
        PROVE  IInv'
    BY <1>2, EnqueuedKeeps DEF ClMSync, Kinds
  <1>3. ASSUME NEW ks \in (SUBSET Kinds) \ {{}}, NEW release \in BOOLEAN,
               ClWait(ks, release)
        PROVE  IInv'
    BY <1>3, ClWaitKeeps
  <1>4. ASSUME NEW e \in Events, NEW release \in BOOLEAN, ClWaitEv(e, release)
        PROVE  IInv'
    BY <1>4, ReleaseKeeps DEF ClWaitEv
  <1>5. ASSUME NEW e \in Events, ClReleaseEvent(e)
        PROVE  IInv'
    BY <1>5, ReleaseKeeps DEF ClReleaseEvent
  <1>6. CASE Complete
    <2>1. TypeOK'
      BY <1>6, RefsOfNewStays DEF Complete, IInv, TypeOK
    <2> QED BY <2>1, <1>6
            DEF Complete, IInv, Filled, NewestIsLast, Newest, Counted, Clean, Tainted,
                LostOver, RefsOfNew, EventsOf, SlotsOf
  <1>7. CASE UNCHANGED vars
    BY <1>7 DEF vars, IInv, TypeOK, Filled, NewestIsLast, Newest, Counted, Clean, Tainted,
                LostOver, RefsOfNew, EventsOf, SlotsOf
  <1> QED BY <1>1, <1>2, <1>3, <1>4, <1>5, <1>6, <1>7 DEF Next

-----------------------------------------------------------------------------
(* The invariant of the event lists of clsched.c and clmalloc.c, for any   *)
(* STDCL_EVENTLIST_MAX and any number of commands.                         *)
THEOREM EventListsInductive == Spec => []IInv
BY Initially, StepKeeps, PTL DEF Spec

(* Types of the lists, counts and handles; a list of kernels is not        *)
(* overfull.                                                               *)
THEOREM EventListTypes == Spec => []TypeOK
PROOF
  <1>1. IInv => TypeOK
    BY DEF IInv
  <1> QED BY <1>1, EventListsInductive, PTL

(* The wait list of a clfork is the newest kernel nobody has waited for.   *)
THEOREM KernelsFormAChain == Spec => []NewestIsLast
PROOF
  <1>1. IInv => NewestIsLast
    BY DEF IInv
  <1> QED BY <1>1, EventListsInductive, PTL

(* Which events are used freed: none with the OpenCL of this repository;   *)
(* with another, those that clwaitev released in their list.  The host has *)
(* the handle of no freed event with either.                               *)
THEOREM FreedWhileListed == Spec => []FreedByClWaitEv
PROOF
  <1> DEFINE freed == {e \in UNION {EventsOf(lists[k]) : k \in Kinds} :
                         e # Wild /\ refc[e] = 0}
  <1>1. ASSUME IInv PROVE \A e \in held : refc[e] > 0
    BY <1>1, RefsOfNewType DEF IInv, Counted
  <1>2. ASSUME IInv, freed # {} PROVE ocl = "other"
    <2>1. PICK k \in Kinds : \E e \in EventsOf(lists[k]) : e # Wild /\ refc[e] = 0
      BY <1>2
    <2>2. PICK e \in EventsOf(lists[k]) : e # Wild /\ refc[e] = 0
      BY <2>1
    <2>3. e \in asked[k]
      BY <1>2, <2>2, WaitedFor
    <2>4. ocl # "coprthr"
      BY <1>2, <2>2, <2>3 DEF IInv, Counted
    <2> QED BY <1>2, <2>4, LibrariesAreModelled DEF IInv, TypeOK
  <1>3. ASSUME IInv, ocl = "other", host = "lost" PROVE freed # {}
    BY <1>3 DEF IInv, LostOver
  <1>4. IInv => FreedByClWaitEv
    BY <1>1, <1>2, <1>3 DEF FreedByClWaitEv
  <1> QED BY <1>4, EventListsInductive, PTL

(* A step that forgets what was asked for in a list is a clwait on it, and *)
(* it has waited for the newest.                                           *)
LEMMA StepCovers ==
  ASSUME IInv, [Next]_vars, NEW k \in Kinds, asked'[k] = {}
  PROVE  \A e \in asked[k] : e <= ncomplete'
PROOF
  <1>1. ASSUME NEW ks \in (SUBSET Kinds) \ {{}}, NEW release \in BOOLEAN,
               ClWait(ks, release), asked[k] # {}
        PROVE  \A e \in asked[k] : e <= ncomplete'
    <2> DEFINE W == UNION {EventsOf(lists[j]) : j \in ks}
    <2>1. ~(host = "tainted" /\ "kernel" \in ks) /\ ~Stale(W)
      BY <1>1 DEF ClWait
    <2>2. WaitFor(W) /\ k \in ks
      BY <1>1, <2>1 DEF ClWait
    <2>3. \A j \in ks : Clean(j)
      BY <1>1, <2>1 DEF ClWait, Clean, Kinds, IInv, TypeOK
    <2>4. W \in SUBSET (1 .. issued)
      <3>1. \A j \in ks : EventsOf(lists[j]) \subseteq asked[j]
        BY <2>3, WaitedFor
      <3> QED BY <3>1 DEF IInv, TypeOK
    <2>5. PICK w \in EventsOf(lists[k]) : \A d \in asked[k] : d <= w
      BY <1>1, <2>2, <2>3, WaitedFor
    <2>6. w \in W
      BY <2>2, <2>5
    <2> HIDE DEF W
    <2>7. w <= ncomplete' /\ ncomplete' \in Nat /\ w \in Nat
      <3>1. ncomplete' \in 0 .. issued /\ \A e \in W : e <= ncomplete'
        BY <2>2, <2>4, WaitForType DEF IInv
      <3>2. w \in 1 .. issued
        BY <2>4, <2>6
      <3> QED BY <3>1, <3>2, <2>6 DEF IInv, TypeOK
    <2>8. asked[k] \subseteq Nat
      BY DEF IInv, TypeOK
    <2> QED BY <2>5, <2>7, <2>8
  <1>2. ASSUME NEW mode, NEW release, NEW j \in Kinds, Enqueued(j, mode, release)
        PROVE  asked[k] = {}
    <2>1. CASE mode = "nowait"
      <3>1. asked' = [asked EXCEPT ![j] = asked[j] \cup {issued + 1}]
        BY <1>2, <2>1 DEF Enqueued
      <3>2. asked'[k] = asked[k] \/ issued + 1 \in asked'[k]
        BY <3>1 DEF IInv, TypeOK
      <3> QED BY <3>2
    <2>2. CASE mode # "nowait"
      BY <1>2, <2>2 DEF Enqueued
    <2> QED BY <2>1, <2>2
  <1>3. ASSUME NEW mode, NEW release, ClFork(mode, release)
        PROVE  asked[k] = {}
    <2>1. CASE Enqueued("kernel", mode, release)
      BY <2>1, <1>2 DEF Kinds
    <2>2. CASE ~Enqueued("kernel", mode, release)
      BY <2>2, <1>3 DEF ClFork, Refused
    <2> QED BY <2>1, <2>2
  <1>4. ASSUME NEW mode, NEW release, ClMSync(mode, release)
        PROVE  asked[k] = {}
    BY <1>4, <1>2 DEF ClMSync, Kinds
  <1>5. CASE UNCHANGED asked
    BY <1>5
  <1> QED BY <1>1, <1>3, <1>4, <1>5
          DEF Next, ClWaitEv, ClReleaseEvent, Complete, vars

(* When clwait returns, every command listed for it since the clwait       *)
(* before is complete, whatever the list has lost.                         *)
THEOREM ClWaitWaitsForAll == Spec => ClWaitCoversAll
PROOF
  <1>1. IInv /\ [Next]_vars =>
          [\A k \in Kinds : asked'[k] = {} => \A e \in asked[k] : e <= ncomplete']_vars
    BY StepCovers
  <1> QED BY <1>1, EventListsInductive, PTL DEF Spec, ClWaitCoversAll
=============================================================================
