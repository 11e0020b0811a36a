----------------------------- MODULE StdclEvents ------------------------------
(***************************************************************************)
(* The event lists of one device of a STDCL context (clsched.c, and the    *)
(* tails of clmsync, clmcopy and clglmsync in clmalloc.c), and the         *)
(* reference counts of the OpenCL events listed in them.  One host thread  *)
(* uses the context, as libstdcl assumes.                                  *)
(*                                                                         *)
(* libstdcl runs on any OpenCL.  "coprthr" is the one of this repository:  *)
(* an enqueue returns when its command is complete (FORCE_BLOCKING),       *)
(* refuses a wait list, for no event is ever given a context, and keeps a  *)
(* reference of its own to each event.  "other" is an OpenCL with an       *)
(* in-order queue that does what its calls promise and gives the caller    *)
(* the one reference to an event; of both, libstdcl sees events that       *)
(* complete in the order of the enqueues.                                  *)
(*                                                                         *)
(* Left out: which memory a transfer touches, hence the calls that return  *)
(* early for a bad pointer or (CL_MEM_NOFORCE) an up-to-date copy, which   *)
(* change no list.                                                         *)
(***************************************************************************)
EXTENDS Integers, FiniteSets

CONSTANTS
  ListMax,    \* STDCL_EVENTLIST_MAX
  MaxEvents,  \* bound: commands enqueued
  Libraries   \* the OpenCLs considered

ASSUME ListMaxIsPositive    == ListMax \in Nat \ {0}
ASSUME MaxEventsIsNatural   == MaxEvents \in Nat
ASSUME LibrariesAreModelled == Libraries \subseteq {"coprthr", "other"}

VARIABLES
  ocl,        \* the OpenCL in use
  host,       \* "ok"; "tainted": an uninitialised cl_event is listed;
              \* "lost": such an event, or one that is freed, was passed to
              \* a call of OpenCL, and what follows is undefined
  lists,      \* lists[k]: cp->kev[devnum] ("kernel") and cp->mev[devnum]
  issued,     \* commands enqueued, each with an event, numbered from 1
  ncomplete,  \* those complete, the first ones: the queue is in order
  refc,       \* refc[e]: reference count of e, 0 when it is freed
  held,       \* history: handles the host was given and has not released
  asked       \* history: asked[k], events listed since the last clwait for k

vars == <<ocl, host, lists, issued, ncomplete, refc, held, asked>>

Kinds  == {"kernel", "mem"}
Events == 1 .. MaxEvents
Wild   == 0    \* the uninitialised cl_event a refused enqueue leaves
Slots  == 0 .. ListMax - 1

Init ==
  /\ ocl \in Libraries
  /\ host = "ok"
  /\ lists = [k \in Kinds |->
       [nev |-> 0, ev_first |-> 0, ev_free |-> 0, ev |-> [s \in Slots |-> Wild]]]
  /\ issued = 0 /\ ncomplete = 0
  /\ refc = [e \in Events |-> 0]
  /\ held = {}
  /\ asked = [k \in Kinds |-> {}]

-----------------------------------------------------------------------------
(* Slips of Append: the free slot does not wrap; a full list drops the     *)
(* event instead.                                                          *)
AppendUnwrapped(L, e) ==
  [L EXCEPT !.ev[L.ev_free] = e, !.ev_free = @ + 1, !.nev = @ + 1]

AppendUnlessFull(L, e) ==
  IF L.nev = ListMax THEN L
  ELSE [L EXCEPT !.ev[L.ev_free] = e,
                 !.ev_free = (L.ev_free + 1) % ListMax,
                 !.nev = @ + 1]

(* What a call with CL_EVENT_NOWAIT does to its list.                      *)
Append(L, e) ==
  [nev |-> L.nev + 1, ev_first |-> L.ev_first,
   ev_free |-> (L.ev_free + 1) % ListMax,
   ev |-> [L.ev EXCEPT ![L.ev_free] = e]]

(* Slip of SlotsOf: the branch for a full list is missing.                 *)
SlotsBeforeFree(L) ==
  IF L.nev = 0 THEN {} ELSE L.ev_first .. L.ev_free - 1

(* The slots clwait looks at: from the first to the free one or, when they *)
(* are the same and the list is not empty, all of them.                    *)
SlotsOf(L) ==
  IF L.nev = 0 THEN {}
  ELSE IF L.ev_first < L.ev_free THEN L.ev_first .. L.ev_free - 1
  ELSE Slots

EventsOf(L) == {L.ev[s] : s \in SlotsOf(L)}

Latest(a, b) == IF a < b THEN b ELSE a

(* The list after clwait, with its old slots.                              *)
Emptied(L) == [nev |-> 0, ev_first |-> 0, ev_free |-> 0, ev |-> L.ev]

(* clWaitForEvents on the events in W: with a queue in order, until the    *)
(* last of them is complete.                                               *)
WaitFor(W) ==
  \E n \in W \cup {ncomplete} :
    /\ \A e \in W \cup {ncomplete} : e <= n
    /\ ncomplete' = n

(* clReleaseEvent on the events in W, none of them freed.                  *)
Release(W) ==
  /\ refc' = [e \in Events |-> IF e \in W THEN refc[e] - 1 ELSE refc[e]]
  /\ held' = held \ W

(* Slip of RefsOfNew: __do_enqueue_cmd does not retain the event.          *)
RefsUnretained == 1

(* The references to an event after the enqueue that made it: the caller's *)
(* and, with the OpenCL of this repository, one that the library never     *)
(* gives up.                                                               *)
RefsOfNew == IF ocl = "coprthr" THEN 2 ELSE 1

(* The slot before the free one, whose event clfork passes as wait list.   *)
Newest(L) == L.ev[(L.ev_free + ListMax - 1) % ListMax]

(* Some of the events in W is freed.                                       *)
Stale(W) == \E e \in W : refc[e] = 0

(* The end of every call that enqueues a command of kind k: with           *)
(* CL_EVENT_NOWAIT its event is listed, with CL_EVENT_WAIT it is waited    *)
(* for and released unless CL_EVENT_NORELEASE; with neither ("none", of    *)
(* clfork only) it is just returned.                                       *)
Enqueued(k, mode, release) ==
  LET e == issued + 1 IN
  /\ issued < MaxEvents
  /\ issued' = e
  /\ ncomplete' = IF ocl = "coprthr" \/ mode = "wait" THEN e ELSE ncomplete
  /\ IF mode = "wait" /\ release
     THEN refc' = [refc EXCEPT ![e] = RefsOfNew - 1] /\ held' = held
     ELSE refc' = [refc EXCEPT ![e] = RefsOfNew] /\ held' = held \cup {e}
  /\ IF mode = "nowait"
     THEN /\ lists' = [lists EXCEPT ![k] = Append(@, e)]
          /\ asked' = [asked EXCEPT ![k] = @ \cup {e}]
     ELSE UNCHANGED <<lists, asked>>
  /\ UNCHANGED <<ocl, host>>

(* clfork when its enqueue is refused: it goes on with an `ev' it never    *)
(* set.                                                                    *)
Refused(mode) ==
  /\ host' = IF mode = "wait" THEN "lost"
             ELSE IF mode = "nowait" THEN "tainted" ELSE host
  /\ lists' = IF mode = "nowait"
              THEN [lists EXCEPT !["kernel"] = Append(@, Wild)] ELSE lists
  /\ UNCHANGED <<ocl, issued, ncomplete, refc, held, asked>>

(* clfork, clforka: nothing is done when the list is full.  The event      *)
(* listed last is the wait list of the enqueue, whatever became of it.     *)
ClFork(mode, release) ==
  LET L == lists["kernel"]
      waitlist == L.ev_first # L.ev_free
  IN
  /\ host # "lost" /\ L.nev # ListMax
  /\ IF waitlist /\ (host = "tainted" \/ Stale({Newest(L)}))
     THEN /\ host' = "lost"
          /\ UNCHANGED <<ocl, lists, issued, ncomplete, refc, held, asked>>
     ELSE IF waitlist /\ ocl = "coprthr" THEN Refused(mode)
     ELSE Enqueued("kernel", mode, release)

(* clmsync, clmcopy, clglmsync: no wait list, and no test for a full list. *)
ClMSync(mode, release) ==
  /\ host # "lost"
  /\ Enqueued("mem", mode, release)

(* clwait on the lists in ks, which it empties: it waits for every event   *)
(* in them, also for those that clwaitev has released.                     *)
ClWait(ks, release) ==
  LET W == UNION {EventsOf(lists[k]) : k \in ks} IN
  /\ host # "lost"
  /\ IF (host = "tainted" /\ "kernel" \in ks) \/ Stale(W)
     THEN host' = "lost" /\ UNCHANGED <<lists, ncomplete, refc, held, asked>>
     ELSE /\ WaitFor(W)
          /\ IF release THEN Release(W) ELSE UNCHANGED <<refc, held>>
          /\ lists' = [k \in Kinds |-> IF k \in ks /\ lists[k].nev > 0
               THEN Emptied(lists[k])
               ELSE lists[k]]
          /\ asked' = [k \in Kinds |-> IF k \in ks THEN {} ELSE asked[k]]
          /\ UNCHANGED host
  /\ UNCHANGED <<ocl, issued>>

(* clwaitev on an event the host holds, which stays listed: with one       *)
(* reference to it, it is freed all the same.                              *)
ClWaitEv(e, release) ==
  /\ host # "lost" /\ e \in held
  /\ WaitFor({e})
  /\ IF release THEN Release({e}) ELSE UNCHANGED <<refc, held>>
  /\ UNCHANGED <<ocl, host, lists, issued, asked>>

(* clReleaseEvent called by the host on an event that CL_EVENT_NORELEASE   *)
(* left to it.  That of this repository refuses an event that is not       *)
(* complete.                                                               *)
ClReleaseEvent(e) ==
  /\ host # "lost" /\ e \in held
  /\ \A k \in Kinds : e \notin asked[k]
  /\ ocl = "coprthr" => e <= ncomplete
  /\ Release({e})
  /\ UNCHANGED <<ocl, host, lists, issued, ncomplete, asked>>

(* The device completes the next command.                                  *)
Complete ==
  /\ ncomplete < issued
  /\ ncomplete' = ncomplete + 1
  /\ UNCHANGED <<ocl, host, lists, issued, refc, held, asked>>

Next ==
  \/ \E mode \in {"nowait", "wait", "none"}, release \in BOOLEAN :
       ClFork(mode, release)
  \/ \E mode \in {"nowait", "wait"}, release \in BOOLEAN :
       ClMSync(mode, release)
  \/ \E ks \in (SUBSET Kinds) \ {{}}, release \in BOOLEAN : ClWait(ks, release)
  \/ \E e \in Events, release \in BOOLEAN : ClWaitEv(e, release)
  \/ \E e \in Events : ClReleaseEvent(e)
  \/ Complete

Spec == Init /\ [][Next]_vars

-----------------------------------------------------------------------------
(* Types.  A list of kernels is never overfull; ev_first never moves.      *)
TypeOK ==
  /\ ocl \in Libraries
  /\ host \in {"ok", "tainted", "lost"}
  /\ lists \in [Kinds -> [nev : Nat, ev_first : {0}, ev_free : Slots,
                          ev : [Slots -> Events \cup {Wild}]]]
  /\ lists["kernel"].nev <= ListMax
  /\ issued \in 0 .. MaxEvents
  /\ ncomplete \in 0 .. issued
  /\ refc \in [Events -> 0 .. RefsOfNew]
  /\ held \in SUBSET (1 .. issued)
  /\ asked \in [Kinds -> SUBSET (1 .. issued)]

(* When clwait has emptied a list, every command whose event was put in it *)
(* since the wait before is complete, also when the list of clmsync went   *)
(* round and lost events: the newest one is still there, and the queue is  *)
(* in order.                                                               *)
ClWaitCoversAll ==
  [][\A k \in Kinds : asked'[k] = {} => \A e \in asked[k] : e <= ncomplete']_vars

(* The event before the free slot, which the next clfork passes as its     *)
(* wait list, is that of the newest command listed and not waited for: the *)
(* kernels of a device form a chain.                                       *)
NewestIsLast ==
  \A k \in Kinds : LET L == lists[k] IN
    (asked[k] # {} /\ (host = "ok" \/ k = "mem")) =>
      LET e == Newest(L) IN
      e \in asked[k] /\ \A d \in asked[k] : d <= e

(* The events that are used after they were freed: clwaitev releases an    *)
(* event that stays in its list.  With the reference that the OpenCL of    *)
(* this repository keeps, none is ever listed and freed; with another, an  *)
(* event is freed in its list only once the host has released it, and a    *)
(* host that is lost was lost over such an event.  What the host still     *)
(* holds is freed nowhere.                                                 *)
FreedByClWaitEv ==
  LET freed == {e \in UNION {EventsOf(lists[k]) : k \in Kinds} :
                  e # Wild /\ refc[e] = 0}
  IN
  /\ \A e \in held : refc[e] > 0
  /\ freed # {} => ocl = "other"
  /\ (ocl = "other" /\ host = "lost") => freed # {}

(* stdcl_api_ref.txt 467: "The kernel is executed over an index-space of   *)
(* work-items defined by ndr".  A clfork that lists an event has enqueued  *)
(* its kernel.                                                             *)
ForkedKernelsRun ==
  [][lists'["kernel"].nev > lists["kernel"].nev => issued' = issued + 1]_vars

=============================================================================
