-------------------------------- MODULE ClRpc ---------------------------------
(***************************************************************************)
(* OpenCL over RPC: the calls of libclrpc.c that make events or take them, *)
(* and the handlers of clrpcd.c behind them.                               *)
(*                                                                         *)
(* A host thread makes a request and sleeps on a condition variable of its *)
(* own stack until the event loop thread runs its callback.  All requests  *)
(* to a server go through a pool with one connection, one at a time.  The  *)
(* server has one thread; a blocking OpenCL call in it blocks everybody.   *)
(*                                                                         *)
(* The host and the server each have a structure for an event (xevent).    *)
(* A transfer the server cannot do in place goes through a buffer of its   *)
(* own, kept in its xevent; the bytes of a non-blocking read or map reach  *)
(* the host when it waits for the event, those of several events one after *)
(* the other.  All transfers have the same length here, and the device has *)
(* one in-order queue.  Left out: clGetEventInfo and                       *)
(* clGetEventProfilingInfo, which follow the pointer a wait for the event  *)
(* follows and change nothing.                                             *)
(***************************************************************************)
EXTENDS Integers, Sequences, FiniteSets

CONSTANTS
  Thread,        \* host threads of one client process
  MaxEvent,      \* bound: events that are made, numbered from 1
  Offered,       \* kinds of commands each thread enqueues, and which of the
                 \* calls "retain" and "unmap" it makes
  Listable,      \* kinds of events the host gives to clWaitForEvents
  EarlyRelease,  \* may the host release the event of a pending command?
  MaxRetained,   \* bound: events the host retains
  MaxFaults,     \* bound: requests that time out or lose their connection
  MaxList        \* bound: events in one clWaitForEvents

ReadKinds  == {"read", "readB"}             \* B: blocking
WriteKinds == {"write", "writeB"}
MapKinds   == {"map", "mapB"}
Kinds      == ReadKinds \cup WriteKinds \cup MapKinds \cup {"exec"}
Blocking   == {"readB", "writeB", "mapB"}
Unmap      == "unmap"                       \* the event of a call that fails

ASSUME KindsAreKinds == Listable \subseteq Kinds \cup {Unmap}
ASSUME OffersAreKinds == Offered \in [Thread -> SUBSET (Kinds \cup {Unmap, "retain"})]
ASSUME FlagIsBoolean == EarlyRelease \in BOOLEAN
ASSUME BoundsAreNat  == {MaxEvent, MaxList, MaxRetained, MaxFaults} \subseteq Nat
ASSUME NobodyCalls   == "nobody" \notin Thread

VARIABLES
  pc,       \* pc[t]: where t is in a call
  call,     \* call[t]: its call, or the one it last made
  ans,      \* ans[t]: "none", "ok" or "error", the status of the callback
  bytes,    \* bytes[t]: the bytes of the answer, as the transfers they are of
  pool,     \* threads with a request in the pool; the first is being served
  sent,     \* the first request of the pool is with the server
  inbox,    \* requests the server has, each with the thread to answer
  entered,  \* the server is inside a blocking enqueue
  up,       \* FALSE once the server used memory that it must not
  kind,     \* kind[e]: what command e is of, "new" before it is made
  remote,   \* remote[e]: does the host's xevent point to that of the server?
  xev,      \* xev[e]: the server's xevent
  queue,    \* commands on the device that are not complete
  dst,      \* dst[e]: transfer whose bytes are in the host buffer of e
  usable,   \* events the host has, as far as it knows
  known,    \* events the host was told are complete
  retained, \* history: events the host has called clRetainEvent on
  misled,   \* history: those a wait that failed told the host are complete
  faults    \* how many requests timed out

vars == <<pc, call, ans, bytes, pool, sent, inbox, entered, up, kind, remote,
          xev, queue, dst, usable, known, retained, misled, faults>>

client == <<kind, remote, dst, usable, known, retained, misled>>
server == <<inbox, entered, up, xev, queue>>

Event  == 1 .. MaxEvent
Nobody == "nobody"
NoData == 0
Junk   == MaxEvent + 1

(* What an xevent points to when bytes are copied at clWaitForEvents.      *)
HostBuffer(e)   == kind[e] \in {"read", "map"}
ServerBuffer(e) == kind[e] \in {"read", "readB", "map"}

(* tmp_ptr of both sides: how many of the first i events listed are in B,  *)
(* the events with a buffer.                                               *)
Segment(l, i, B) == Cardinality({j \in 1 .. i : l[j] \in B})

(* Buffers of the server that clReleaseEvent frees (XEVENT_BUF_FREE).      *)
Staged(e) == kind[e] \in ReadKinds \cup WriteKinds

Pending(e) == \E i \in 1 .. Len(queue) : queue[i] = e
In(e, l)   == \E i \in 1 .. Len(l) : l[i] = e

Lists(S, n) == UNION {[1 .. k -> S] : k \in 0 .. n}
Distinct(l) == \A i, j \in 1 .. Len(l) : i # j => l[i] # l[j]

NoCall == [op |-> "none", ev |-> 0, list |-> <<>>]

Init ==
  /\ pc = [t \in Thread |-> "idle"] /\ call = [t \in Thread |-> NoCall]
  /\ ans = [t \in Thread |-> "none"] /\ bytes = [t \in Thread |-> <<>>]
  /\ pool = <<>> /\ sent = FALSE
  /\ inbox = <<>> /\ entered = FALSE /\ up = TRUE
  /\ kind = [e \in Event |-> "new"] /\ remote = [e \in Event |-> "unset"]
  /\ xev = [e \in Event |-> "none"] /\ queue = <<>>
  /\ dst = [e \in Event |-> NoData]
  /\ usable = {} /\ known = {} /\ retained = {} /\ misled = {} /\ faults = 0

-----------------------------------------------------------------------------
(* The host.  CLRPC_MAKE_REQUEST_WAIT2 makes the request with the mutex of *)
(* its frame locked.                                                       *)
Request(t, c) ==
  /\ pc[t] = "idle"
  /\ pc' = [pc EXCEPT ![t] = "made"]
  /\ call' = [call EXCEPT ![t] = c]
  /\ pool' = Append(pool, t)
  /\ UNCHANGED <<ans, bytes, sent, server, faults>>

MakeEvent(t, e, k, l) ==
  /\ kind[e] = "new" /\ \A d \in 1 .. e - 1 : kind[d] # "new"
  /\ kind' = [kind EXCEPT ![e] = k]
  /\ Request(t, [op |-> k, ev |-> e, list |-> l])
  /\ UNCHANGED <<remote, dst, usable, known, retained, misled>>

Enqueue(t, e, k, l) == k \in Offered[t] /\ MakeEvent(t, e, k, l)

ReadBuffer(t)  == \E e \in Event, k \in ReadKinds, l \in Lists(usable, 1) : Enqueue(t, e, k, l)
WriteBuffer(t) == \E e \in Event, k \in WriteKinds, l \in Lists(usable, 1) : Enqueue(t, e, k, l)
MapBuffer(t)   == \E e \in Event, k \in MapKinds, l \in Lists(usable, 1) : Enqueue(t, e, k, l)
(* No bytes to or from the host.                                           *)
CopyBuffer(t)    == \E e \in Event, l \in Lists(usable, 1) : Enqueue(t, e, "exec", l)
NDRangeKernel(t) == \E e \in Event, l \in Lists(usable, 1) : Enqueue(t, e, "exec", l)

WaitForEvents(t) ==
  /\ \E l \in Lists({e \in usable : kind[e] \in Listable}, MaxList) :
       /\ l # <<>> /\ Distinct(l)
       /\ Request(t, [op |-> "wait", ev |-> 0, list |-> l])
  /\ UNCHANGED client

(* The host releases an event once, also one that it retained, for the     *)
(* call frees the host's xevent, and does not use it again; it does not    *)
(* release what a call of another thread has been given.                   *)
ReleaseEvent(t) ==
  \E e \in usable :
    /\ EarlyRelease \/ e \in known
    /\ \A u \in Thread : pc[u] # "idle" => ~ In(e, call[u].list)
    /\ usable' = usable \ {e}
    /\ Request(t, [op |-> "release", ev |-> e, list |-> <<e>>])
    /\ UNCHANGED <<kind, remote, dst, known, retained, misled>>

(* clRetainEvent sends the same request as a release.                      *)
RetainEvent(t) ==
  \E e \in usable :
    /\ "retain" \in Offered[t] /\ Cardinality(retained) < MaxRetained
    /\ retained' = retained \cup {e}
    /\ Request(t, [op |-> "retain", ev |-> e, list |-> <<e>>])
    /\ UNCHANGED <<kind, remote, dst, usable, known, misled>>

(* Nobody reads the wait list of this request.                             *)
UnmapMemObject(t) ==
  \E e, m \in Event :
    /\ Unmap \in Offered[t] /\ m \in usable \cap known /\ kind[m] \in MapKinds
    /\ MakeEvent(t, e, Unmap, <<>>)

(* pthread_cond_wait frees the mutex; it is taken not to return by itself. *)
Sleep(t) ==
  /\ pc[t] = "made"
  /\ pc' = [pc EXCEPT ![t] = "asleep"]
  /\ UNCHANGED <<call, ans, bytes, pool, sent, client, server, faults>>

Return(t) ==
  /\ pc' = [pc EXCEPT ![t] = "idle"]
  /\ call' = [call EXCEPT ![t] = NoCall]
  /\ ans' = [ans EXCEPT ![t] = "none"]
  /\ bytes' = [bytes EXCEPT ![t] = <<>>]

(* When the request failed the fields of the reply are read all the same:  *)
(* what the xevent points to and the value the call returns are whatever   *)
(* was there, so the host may or may not see success.                      *)
Misread(e) ==
  /\ remote' = [remote EXCEPT ![e] = "junk"]
  /\ \/ /\ usable' = usable \cup {e}
        /\ known' = IF kind[e] \in Blocking THEN known \cup {e} ELSE known
     \/ UNCHANGED <<usable, known>>
  /\ UNCHANGED <<kind, dst, retained, misled>>

(* Back from the call.                                                     *)
ReturnEnqueue(t) ==
  LET e == call[t].ev IN
  /\ pc[t] = "woken" /\ call[t].op \in Kinds
  /\ Return(t)
  /\ \/ /\ ans[t] = "ok"
        /\ remote' = [remote EXCEPT ![e] = "set"]
        /\ dst' = IF kind[e] \in {"readB", "mapB"} THEN [dst EXCEPT ![e] = bytes[t][1]]
                  ELSE dst
        /\ usable' = usable \cup {e}
        /\ known' = IF kind[e] \in Blocking THEN known \cup {e} ELSE known
        /\ UNCHANGED <<kind, retained, misled>>
     \/ /\ ans[t] = "error"
        /\ Misread(e)
  /\ UNCHANGED <<pool, sent, server, faults>>

ReturnUnmap(t) ==
  /\ pc[t] = "woken" /\ call[t].op = Unmap
  /\ Return(t)
  /\ Misread(call[t].ev)
  /\ UNCHANGED <<pool, sent, server, faults>>

Place(e, l) == CHOOSE i \in 1 .. Len(l) : l[i] = e

(* Slip of Copied: an event without a buffer uses up a segment.            *)
CopiedInStep(l, b) ==
  [e \in Event |->
     IF b # <<>> /\ In(e, l) /\ HostBuffer(e)
     THEN LET k == Place(e, l) IN IF k <= Len(b) THEN b[k] ELSE Junk
     ELSE dst[e]]

(* The segments go, in order, to the buffers of the listed events that     *)
(* have one; without bytes nothing is copied.                              *)
Copied(l, b) ==
  LET wanted == {e \in Event : HostBuffer(e)} IN
  [e \in Event |->
     IF b # <<>> /\ In(e, l) /\ HostBuffer(e)
     THEN LET k == Segment(l, Place(e, l), wanted) IN IF k <= Len(b) THEN b[k] ELSE Junk
     ELSE dst[e]]

ReturnWait(t) ==
  /\ pc[t] = "woken" /\ call[t].op = "wait"
  /\ Return(t)
  /\ dst' = Copied(call[t].list, bytes[t])
  /\ LET waited == {e \in Event : In(e, call[t].list)} IN
     \/ /\ known' = known \cup waited
        /\ misled' = IF ans[t] = "error" THEN misled \cup waited ELSE misled
     \/ /\ ans[t] = "error"
        /\ UNCHANGED <<known, misled>>
  /\ UNCHANGED <<pool, sent, kind, remote, usable, retained, server, faults>>

(* The host's xevent, which nobody uses any more, is freed.                *)
ReturnRelease(t) ==
  /\ pc[t] = "woken" /\ call[t].op = "release"
  /\ Return(t)
  /\ UNCHANGED <<pool, sent, client, server, faults>>

ReturnRetain(t) ==
  /\ pc[t] = "woken" /\ call[t].op = "retain"
  /\ Return(t)
  /\ UNCHANGED <<pool, sent, client, server, faults>>

-----------------------------------------------------------------------------
(* libevent: the pool gives its one connection to one request at a time.   *)
Send ==
  /\ pool # <<>> /\ ~ sent /\ up
  /\ ans[Head(pool)] = "none"
  /\ sent' = TRUE
  /\ inbox' = Append(inbox, [to |-> Head(pool), op |-> call[Head(pool)].op,
                             ev |-> call[Head(pool)].ev, list |-> call[Head(pool)].list])
  /\ UNCHANGED <<pc, call, ans, bytes, pool, client, entered, up, xev, queue, faults>>

(* The request fails; the connection is closed, and an answer to it that   *)
(* the server may still give goes to nobody.                               *)
Fail ==
  /\ pool # <<>> /\ ans[Head(pool)] = "none"
  /\ ans' = [ans EXCEPT ![Head(pool)] = "error"]
  /\ inbox' = [i \in 1 .. Len(inbox) |->
                 IF inbox[i].to = Head(pool) THEN [inbox[i] EXCEPT !.to = Nobody] ELSE inbox[i]]
  /\ UNCHANGED <<pc, call, bytes, pool, sent, client, entered, up, xev, queue>>

Timeout == Fail /\ faults < MaxFaults /\ faults' = faults + 1
Refused == Fail /\ ~ up /\ UNCHANGED faults

(* Slip of Callback: the signal is given without the mutex.                *)
CallbackUnlocked ==
  /\ pool # <<>> /\ ans[Head(pool)] # "none"
  /\ pc' = IF pc[Head(pool)] = "asleep" THEN [pc EXCEPT ![Head(pool)] = "woken"] ELSE pc
  /\ pool' = Tail(pool)
  /\ sent' = FALSE
  /\ UNCHANGED <<call, ans, bytes, client, server, faults>>

(* The callback stores the status, locks the mutex of the frame, so that   *)
(* the thread is asleep, and signals; then the pool goes on.               *)
Callback ==
  /\ pool # <<>> /\ ans[Head(pool)] # "none"
  /\ pc[Head(pool)] = "asleep"
  /\ pc' = [pc EXCEPT ![Head(pool)] = "woken"]
  /\ pool' = Tail(pool)
  /\ sent' = FALSE
  /\ UNCHANGED <<call, ans, bytes, client, server, faults>>

-----------------------------------------------------------------------------
(* The server.                                                             *)
Serving(ops) == up /\ inbox # <<>> /\ Head(inbox).op \in ops

(* The host's xevents point to xevents that are there.                     *)
Valid(l) == \A i \in 1 .. Len(l) : remote[l[i]] = "set" /\ xev[l[i]] = "live"

Reply(status, b) ==
  LET to == Head(inbox).to IN
  /\ inbox' = Tail(inbox)
  /\ ans' = IF to = Nobody THEN ans ELSE [ans EXCEPT ![to] = status]
  /\ bytes' = IF to = Nobody THEN bytes ELSE [bytes EXCEPT ![to] = b]

(* From here on the server does anything: it is taken to be gone.          *)
Crash ==
  /\ up' = FALSE /\ inbox' = <<>> /\ entered' = FALSE
  /\ xev' = [e \in Event |-> "none"] /\ queue' = <<>>
  /\ UNCHANGED <<pc, call, ans, bytes, pool, sent, client, faults>>

(* The bytes of a buffer are those of the transfer once it is complete.    *)
Content(e) == IF Pending(e) THEN Junk ELSE e

(* A handler of an enqueue makes the xevent and its buffer, looks up the   *)
(* wait list and calls OpenCL, which for a blocking call does not return.  *)
Enter(kinds) ==
  LET r == Head(inbox) IN
  /\ Serving(kinds) /\ ~ entered
  /\ \/ /\ Valid(r.list)
        /\ xev' = [xev EXCEPT ![r.ev] = "live"]
        /\ queue' = Append(queue, r.ev)
        /\ \/ /\ r.op \in Blocking
              /\ entered' = TRUE
              /\ UNCHANGED <<inbox, ans, bytes>>
           \/ /\ r.op \notin Blocking
              /\ Reply("ok", <<>>)
              /\ UNCHANGED entered
        /\ UNCHANGED <<pc, call, pool, sent, client, up, faults>>
     \/ ~ Valid(r.list) /\ Crash

ServeRead  == Enter(ReadKinds)
ServeWrite == Enter(WriteKinds)
ServeMap   == Enter(MapKinds)
ServeExec  == Enter({"exec"})

(* A blocking call of the server's OpenCL returns.                         *)
LeaveEnqueue ==
  LET r == Head(inbox) IN
  /\ Serving(Kinds) /\ entered
  /\ ~ Pending(r.ev)
  /\ entered' = FALSE
  /\ Reply("ok", IF r.op = "writeB" THEN <<>> ELSE <<Content(r.ev)>>)
  /\ UNCHANGED <<pc, call, pool, sent, client, up, xev, queue, faults>>

(* The buffers of the listed events that have one, one after the other.    *)
Packed(l) ==
  LET held == {e \in Event : ServerBuffer(e)} IN
  [k \in 1 .. Segment(l, Len(l), held) |->
     Content(l[CHOOSE i \in 1 .. Len(l) : l[i] \in held /\ Segment(l, i, held) = k])]

(* Slip of ServeWait: the buffers are read when the request comes.         *)
ServeWaitEarly ==
  LET l == Head(inbox).list IN
  /\ Serving({"wait"})
  /\ \/ /\ Valid(l)
        /\ Reply("ok", Packed(l))
        /\ UNCHANGED <<pc, call, pool, sent, client, entered, up, xev, queue, faults>>
     \/ ~ Valid(l) /\ Crash

ServeWait ==
  LET l == Head(inbox).list IN
  /\ Serving({"wait"})
  /\ \/ /\ Valid(l)
        /\ \A i \in 1 .. Len(l) : ~ Pending(l[i])
        /\ Reply("ok", Packed(l))
        /\ UNCHANGED <<pc, call, pool, sent, client, entered, up, xev, queue, faults>>
     \/ ~ Valid(l) /\ Crash

(* The xevent and its buffer are freed whatever the device does.           *)
ServeRelease ==
  LET r == Head(inbox) IN
  /\ Serving({"release"})
  /\ \/ /\ Valid(r.list)
        /\ xev' = [xev EXCEPT ![r.ev] = "freed"]
        /\ Reply("ok", <<>>)
        /\ UNCHANGED <<pc, call, pool, sent, client, entered, up, queue, faults>>
     \/ ~ Valid(r.list) /\ Crash

(* The handler of clRetainEvent frees the xevent too, and its buffer also  *)
(* when it is not the server's own: for a map, memory of its OpenCL.       *)
ServeRetain ==
  LET r == Head(inbox) IN
  /\ Serving({"retain"})
  /\ \/ /\ Valid(r.list) /\ kind[r.ev] # "map"
        /\ xev' = [xev EXCEPT ![r.ev] = "freed"]
        /\ Reply("ok", <<>>)
        /\ UNCHANGED <<pc, call, pool, sent, client, entered, up, queue, faults>>
     \/ ~ (Valid(r.list) /\ kind[r.ev] # "map") /\ Crash

(* Slip of ServeUnknown: the status of the transport is passed on.         *)
ServeUnknownStatus ==
  /\ Serving({Unmap})
  /\ Reply("unregistered", <<>>)
  /\ UNCHANGED <<pc, call, pool, sent, client, entered, up, xev, queue, faults>>

(* clrpc_server registers no handler for clEnqueueUnmapMemObject.          *)
ServeUnknown ==
  /\ Serving({Unmap})
  /\ Reply("error", <<>>)
  /\ UNCHANGED <<pc, call, pool, sent, client, entered, up, xev, queue, faults>>

(* The device carries out the oldest command, from or to its buffer.       *)
Complete ==
  /\ up /\ queue # <<>>
  /\ \/ /\ Staged(Head(queue)) /\ xev[Head(queue)] = "freed"
        /\ Crash
     \/ /\ ~ Staged(Head(queue)) \/ xev[Head(queue)] # "freed"
        /\ queue' = Tail(queue)
        /\ UNCHANGED <<pc, call, ans, bytes, pool, sent, client, inbox, entered, up, xev, faults>>

-----------------------------------------------------------------------------
Host(t) ==
  \/ ReadBuffer(t) \/ WriteBuffer(t) \/ MapBuffer(t) \/ CopyBuffer(t)
  \/ NDRangeKernel(t) \/ WaitForEvents(t) \/ ReleaseEvent(t) \/ RetainEvent(t)
  \/ UnmapMemObject(t)

Returning(t) ==
  \/ Sleep(t) \/ ReturnEnqueue(t) \/ ReturnUnmap(t) \/ ReturnWait(t)
  \/ ReturnRelease(t) \/ ReturnRetain(t)

Loop   == Send \/ Refused \/ Callback
Server ==
  \/ ServeRead \/ ServeWrite \/ ServeMap \/ ServeExec
  \/ LeaveEnqueue \/ ServeWait \/ ServeRelease \/ ServeRetain \/ ServeUnknown

Next == (\E t \in Thread : Host(t) \/ Returning(t)) \/ Loop \/ Timeout \/ Server \/ Complete

Spec == Init /\ [][Next]_vars

(* The event loop thread and the server go round their loops for ever, a   *)
(* signalled thread runs, and every command ends.                          *)
FairSpec ==
  /\ Spec
  /\ \A t \in Thread : WF_vars(Returning(t))
  /\ WF_vars(Loop) /\ WF_vars(Server) /\ WF_vars(Complete)

-----------------------------------------------------------------------------
Ops == Kinds \cup {Unmap, "wait", "release", "retain"}

TypeOK ==
  /\ pc \in [Thread -> {"idle", "made", "asleep", "woken"}]
  /\ call \in [Thread -> [op : Ops \cup {"none"}, ev : 0 .. MaxEvent, list : Seq(Event)]]
  /\ ans \in [Thread -> {"none", "ok", "error"}]
  /\ bytes \in [Thread -> Seq(Event \cup {Junk})]
  /\ pool \in Seq(Thread) /\ sent \in BOOLEAN
  /\ inbox \in Seq([to : Thread \cup {Nobody}, op : Ops, ev : 0 .. MaxEvent, list : Seq(Event)])
  /\ entered \in BOOLEAN /\ up \in BOOLEAN /\ faults \in 0 .. MaxFaults
  /\ kind \in [Event -> Kinds \cup {"new", Unmap}]
  /\ remote \in [Event -> {"unset", "set", "junk"}]
  /\ xev \in [Event -> {"none", "live", "freed"}] /\ queue \in Seq(Event)
  /\ dst \in [Event -> 0 .. MaxEvent + 1]
  /\ {usable, known, retained, misled} \subseteq SUBSET Event

(* When a clWaitForEvents that the server answered returns, each listed    *)
(* non-blocking read or map has its own bytes in its host buffer: they     *)
(* were complete when they were packed, and the two sides, each by its own *)
(* xevents, agree on which events have a segment (clrpcd.c 1940-1957,      *)
(* libclrpc.c 2293-2310).                                                  *)
WaitDelivers ==
  [][\A t \in Thread :
       pc[t] = "woken" /\ pc'[t] = "idle" /\ call[t].op = "wait" /\ ans[t] = "ok" =>
         \A e \in Event : In(e, call[t].list) /\ HostBuffer(e) => dst'[e] = e]_vars

(* The host may be led astray about an event in three ways: a call failed, *)
(* as that of an unmap always does, and what the event points to on the    *)
(* server was never read; a wait that failed said it was complete; or it   *)
(* was retained, which freed it.                                           *)
Astray(e) == remote[e] = "junk" \/ e \in misled \/ e \in retained

(* A step that brings the server down, by a pointer to an xevent that was  *)
(* freed or never made or by a freed buffer of a transfer, follows an      *)
(* event the host was led astray about, in the request it serves or the    *)
(* command it completes, whatever timed out, was answered late or was      *)
(* released before (clrpcd.c 754-803, 1218-1250, 1929-1957).               *)
OnlyAstrayBreaks ==
  [][up /\ ~ up' =>
       \/ inbox # <<>> /\ \E e \in Event : In(e, Head(inbox).list) /\ Astray(e)
       \/ queue # <<>> /\ xev[Head(queue)] = "freed" /\ Astray(Head(queue))]_vars

(* Every call returns, also when requests fail and when the server is gone *)
(* (clrpc_common.h 131-150).                                               *)
CallReturns == \A t \in Thread : pc[t] = "made" ~> pc[t] = "idle"
=============================================================================
